---------------------------- MODULE CcoParser_proof ----------------------------
(***************************************************************************)
(* Proofs about the parser: what every frame owns, the depth, the height   *)
(* and the budget, for documents of any length and any limits.             *)
(***************************************************************************)
EXTENDS CcoParser, FiniteSetTheorems, SequenceTheorems, WellFoundedInduction,
        TLAPS

-----------------------------------------------------------------------------
(* The inductive invariant *)

Context == [cur : Token, nxt : Token, left : 0 .. MaxTokens, stuck : BOOLEAN,
            depth : Nat, steps : Nat, err : Error, diag : Error]
Node == [size : Nat \ {0}, height : Nat]
Result == {Null} \cup Node
Frame == [fn : {"value", "map", "array"},
          pc : {"call", "close", "create", "loop", "item", "exit"},
          close : Closers \cup {"eof"}, items : Seq(Node), key : BOOLEAN]

Typed == /\ opts \in Options /\ ctx \in Context
         /\ ret \in Result /\ root \in Result
         /\ live \in Nat /\ keys \in Nat /\ oom \in BOOLEAN
         /\ phase \in {"init", "document", "parse", "done"}

(* Only a map that waits for its value has a key buffer. *)
FrameRight(f) == /\ f.fn = "value" <=> f.pc \in {"call", "close"}
                 /\ f.key => f.pc = "item"
                 /\ f.pc = "create" => f.items = <<>>

(* A value is called by the document or a container, a container by the    *)
(* document or a value that waits to close its bracket.                    *)
Caller(f) == IF f.fn = "value" THEN "item" ELSE "close"
Stack(st) == /\ st \in Seq(Frame)
             /\ \A i \in 1 .. Len(st) : FrameRight(st[i])
             /\ \A i \in 1 .. Len(st) - 1 : st[i].pc = Caller(st[i + 1])

(* Where the call on top stands; the places where it takes a result. *)
Pc(st) == IF st = <<>> THEN "none" ELSE st[Len(st)].pc
Waiting == {"none", "close", "item"}
Answers(c, pc, r, o) ==
    /\ r # Null => pc \in Waiting
    /\ c.err = "ok" /\ ~o /\ pc \in Waiting => r # Null

Weights(st) == [i \in DOMAIN st |-> Weight(st[i])]
Held(st) == Sum(Weights(st))
Keyed(st) == {i \in DOMAIN st : st[i].key}
Open(st) == {i \in DOMAIN st : st[i].fn = "value" /\ st[i].pc = "close"}
Depth(st) == Cardinality(Open(st))

(* What is below a frame leaves so many levels of the limit. *)
Fit(ts, h) == \A i \in DOMAIN ts : ts[i].height <= h
Below(st, i) == Cardinality(Open(st) \cap (1 .. i - 1))
Holds(f) == f.pc \in {"loop", "item", "exit"}
Fits(st, max) == \A i \in DOMAIN st :
                   Holds(st[i]) => Fit(st[i].items, max - Below(st, i))
Low(n, r, pc) ==
    /\ n <= opts.max_depth
    /\ r.height <= opts.max_depth - n + (IF pc = "item" THEN 0 ELSE 1)

(* The steps that are left to a parse that has failed. *)
Slack(pc, r) == IF pc \in {"create", "loop"} THEN 2
                ELSE IF pc = "item" /\ r # Null THEN 3 ELSE 0

(* The budget, in a call that has one: every open bracket took a step, and *)
(* once it is spent what may still be taken is bounded.                    *)
Budget(c, pc, r) ==
    /\ c.depth < c.steps
    /\ c.depth <= MostOpen
    /\ c.err = "ok" => c.steps <= opts.max_steps
    /\ c.err # "ok" =>
         /\ c.steps + c.depth + Slack(pc, r) <= opts.max_steps + 3 + MostOpen
         /\ pc = "close" => r = Null

(* The parser at work: its context, frames and result; the objects and key *)
(* buffers it owns; whether an allocation has failed.                      *)
Parsing(c, st, r, l, k, o) ==
    /\ c \in Context /\ r \in Result /\ o \in BOOLEAN
    /\ Stack(st)
    /\ Answers(c, Pc(st), r, o)
    /\ l = r.size + Held(st)
    /\ k = Cardinality(Keyed(st))
    /\ c.depth = Depth(st)
    /\ opts.max_depth > 0 => /\ Fits(st, opts.max_depth)
                             /\ Low(Depth(st), r, Pc(st))
    /\ opts.max_steps > 0 => Budget(c, Pc(st), r)

Before == phase \in {"init", "document"} =>
    /\ stack = <<>> /\ ret = Null /\ root = Null
    /\ live = 0 /\ keys = 0 /\ oom = FALSE
    /\ ctx.depth = 0 /\ ctx.err = "ok"
    /\ ctx.steps = IF phase = "init" \/ opts.max_steps = 0 THEN 0 ELSE 1

During == phase = "parse" => Parsing(ctx, stack, ret, live, keys, oom)

After == phase = "done" =>
    /\ stack = <<>> /\ ctx.depth = 0
    /\ NothingLeft /\ HeightBounded /\ StepsBounded /\ NullHasError

IInv == Typed /\ Before /\ During /\ After

-----------------------------------------------------------------------------
(* Sums *)

(* A set of numbers that is not empty has a least one. *)
LEMMA Least ==
    ASSUME NEW T, T \subseteq Nat, T # {}
    PROVE  \E x \in T : \A y \in T : x <= y
<1> DEFINE R == {ss \in Nat \X Nat : ss[1] < ss[2]}
<1>1. IsWellFoundedOn(R, Nat) BY NatLessThanWellFounded DEF OpToRel
<1> HIDE DEF R
<1>2. PICK x \in T : \A y \in T : <<y, x>> \notin R BY <1>1, WFMin
<1>3. ASSUME NEW y \in T PROVE x <= y
  <2>1. x \in Nat /\ y \in Nat OBVIOUS
  <2>2. y < x => <<y, x>> \in R BY <2>1 DEF R
  <2> QED BY <1>2, <2>1, <2>2
<1> QED BY <1>3

(* s are the sums of the first of n numbers. *)
Adds(s, n, ns) ==
    /\ s \in [0 .. n -> Nat]
    /\ s[0] = 0
    /\ \A i \in 1 .. n : s[i] = s[i - 1] + ns[i]

Chosen(n, ns) ==
    CHOOSE s : s = [i \in 0 .. n |-> IF i = 0 THEN 0 ELSE s[i - 1] + ns[i]]

LEMMA SumsExist ==
    ASSUME NEW n \in Nat, NEW ns \in [1 .. n -> Nat]
    PROVE  \E s : Adds(s, n, ns)
<1> DEFINE Ok(k) == \E s : Adds(s, k, ns)
           T == {k \in 0 .. n : ~Ok(k)}
<1>1. SUFFICES ASSUME T # {} PROVE FALSE
  <2>1. n \in 0 .. n OBVIOUS
  <2> QED BY <2>1
<1>2. PICK k \in T : \A j \in T : k <= j
  <2>1. T \subseteq Nat OBVIOUS
  <2> HIDE DEF T
  <2> QED BY <1>1, <2>1, Least
<1>3. CASE k = 0
  <2> DEFINE s == [i \in 0 .. 0 |-> 0]
  <2>1. Adds(s, 0, ns) BY DEF Adds
  <2> QED BY <1>3, <2>1
<1>4. CASE k > 0
  <2>1. k - 1 \in 0 .. n /\ ~(k <= k - 1) BY <1>2, <1>4
  <2>2. Ok(k - 1)
    <3> HIDE DEF Ok
    <3> QED BY <1>2, <2>1
  <2>3. PICK s : Adds(s, k - 1, ns) BY <2>2
  <2> DEFINE t == [i \in 0 .. k |-> IF i = k THEN s[k - 1] + ns[k] ELSE s[i]]
  <2>4. t \in [0 .. k -> Nat] /\ t[0] = 0 BY <1>4, <2>3 DEF Adds
  <2>5. ASSUME NEW i \in 1 .. k PROVE t[i] = t[i - 1] + ns[i]
    <3>1. t[i - 1] = s[i - 1] BY <1>4
    <3>2. CASE i = k BY <3>1, <3>2, <1>4
    <3>3. CASE i < k BY <3>1, <3>3, <2>3 DEF Adds
    <3> QED BY <3>2, <3>3
  <2>6. Adds(t, k, ns) BY <2>4, <2>5 DEF Adds
  <2> QED BY <2>6
<1> QED BY <1>3, <1>4

(* What the recursive definition of Sum computes. *)
LEMMA SumAdds ==
    ASSUME NEW ns \in Seq(Nat)
    PROVE  \E s : Adds(s, Len(ns), ns) /\ Sum(ns) = s[Len(ns)]
<1> DEFINE n == Len(ns)
           c == Chosen(n, ns)
<1>1. n \in Nat /\ ns \in [1 .. n -> Nat] OBVIOUS
<1>2. PICK s : Adds(s, n, ns) BY <1>1, SumsExist
<1>3. s = [i \in 0 .. n |-> IF i = 0 THEN 0 ELSE s[i - 1] + ns[i]]
  <2>1. \A i \in 0 .. n : s[i] = IF i = 0 THEN 0 ELSE s[i - 1] + ns[i]
    BY <1>2 DEF Adds
  <2> QED BY <1>2, <2>1 DEF Adds
<1>4. c = [i \in 0 .. n |-> IF i = 0 THEN 0 ELSE c[i - 1] + ns[i]]
  BY <1>3, Zenon DEF Chosen
<1>5. Sum(ns) = c[n] BY DEF Sum, Chosen
<1> HIDE DEF c
<1>6. \A i \in 0 .. n : c[i] = IF i = 0 THEN 0 ELSE c[i - 1] + ns[i] BY <1>4
<1>7. c \in [0 .. n -> Nat]
  <2> DEFINE T == {i \in 0 .. n : c[i] \notin Nat}
  <2>1. SUFFICES ASSUME T # {} PROVE FALSE BY <1>4
  <2>2. PICK i \in T : \A j \in T : i <= j
    <3>1. T \subseteq Nat OBVIOUS
    <3> HIDE DEF T
    <3> QED BY <2>1, <3>1, Least
  <2>3. i # 0 BY <1>1, <1>6
  <2>4. i - 1 \in 0 .. n /\ ~(i <= i - 1) BY <2>3
  <2>5. c[i - 1] \in Nat BY <2>2, <2>4
  <2> QED BY <2>3, <2>5, <1>1, <1>6
<1>8. Adds(c, n, ns) BY <1>1, <1>6, <1>7 DEF Adds
<1> QED BY <1>5, <1>8

(* The first numbers of ns are, all in all, d more than those of ms. *)
Gains(d, n, ms, ns) ==
    /\ ms \in [1 .. n -> Nat] /\ ns \in [1 .. n -> Nat]
    /\ d \in [0 .. n -> Int] /\ d[0] = 0
    /\ \A i \in 1 .. n : d[i] = d[i - 1] + ns[i] - ms[i]

LEMMA SumsDiffer ==
    ASSUME NEW n \in Nat, NEW ms, NEW ns, NEW s, NEW t, NEW d,
           Adds(s, n, ms), Adds(t, n, ns), Gains(d, n, ms, ns)
    PROVE  t[n] = s[n] + d[n]
<1> DEFINE T == {i \in 0 .. n : t[i] # s[i] + d[i]}
<1>1. SUFFICES ASSUME T # {} PROVE FALSE
  <2>1. n \in 0 .. n OBVIOUS
  <2> QED BY <2>1
<1>2. PICK i \in T : \A j \in T : i <= j
  <2>1. T \subseteq Nat OBVIOUS
  <2> HIDE DEF T
  <2> QED BY <1>1, <2>1, Least
<1>3. i # 0 BY DEF Adds, Gains
<1>4. i \in 1 .. n /\ i - 1 \in 0 .. n /\ ~(i <= i - 1) BY <1>3
<1>5. t[i - 1] = s[i - 1] + d[i - 1] BY <1>2, <1>4
<1>6. s[i - 1] \in Nat /\ t[i - 1] \in Nat /\ ms[i] \in Nat /\ ns[i] \in Nat
      /\ d[i - 1] \in Int
      /\ s[i] = s[i - 1] + ms[i] /\ t[i] = t[i - 1] + ns[i]
      /\ d[i] = d[i - 1] + ns[i] - ms[i]
  BY <1>4 DEF Adds, Gains
<1>7. t[i] = s[i] + d[i] BY <1>5, <1>6
<1> QED BY <1>7

LEMMA SumNat == ASSUME NEW ns \in Seq(Nat) PROVE Sum(ns) \in Nat
  BY SumAdds DEF Adds

LEMMA SumEmpty == Sum(<<>>) = 0
<1>1. <<>> \in Seq(Nat) /\ Len(<<>>) = 0 OBVIOUS
<1> QED BY <1>1, SumAdds DEF Adds

LEMMA SumAppend ==
    ASSUME NEW ns \in Seq(Nat), NEW x \in Nat
    PROVE  Sum(Append(ns, x)) = Sum(ns) + x
<1> DEFINE n == Len(ns)
           ms == Append(ns, x)
<1>1. /\ n \in Nat /\ ns \in [1 .. n -> Nat]
      /\ ms \in Seq(Nat) /\ Len(ms) = n + 1 /\ ms[n + 1] = x
      /\ \A i \in 1 .. n : ms[i] = ns[i]
  OBVIOUS
<1> HIDE DEF ms
<1>2. PICK s : Adds(s, n, ns) /\ Sum(ns) = s[n] BY SumAdds
<1>3. PICK t : Adds(t, n + 1, ms) /\ Sum(ms) = t[n + 1] BY <1>1, SumAdds
<1> HIDE DEF n
<1>4. t[n + 1] = t[n] + x
  <2>1. n + 1 \in 1 .. n + 1 /\ (n + 1) - 1 = n BY <1>1
  <2> QED BY <1>1, <1>3, <2>1 DEF Adds
<1> DEFINE u == [i \in 0 .. n |-> t[i]]
           d == [i \in 0 .. n |-> 0]
<1>5. Adds(u, n, ns)
  <2>1. u \in [0 .. n -> Nat] /\ u[0] = 0 BY <1>1, <1>3 DEF Adds
  <2>2. ASSUME NEW i \in 1 .. n PROVE u[i] = u[i - 1] + ns[i]
    <3>1. u[i] = t[i] /\ u[i - 1] = t[i - 1] BY <1>1
    <3> QED BY <3>1, <1>1, <1>3 DEF Adds
  <2> QED BY <2>1, <2>2 DEF Adds
<1>6. u[n] = t[n] BY <1>1
<1> HIDE DEF u
<1>7. u[n] = s[n] + d[n]
  <2>1. Gains(d, n, ns, ns) BY <1>1 DEF Gains
  <2> HIDE DEF d
  <2> QED BY <1>1, <1>2, <1>5, <2>1, SumsDiffer
<1> QED BY <1>1, <1>2, <1>3, <1>4, <1>6, <1>7 DEF ms, Adds

LEMMA SumExcept ==
    ASSUME NEW ns \in Seq(Nat), NEW k \in 1 .. Len(ns), NEW x \in Nat
    PROVE  Sum([ns EXCEPT ![k] = x]) = Sum(ns) - ns[k] + x
<1> DEFINE n == Len(ns)
           ms == [ns EXCEPT ![k] = x]
           d == [i \in 0 .. n |-> IF i < k THEN 0 ELSE x - ns[k]]
<1>1. /\ n \in Nat /\ ns \in [1 .. n -> Nat] /\ ms \in Seq(Nat) /\ Len(ms) = n
      /\ ms \in [1 .. n -> Nat] /\ ms[k] = x
      /\ \A i \in 1 .. n : i # k => ms[i] = ns[i]
  OBVIOUS
<1>2. d \in [0 .. n -> Int] /\ d[0] = 0 /\ d[n] = x - ns[k] BY <1>1
<1>3. Gains(d, n, ns, ms)
  <2>1. ASSUME NEW i \in 1 .. n PROVE d[i] = d[i - 1] + ms[i] - ns[i]
    <3>1. ms[i] \in Nat /\ ns[i] \in Nat BY <1>1
    <3>2. CASE i = k BY <3>1, <3>2, <1>1
    <3>3. CASE i # k BY <3>1, <3>3, <1>1
    <3> QED BY <3>2, <3>3
  <2> QED BY <1>1, <1>2, <2>1 DEF Gains
<1> HIDE DEF n, ms, d
<1>4. PICK s : Adds(s, n, ns) /\ Sum(ns) = s[n] BY SumAdds DEF n
<1>5. PICK t : Adds(t, n, ms) /\ Sum(ms) = t[n] BY <1>1, SumAdds
<1>6. t[n] = s[n] + d[n] BY <1>1, <1>3, <1>4, <1>5, SumsDiffer
<1> QED BY <1>1, <1>2, <1>4, <1>5, <1>6 DEF ms, Adds

-----------------------------------------------------------------------------
(* Trees and frames *)

Sizes(ts) == [i \in DOMAIN ts |-> ts[i].size]

LEMMA SizesOf ==
    ASSUME NEW ts \in Seq(Node), NEW t \in Node
    PROVE  /\ SumSizes(ts) \in Nat
           /\ SumSizes(<<>>) = 0
           /\ SumSizes(Append(ts, t)) = SumSizes(ts) + t.size
           /\ \A i \in DOMAIN ts :
                SumSizes([ts EXCEPT ![i] = t]) = SumSizes(ts) - ts[i].size + t.size
<1>1. Sizes(ts) \in Seq(Nat) /\ t.size \in Nat /\ Len(Sizes(ts)) = Len(ts)
      /\ \A i \in 1 .. Len(ts) : Sizes(ts)[i] = ts[i].size
  <2>1. t.size \in Nat BY DEF Node
  <2>2. DOMAIN ts = 1 .. Len(ts) /\ Len(ts) \in Nat OBVIOUS
  <2>3. ASSUME NEW i \in 1 .. Len(ts) PROVE ts[i].size \in Nat
    <3>1. ts[i] \in Node BY ElementOfSeq
    <3> QED BY <3>1 DEF Node
  <2>4. Sizes(ts) \in [1 .. Len(ts) -> Nat] BY <2>2, <2>3 DEF Sizes
  <2>5. Sizes(ts) \in Seq(Nat) /\ Len(Sizes(ts)) = Len(ts)
    BY <2>2, <2>4, SeqDef, LenProperties
  <2> QED BY <2>1, <2>2, <2>5 DEF Sizes
<1>2. SumSizes(ts) = Sum(Sizes(ts)) BY DEF SumSizes, Sizes
<1>3. SumSizes(<<>>) = 0
  <2>1. [i \in DOMAIN <<>> |-> <<>>[i].size] = <<>> OBVIOUS
  <2> QED BY <2>1, SumEmpty DEF SumSizes
<1>4. SumSizes(Append(ts, t)) = SumSizes(ts) + t.size
  <2>1. Sizes(Append(ts, t)) = Append(Sizes(ts), t.size) BY <1>1 DEF Sizes, Node
  <2> QED BY <1>1, <1>2, <2>1, SumAppend DEF SumSizes, Sizes
<1>5. ASSUME NEW i \in DOMAIN ts
      PROVE  SumSizes([ts EXCEPT ![i] = t]) = SumSizes(ts) - ts[i].size + t.size
  <2>1. Sizes([ts EXCEPT ![i] = t]) = [Sizes(ts) EXCEPT ![i] = t.size]
    BY <1>1 DEF Sizes, Node
  <2>2. i \in 1 .. Len(Sizes(ts)) BY <1>1
  <2>3. Sum([Sizes(ts) EXCEPT ![i] = t.size]) = Sum(Sizes(ts)) - Sizes(ts)[i] + t.size
    BY <1>1, <2>2, SumExcept
  <2>4. Sizes(ts)[i] = ts[i].size BY <1>1
  <2> QED BY <1>2, <2>1, <2>3, <2>4 DEF SumSizes, Sizes
<1> QED BY <1>1, <1>2, <1>3, <1>4, <1>5, SumNat

Heights(ts, k) == {0} \cup {ts[i].height : i \in 1 .. k}

LEMMA MaxHeightIs ==
    ASSUME NEW ts \in Seq(Node)
    PROVE  /\ MaxHeight(ts) \in Nat
           /\ \A h \in Nat : Fit(ts, h) => MaxHeight(ts) <= h
<1> DEFINE Ok(k) == \E h \in Heights(ts, k) : \A g \in Heights(ts, k) : g <= h
           T == {k \in 0 .. Len(ts) : ~Ok(k)}
<1>1. Len(ts) \in Nat /\ DOMAIN ts = 1 .. Len(ts)
      /\ \A i \in 1 .. Len(ts) : ts[i].height \in Nat
  <2>1. ASSUME NEW i \in 1 .. Len(ts) PROVE ts[i].height \in Nat
    <3>1. ts[i] \in Node BY ElementOfSeq
    <3> QED BY <3>1 DEF Node
  <2> QED BY <2>1
<1>2. T = {}
  <2>1. SUFFICES ASSUME T # {} PROVE FALSE OBVIOUS
  <2>2. PICK k \in T : \A j \in T : k <= j
    <3>1. T \subseteq Nat OBVIOUS
    <3> HIDE DEF T
    <3> QED BY <2>1, <3>1, Least
  <2>3. k # 0 BY DEF Heights
  <2>4. k - 1 \in 0 .. Len(ts) /\ ~(k <= k - 1) BY <2>3
  <2>5. Ok(k - 1)
    <3> HIDE DEF Ok
    <3> QED BY <2>2, <2>4
  <2>6. PICK h \in Heights(ts, k - 1) : \A g \in Heights(ts, k - 1) : g <= h
    BY <2>5
  <2>7. k \in 1 .. Len(ts) BY <2>3
  <2>8. Heights(ts, k) = Heights(ts, k - 1) \cup {ts[k].height}
    BY <2>7 DEF Heights
  <2>9. h \in Nat /\ ts[k].height \in Nat BY <1>1, <2>6, <2>7 DEF Heights
  <2>10. \A g \in Heights(ts, k) : g \in Nat BY <1>1, <2>7 DEF Heights
  <2>11. CASE ts[k].height <= h BY <2>6, <2>8, <2>9, <2>11
  <2>12. CASE h < ts[k].height
    <3>1. ts[k].height \in Heights(ts, k) BY <2>8
    <3>2. ASSUME NEW g \in Heights(ts, k) PROVE g <= ts[k].height
      <4>1. CASE g = ts[k].height BY <2>9, <4>1
      <4>2. CASE g \in Heights(ts, k - 1)
        <5>1. g \in Nat /\ g <= h BY <2>6, <2>10, <4>2
        <5> HIDE DEF T, Ok
        <5> QED BY <5>1, <2>9, <2>12
      <4> QED BY <2>8, <4>1, <4>2
    <3> QED BY <3>1, <3>2
  <2> QED BY <2>9, <2>11, <2>12
<1>3. Len(ts) \in 0 .. Len(ts) BY <1>1
<1>4. Ok(Len(ts)) BY <1>2, <1>3
<1> DEFINE hs == Heights(ts, Len(ts))
<1>5. MaxHeight(ts) = CHOOSE h \in hs : \A g \in hs : g <= h
  <2>1. hs = {0} \cup {ts[i].height : i \in DOMAIN ts} BY <1>1 DEF Heights
  <2> QED BY <2>1, Zenon DEF MaxHeight
<1>6. MaxHeight(ts) \in hs BY <1>4, <1>5
<1> QED BY <1>1, <1>6 DEF Heights, Fit

LEMMA WeightNat ==
    ASSUME NEW f \in Frame
    PROVE  /\ Weight(f) \in Nat
           /\ f.pc \in {"loop", "item", "exit"} => Weight(f) = 1 + SumSizes(f.items)
           /\ f.pc \notin {"loop", "item", "exit"} => Weight(f) = 0
<1>1. SumSizes(f.items) \in Nat
  <2>1. f.items \in Seq(Node) /\ [size |-> 1, height |-> 1] \in Node
    BY DEF Frame, Node
  <2> QED BY <2>1, SizesOf
<1> QED BY <1>1 DEF Weight, Tree

LEMMA HeldNat ==
    ASSUME NEW st \in Seq(Frame)
    PROVE  /\ Held(st) \in Nat /\ Weights(st) \in Seq(Nat)
           /\ IsFiniteSet(Keyed(st)) /\ Cardinality(Keyed(st)) \in Nat
           /\ IsFiniteSet(Open(st)) /\ Depth(st) \in Nat
<1>1. \A i \in 1 .. Len(st) : Weight(st[i]) \in Nat BY WeightNat
<1>2. Weights(st) \in Seq(Nat) BY <1>1 DEF Weights
<1>3. IsFiniteSet(1 .. Len(st)) BY FS_Interval
<1>4. Keyed(st) \in SUBSET (1 .. Len(st)) /\ Open(st) \in SUBSET (1 .. Len(st))
  BY DEF Keyed, Open
<1>5. IsFiniteSet(Keyed(st)) /\ IsFiniteSet(Open(st)) BY <1>3, <1>4, FS_Subset
<1> QED BY <1>2, <1>5, SumNat, FS_CardinalityType DEF Held, Depth

LEMMA Pushed ==
    ASSUME NEW st \in Seq(Frame), NEW f \in Frame
    PROVE  /\ Held(Append(st, f)) = Held(st) + Weight(f)
           /\ Cardinality(Keyed(Append(st, f))) =
                Cardinality(Keyed(st)) + (IF f.key THEN 1 ELSE 0)
           /\ Depth(Append(st, f)) =
                Depth(st) + (IF f.fn = "value" /\ f.pc = "close" THEN 1 ELSE 0)
<1> DEFINE n == Len(st)
           tt == Append(st, f)
<1>1. n \in Nat /\ tt \in Seq(Frame) /\ Len(tt) = n + 1 /\ tt[n + 1] = f
      /\ DOMAIN tt = 1 .. n + 1 /\ DOMAIN st = 1 .. n
      /\ \A i \in 1 .. n : tt[i] = st[i]
  OBVIOUS
<1> HIDE DEF tt, n
<1>2. Held(tt) = Held(st) + Weight(f)
  <2>1. Weights(st) \in Seq(Nat) /\ Weight(f) \in Nat BY HeldNat, WeightNat
  <2>2. Weights(tt) \in Seq(Nat) BY <1>1, HeldNat
  <2>3. Weights(tt) = Append(Weights(st), Weight(f))
    <3>1. Len(Weights(tt)) = n + 1 /\ Len(Weights(st)) = n
      BY <1>1, <2>1, <2>2 DEF Weights
    <3>2. \A i \in 1 .. n + 1 : Weights(tt)[i] = Append(Weights(st), Weight(f))[i]
      BY <1>1, <2>1, <3>1 DEF Weights
    <3> QED BY <1>1, <2>1, <2>2, <3>1, <3>2
  <2> QED BY <2>1, <2>3, SumAppend DEF Held
<1>3. Cardinality(Keyed(tt)) = Cardinality(Keyed(st)) + (IF f.key THEN 1 ELSE 0)
  <2>1. Keyed(tt) = IF f.key THEN Keyed(st) \cup {n + 1} ELSE Keyed(st)
    BY <1>1 DEF Keyed
  <2>2. n + 1 \notin Keyed(st) BY <1>1 DEF Keyed
  <2>3. IsFiniteSet(Keyed(st)) /\ Cardinality(Keyed(st)) \in Nat BY HeldNat
  <2>4. Cardinality(Keyed(st) \cup {n + 1}) = Cardinality(Keyed(st)) + 1
    BY <2>2, <2>3, FS_AddElement
  <2> QED BY <2>1, <2>3, <2>4
<1>4. Depth(tt) = Depth(st) + (IF f.fn = "value" /\ f.pc = "close" THEN 1 ELSE 0)
  <2>1. Open(tt) = IF f.fn = "value" /\ f.pc = "close"
                    THEN Open(st) \cup {n + 1} ELSE Open(st)
    BY <1>1 DEF Open
  <2>2. n + 1 \notin Open(st) BY <1>1 DEF Open
  <2>3. IsFiniteSet(Open(st)) /\ Depth(st) \in Nat BY HeldNat
  <2>4. Cardinality(Open(st) \cup {n + 1}) = Cardinality(Open(st)) + 1
    BY <2>2, <2>3, FS_AddElement
  <2> QED BY <2>1, <2>3, <2>4 DEF Depth
<1> QED BY <1>2, <1>3, <1>4 DEF tt

(* Adding a frame: the calls and the limit. *)
LEMMA StackPushed ==
    ASSUME NEW st \in Seq(Frame), NEW f \in Frame
    PROVE  Stack(Append(st, f)) <=>
             /\ Stack(st) /\ FrameRight(f)
             /\ Pc(st) \in {"none", Caller(f)}
<1> DEFINE n == Len(st)
           tt == Append(st, f)
<1>1. /\ n \in Nat /\ tt \in Seq(Frame) /\ Len(tt) = n + 1 /\ tt[n + 1] = f
      /\ \A i \in 1 .. n : tt[i] = st[i]
      /\ st # <<>> <=> n # 0
  OBVIOUS
<1> HIDE DEF tt
<1>2. ASSUME Stack(tt)
      PROVE  /\ Stack(st) /\ FrameRight(f)
             /\ Pc(st) \in {"none", Caller(f)}
  <2>1. FrameRight(f)
    <3>1. n + 1 \in 1 .. Len(tt) BY <1>1
    <3> QED BY <1>1, <1>2, <3>1 DEF Stack
  <2>2. ASSUME NEW i \in 1 .. n PROVE FrameRight(st[i])
    <3>1. i \in 1 .. Len(tt) BY <1>1
    <3> QED BY <1>1, <1>2, <3>1 DEF Stack
  <2>3. ASSUME NEW i \in 1 .. n - 1 PROVE st[i].pc = Caller(st[i + 1])
    <3>1. i \in 1 .. Len(tt) - 1 /\ i \in 1 .. n /\ i + 1 \in 1 .. n BY <1>1
    <3> QED BY <1>1, <1>2, <3>1 DEF Stack
  <2>4. ASSUME st # <<>> PROVE st[n].pc = Caller(f)
    <3>1. n \in 1 .. Len(tt) - 1 /\ n \in 1 .. n BY <1>1, <2>4
    <3> QED BY <1>1, <1>2, <3>1 DEF Stack
  <2> QED BY <2>1, <2>2, <2>3, <2>4 DEF Stack, Pc
<1>3. ASSUME Stack(st), FrameRight(f), Pc(st) \in {"none", Caller(f)}
      PROVE  Stack(tt)
  <2>1. ASSUME NEW i \in 1 .. n + 1 PROVE FrameRight(tt[i])
    <3>1. CASE i = n + 1 BY <1>1, <1>3, <3>1
    <3>2. CASE i \in 1 .. n BY <1>1, <1>3, <3>2 DEF Stack
    <3> QED BY <1>1, <3>1, <3>2
  <2>2. ASSUME NEW i \in 1 .. n PROVE tt[i].pc = Caller(tt[i + 1])
    <3>1. CASE i = n
      <4>1. st # <<>> /\ n \in 1 .. n /\ tt[n] = st[n] BY <1>1, <3>1
      <4>2. st[n] \in Frame BY <4>1, ElementOfSeq
      <4>3. st[n].pc = Caller(f) BY <1>3, <4>1, <4>2 DEF Pc, Frame
      <4> QED BY <1>1, <3>1, <4>1, <4>3
    <3>2. CASE i \in 1 .. n - 1
      <4>1. i + 1 \in 1 .. n /\ st[i].pc = Caller(st[i + 1]) BY <1>1, <1>3, <3>2 DEF Stack
      <4> QED BY <1>1, <4>1
    <3> QED BY <1>1, <3>1, <3>2
  <2> QED BY <1>1, <2>1, <2>2 DEF Stack
<1> QED BY <1>2, <1>3 DEF tt

LEMMA FitsPushed ==
    ASSUME NEW st \in Seq(Frame), NEW f \in Frame, NEW max
    PROVE  Fits(Append(st, f), max) <=>
             /\ Fits(st, max)
             /\ Holds(f) => Fit(f.items, max - Depth(st))
<1> DEFINE n == Len(st)
           tt == Append(st, f)
<1>1. /\ n \in Nat /\ Len(tt) = n + 1 /\ tt[n + 1] = f
      /\ DOMAIN tt = 1 .. n + 1 /\ DOMAIN st = 1 .. n
      /\ \A i \in 1 .. n : tt[i] = st[i]
  OBVIOUS
<1> HIDE DEF tt, n
<1>2. ASSUME NEW i \in 1 .. n + 1 PROVE Below(tt, i) = Below(st, i)
  <2>1. Open(tt) \cap (1 .. i - 1) = Open(st) \cap (1 .. i - 1) BY <1>1 DEF Open
  <2> QED BY <2>1 DEF Below
<1>3. Below(tt, n + 1) = Depth(st)
  <2>1. (n + 1) - 1 = n /\ Open(st) \cap (1 .. n) = Open(st) BY <1>1 DEF Open
  <2>2. Below(st, n + 1) = Depth(st) BY <2>1 DEF Below, Depth
  <2>3. n + 1 \in 1 .. n + 1 BY <1>1
  <2> QED BY <1>2, <2>2, <2>3
<1>4. ASSUME Fits(tt, max)
      PROVE  Fits(st, max) /\ (Holds(f) => Fit(f.items, max - Depth(st)))
  <2>1. n + 1 \in 1 .. n + 1 BY <1>1
  <2>2. Holds(f) => Fit(f.items, max - Depth(st)) BY <1>1, <1>3, <1>4, <2>1 DEF Fits
  <2>3. ASSUME NEW i \in 1 .. n, Holds(st[i])
        PROVE  Fit(st[i].items, max - Below(st, i))
    <3>1. i \in 1 .. n + 1 BY <1>1
    <3> QED BY <1>1, <1>2, <1>4, <2>3, <3>1 DEF Fits
  <2> QED BY <1>1, <2>2, <2>3 DEF Fits
<1>5. ASSUME Fits(st, max), Holds(f) => Fit(f.items, max - Depth(st))
      PROVE  Fits(tt, max)
  <2>1. ASSUME NEW i \in 1 .. n + 1, Holds(tt[i])
        PROVE  Fit(tt[i].items, max - Below(tt, i))
    <3>1. CASE i = n + 1 BY <1>1, <1>3, <1>5, <2>1, <3>1
    <3>2. CASE i \in 1 .. n BY <1>1, <1>2, <1>5, <2>1, <3>2 DEF Fits
    <3> QED BY <1>1, <3>1, <3>2
  <2> QED BY <1>1, <2>1 DEF Fits
<1> QED BY <1>4, <1>5 DEF tt

LEMMA EmptyStack ==
    /\ Stack(<<>>) /\ Held(<<>>) = 0 /\ Cardinality(Keyed(<<>>)) = 0
    /\ Depth(<<>>) = 0 /\ \A max : Fits(<<>>, max)
    /\ Pc(<<>>) = "none"
<1>1. <<>> \in Seq(Frame) /\ Len(<<>>) = 0 /\ DOMAIN <<>> = {} OBVIOUS
<1>2. Stack(<<>>) BY <1>1 DEF Stack
<1>3. Held(<<>>) = 0
  <2>1. Weights(<<>>) = <<>> BY <1>1 DEF Weights
  <2> QED BY <2>1, SumEmpty DEF Held
<1>4. Keyed(<<>>) = {} /\ Open(<<>>) = {} BY <1>1 DEF Keyed, Open
<1> QED BY <1>1, <1>2, <1>3, <1>4, FS_EmptySet DEF Fits, Depth, Pc

(* The stack of a parse, seen from the frame on top. *)
LEMMA OnTop ==
    ASSUME stack \in Seq(Frame), stack # <<>>
    PROVE  /\ Under \in Seq(Frame) /\ Top \in Frame
           /\ stack = Append(Under, Top)
           /\ \A f \in Frame : Goto(f) = Append(Under, f)
<1>1. Len(stack) \in Nat /\ Len(stack) # 0 OBVIOUS
<1>2. Top \in Frame BY <1>1 DEF Top
<1>3. Under \in Seq(Frame) /\ Len(Under) = Len(stack) - 1
      /\ \A i \in 1 .. Len(stack) - 1 : Under[i] = stack[i]
  <2> DEFINE m == Len(stack) - 1
  <2>1. m \in Nat /\ \A i \in 1 .. m : stack[i] \in Frame BY <1>1
  <2> HIDE DEF m
  <2>2. /\ SubSeq(stack, 1, m) \in Seq(Frame)
        /\ Len(SubSeq(stack, 1, m)) = IF 1 <= m THEN m - 1 + 1 ELSE 0
        /\ \A i \in 1 .. m - 1 + 1 : SubSeq(stack, 1, m)[i] = stack[1 + i - 1]
    BY <2>1, SubSeqProperties
  <2>3. Under = SubSeq(stack, 1, m) BY DEF Under, m
  <2>4. \A i \in 1 .. m : 1 + i - 1 = i /\ i \in 1 .. m - 1 + 1 BY <2>1
  <2>5. (IF 1 <= m THEN m - 1 + 1 ELSE 0) = m BY <2>1
  <2>6. \A i \in 1 .. m : Under[i] = stack[i] BY <2>2, <2>3, <2>4
  <2> QED BY <2>2, <2>3, <2>5, <2>6 DEF m
<1>4. stack = Append(Under, Top)
  <2>1. /\ Append(Under, Top) \in Seq(Frame)
        /\ Len(Append(Under, Top)) = Len(stack)
        /\ \A i \in 1 .. Len(stack) - 1 : Append(Under, Top)[i] = Under[i]
        /\ Append(Under, Top)[Len(stack)] = Top
    BY <1>1, <1>2, <1>3
  <2>2. \A i \in 1 .. Len(stack) : Append(Under, Top)[i] = stack[i]
    BY <1>1, <1>3, <2>1 DEF Top
  <2> QED BY <1>1, <2>1, <2>2, SeqEqual
<1>5. ASSUME NEW f \in Frame PROVE Goto(f) = Append(Under, f)
  BY <1>3, AppendIsConcat DEF Goto
<1> QED BY <1>2, <1>3, <1>4, <1>5

-----------------------------------------------------------------------------
(* Contexts *)

(* d differs from c only in what the lexer writes. *)
Reads(c, d) == /\ d \in Context
               /\ d.depth = c.depth /\ d.steps = c.steps /\ d.err = c.err

(* What advance_token does to the limits of a call. *)
Moves(c, d) ==
    /\ d \in Context /\ d.depth = c.depth
    /\ opts.max_steps = 0 => d.steps = c.steps /\ d.err = c.err
    /\ opts.max_steps > 0 =>
         /\ d.steps = c.steps + 1
         /\ d.err = IF d.steps > opts.max_steps THEN "range" ELSE c.err

LEMMA FillReads ==
    ASSUME NEW c \in Context, NEW n \in Token, NEW b \in BOOLEAN
    PROVE  Reads(c, Fill(c, n, b))
<1>1. Fill(c, n, b) = [c EXCEPT !.nxt = n, !.cur = [c.cur EXCEPT !.own = @ /\ ~b]]
  BY DEF Fill, Context
<1>2. c.cur \in Token BY DEF Context
<1>3. [c.cur EXCEPT !.own = @ /\ ~b] \in Token BY <1>2 DEF Token
<1> HIDE DEF Token
<1> QED BY <1>1, <1>3 DEF Reads, Context

LEMMA LexReads ==
    ASSUME NEW c \in Context, NEW d \in Lex(c)
    PROVE  Reads(c, d)
<1>1. ASSUME NEW e, Reads(c, e), NEW l \in 0 .. MaxTokens
      PROVE  Reads(c, [e EXCEPT !.left = l])
  BY <1>1 DEF Reads, Context
<1>2. ASSUME NEW e, Reads(c, e), NEW x \in Error
      PROVE  Reads(c, [e EXCEPT !.diag = x])
  BY <1>2 DEF Reads, Context
<1>3. ASSUME NEW e, Reads(c, e) PROVE Reads(c, [e EXCEPT !.stuck = TRUE])
  BY <1>3 DEF Reads, Context
<1>4. c.nxt.type \in TokenType /\ c.diag \in Error /\ c.left \in 0 .. MaxTokens
      /\ MaxTokens \in Nat
  BY BoundAssumption DEF Context, Token
<1>5. ASSUME NEW n \in Token, NEW b \in BOOLEAN
      PROVE  Fill(c, n, b).left = c.left
  BY DEF Fill, Context
<1>6. ASSUME d \in LexEof(c) PROVE Reads(c, d)
  <2> DEFINE n == [type |-> "eof", own |-> FALSE]
  <2>1. n \in Token BY DEF Token, TokenType
  <2>2. d = [Fill(c, n, FALSE) EXCEPT !.left = 0] BY <1>6 DEF LexEof
  <2> HIDE DEF n
  <2>3. Reads(c, Fill(c, n, FALSE)) BY <2>1, FillReads
  <2>4. 0 \in 0 .. MaxTokens BY <1>4
  <2> QED BY <1>1, <2>2, <2>3, <2>4
<1>7. ASSUME d \in LexDollar(c) PROVE Reads(c, d)
  <2> DEFINE n == [type |-> "ident", own |-> FALSE]
  <2>1. n \in Token BY DEF Token, TokenType
  <2>2. d = [Fill(c, n, FALSE) EXCEPT !.stuck = TRUE] BY <1>7 DEF LexDollar
  <2> HIDE DEF n
  <2> QED BY <1>3, <2>1, <2>2, FillReads
<1>8. ASSUME d \in LexToken(c), c.left # 0 PROVE Reads(c, d)
  <2>1. PICK t \in TokenType :
          d = [Fill(c, [type |-> t, own |-> t = "string"], t = "string")
                 EXCEPT !.left = @ - 1]
    BY <1>8 DEF LexToken
  <2> DEFINE n == [type |-> t, own |-> t = "string"]
             b == (t = "string")
  <2>2. n \in Token /\ b \in BOOLEAN BY DEF Token
  <2>3. d = [Fill(c, n, b) EXCEPT !.left = c.left - 1] BY <1>5, <2>1, <2>2
  <2>4. c.left - 1 \in 0 .. MaxTokens BY <1>4, <1>8
  <2> HIDE DEF n, b
  <2>5. Reads(c, Fill(c, n, b)) BY <2>2, FillReads
  <2> QED BY <1>1, <2>3, <2>4, <2>5
<1>9. ASSUME d \in LexError(c), c.left # 0 PROVE Reads(c, d)
  <2> DEFINE n == [type |-> c.nxt.type, own |-> FALSE]
             first(e) == IF c.diag = "ok" THEN e ELSE c.diag
  <2>1. n \in Token BY <1>4 DEF Token
  <2>2. first("arg") \in Error /\ first("parse") \in Error BY <1>4 DEF Error
  <2>3. c.left - 1 \in 0 .. MaxTokens /\ 0 \in 0 .. MaxTokens BY <1>4, <1>9
  <2>4. \/ \E b \in BOOLEAN :
             d = [Fill(c, n, b) EXCEPT !.left = @ - 1, !.diag = first("arg")]
        \/ d = [Fill(c, n, TRUE) EXCEPT !.left = 0, !.diag = first("parse")]
    BY <1>9, Zenon DEF LexError
  <2> HIDE DEF n, first
  <2>5. ASSUME NEW b \in BOOLEAN, NEW l \in 0 .. MaxTokens, NEW x \in Error
        PROVE  Reads(c, [[Fill(c, n, b) EXCEPT !.left = l] EXCEPT !.diag = x])
    BY <1>1, <1>2, <2>1, FillReads
  <2>6. CASE \E b \in BOOLEAN :
             d = [Fill(c, n, b) EXCEPT !.left = @ - 1, !.diag = first("arg")]
    <3>1. PICK b \in BOOLEAN :
             d = [Fill(c, n, b) EXCEPT !.left = @ - 1, !.diag = first("arg")]
      BY <2>6
    <3>2. Reads(c, Fill(c, n, b)) BY <2>1, FillReads
    <3>3. d = [[Fill(c, n, b) EXCEPT !.left = c.left - 1] EXCEPT !.diag = first("arg")]
      BY <1>5, <2>1, <3>1, <3>2 DEF Reads, Context
    <3> QED BY <2>2, <2>3, <2>5, <3>3
  <2>7. CASE d = [Fill(c, n, TRUE) EXCEPT !.left = 0, !.diag = first("parse")]
    <3>2. Reads(c, Fill(c, n, TRUE)) BY <2>1, FillReads
    <3>3. d = [[Fill(c, n, TRUE) EXCEPT !.left = 0] EXCEPT !.diag = first("parse")]
      BY <2>7, <3>2 DEF Reads, Context
    <3> QED BY <2>2, <2>3, <2>5, <3>3
  <2> QED BY <2>4, <2>6, <2>7
<1> QED BY <1>6, <1>7, <1>8, <1>9 DEF Lex

LEMMA AdvanceMoves ==
    ASSUME opts \in Options, NEW c \in Context, NEW d \in Advance(c)
    PROVE  Moves(c, d)
<1>1. opts.max_steps \in Nat BY OptionsAssumption
<1> DEFINE b == [c EXCEPT !.cur = c.nxt]
<1>2. b \in Context /\ Reads(c, b)
  <2>1. c.nxt \in Token BY DEF Context
  <2> QED BY <2>1 DEF Reads, Context
<1>3. PICK e \in Lex(b) : d = CountStep(e) BY DEF Advance
<1> HIDE DEF b
<1>4. Reads(b, e) BY <1>2, LexReads
<1>5. e \in Context /\ e.depth = c.depth /\ e.steps = c.steps /\ e.err = c.err
  BY <1>2, <1>4 DEF Reads
<1>6. CASE opts.max_steps = 0 BY <1>1, <1>3, <1>5, <1>6 DEF CountStep, Moves
<1>7. CASE opts.max_steps > 0
  <2> DEFINE f == [e EXCEPT !.steps = @ + 1]
  <2>1. f \in Context /\ f.depth = e.depth /\ f.steps = e.steps + 1 /\ f.err = e.err
    BY <1>5 DEF Context
  <2>2. d = IF f.steps > opts.max_steps THEN Records(f, "range") ELSE f
    BY <1>1, <1>3, <1>7 DEF CountStep
  <2> HIDE DEF f
  <2>3. /\ Records(f, "range") \in Context
        /\ Records(f, "range").depth = f.depth
        /\ Records(f, "range").steps = f.steps
        /\ Records(f, "range").err = "range"
    BY <2>1 DEF Records, Context, Error
  <2> QED BY <1>1, <1>5, <1>7, <2>1, <2>2, <2>3 DEF Moves
<1> QED BY <1>1, <1>6, <1>7

(* Setting an error. *)
LEMMA ErrorSet ==
    ASSUME NEW c \in Context, NEW e \in Error
    PROVE  /\ Fails(c, e) \in Context /\ Records(c, e) \in Context
           /\ Fails(c, e).err = e /\ Records(c, e).err = e
           /\ Fails(c, e).depth = c.depth /\ Records(c, e).depth = c.depth
           /\ Fails(c, e).steps = c.steps /\ Records(c, e).steps = c.steps
  BY DEF Fails, Records, Context

-----------------------------------------------------------------------------
(* The steps of a parse *)

Key(f) == IF f.key THEN 1 ELSE 0
Level(f) == IF f.fn = "value" /\ f.pc = "close" THEN 1 ELSE 0

(* Parsing, with the frame on top apart. *)
OnFrame(c, u, f, r, l, k, o) ==
    /\ c \in Context /\ r \in Result /\ o \in BOOLEAN
    /\ Stack(u) /\ FrameRight(f) /\ Pc(u) \in {"none", Caller(f)}
    /\ Answers(c, f.pc, r, o)
    /\ l = r.size + Held(u) + Weight(f)
    /\ k = Cardinality(Keyed(u)) + Key(f)
    /\ c.depth = Depth(u) + Level(f)
    /\ opts.max_depth > 0 =>
         /\ Fits(u, opts.max_depth)
         /\ Holds(f) => Fit(f.items, opts.max_depth - Depth(u))
         /\ Low(Depth(u) + Level(f), r, f.pc)
    /\ opts.max_steps > 0 => Budget(c, f.pc, r)

LEMMA ParsingOn ==
    ASSUME NEW u \in Seq(Frame), NEW f \in Frame,
           NEW c, NEW r, NEW l, NEW k, NEW o
    PROVE  Parsing(c, Append(u, f), r, l, k, o) <=> OnFrame(c, u, f, r, l, k, o)
<1>1. Pc(Append(u, f)) = f.pc
  <2>1. Append(u, f) # <<>> /\ Append(u, f)[Len(Append(u, f))] = f OBVIOUS
  <2> QED BY <2>1 DEF Pc
<1>2. /\ Held(Append(u, f)) = Held(u) + Weight(f)
      /\ Cardinality(Keyed(Append(u, f))) = Cardinality(Keyed(u)) + Key(f)
      /\ Depth(Append(u, f)) = Depth(u) + Level(f)
  BY Pushed DEF Key, Level
<1>3. r \in Result => r.size + (Held(u) + Weight(f)) = r.size + Held(u) + Weight(f)
  BY HeldNat, WeightNat DEF Result, Null, Node
<1>4. Stack(Append(u, f)) <=>
        Stack(u) /\ FrameRight(f) /\ Pc(u) \in {"none", Caller(f)}
  BY StackPushed
<1>5. Fits(Append(u, f), opts.max_depth) <=>
        /\ Fits(u, opts.max_depth)
        /\ Holds(f) => Fit(f.items, opts.max_depth - Depth(u))
  BY FitsPushed
<1> QED BY <1>1, <1>2, <1>3, <1>4, <1>5 DEF Parsing, OnFrame

(* Numbers of a call. *)
LEMMA Limited ==
    ASSUME opts \in Options
    PROVE  /\ opts.max_depth \in Nat /\ opts.max_steps \in Nat /\ MostOpen \in Nat
  BY OptionsAssumption DEF MostOpen

LEMMA InParse ==
    ASSUME IInv, phase = "parse", stack # <<>>
    PROVE  /\ Under \in Seq(Frame) /\ Top \in Frame
           /\ OnFrame(ctx, Under, Top, ret, live, keys, oom)
           /\ \A f \in Frame : Goto(f) = Append(Under, f)
           /\ opts \in Options
<1>1. Parsing(ctx, stack, ret, live, keys, oom) BY DEF IInv, During
<1>2. stack \in Seq(Frame) BY <1>1 DEF Parsing, Stack
<1>3. /\ Under \in Seq(Frame) /\ Top \in Frame
      /\ stack = Append(Under, Top)
      /\ \A f \in Frame : Goto(f) = Append(Under, f)
  BY <1>2, OnTop
<1>4. OnFrame(ctx, Under, Top, ret, live, keys, oom) BY <1>1, <1>3, ParsingOn
<1> QED BY <1>3, <1>4 DEF IInv, Typed

LEMMA ParseStep ==
    ASSUME IInv, phase \in {"document", "parse"}, phase' = "parse",
           UNCHANGED <<opts, root>>,
           Parsing(ctx', stack', ret', live', keys', oom')
    PROVE  IInv'
<1>1. stack' \in Seq(Frame) BY DEF Parsing, Stack
<1>2. Held(stack') \in Nat /\ Cardinality(Keyed(stack')) \in Nat BY <1>1, HeldNat
<1>3. ret' \in Result /\ ret'.size \in Nat BY DEF Parsing, Result, Null, Node
<1>4. Typed' BY <1>2, <1>3 DEF IInv, Typed, Parsing
<1>5. Parsing(ctx, stack, ret, live, keys, oom)'
  BY DEF Parsing, Low, Budget, MostOpen
<1> QED BY <1>4, <1>5 DEF IInv, Before, During, After

(* What a call that answers leaves to the frame under it. *)
LEMMA Answered ==
    ASSUME opts \in Options, NEW u \in Seq(Frame),
           NEW c, NEW r, NEW l, NEW k, NEW o,
           c \in Context /\ r \in Result /\ o \in BOOLEAN,
           Stack(u), Pc(u) \in Waiting,
           c.err = "ok" /\ ~o => r # Null,
           l = r.size + Held(u), k = Cardinality(Keyed(u)), c.depth = Depth(u),
           opts.max_depth > 0 => /\ Fits(u, opts.max_depth)
                                 /\ Low(Depth(u), r, Pc(u)),
           opts.max_steps > 0 => Budget(c, Pc(u), r)
    PROVE  Parsing(c, u, r, l, k, o)
  BY DEF Parsing, Answers

(* A value about to be parsed. *)
LEMMA ValueCalled ==
    ASSUME IInv, At("value", "call")
    PROVE  /\ phase = "parse" /\ ret = Null
           /\ opts \in Options
           /\ opts.max_depth \in Nat /\ opts.max_steps \in Nat /\ MostOpen \in Nat
           /\ Under \in Seq(Frame) /\ Top \in Frame /\ Stack(Under)
           /\ \A f \in Frame : Goto(f) = Append(Under, f)
           /\ Pc(Under) \in {"none", "item"}
           /\ ctx \in Context /\ ctx.depth \in Nat /\ ctx.steps \in Nat
           /\ oom \in BOOLEAN
           /\ live = Held(Under) /\ live \in Nat
           /\ keys = Cardinality(Keyed(Under)) /\ keys \in Nat
           /\ ctx.depth = Depth(Under)
           /\ opts.max_depth > 0 => /\ Fits(Under, opts.max_depth)
                                    /\ Depth(Under) <= opts.max_depth
           /\ opts.max_steps > 0 => Budget(ctx, "call", Null)
<1>1. phase = "parse" /\ stack # <<>> /\ Top.fn = "value" /\ Top.pc = "call"
  BY DEF At
<1>2. /\ Under \in Seq(Frame) /\ Top \in Frame
      /\ OnFrame(ctx, Under, Top, ret, live, keys, oom)
      /\ \A f \in Frame : Goto(f) = Append(Under, f)
      /\ opts \in Options
  BY <1>1, InParse
<1>3. ret = Null BY <1>1, <1>2 DEF OnFrame, Answers, Waiting
<1>4. /\ Weight(Top) = 0 /\ Key(Top) = 0 /\ Level(Top) = 0
  BY <1>1, <1>2, WeightNat DEF OnFrame, FrameRight, Key, Level
<1>5. /\ opts.max_depth \in Nat /\ opts.max_steps \in Nat /\ MostOpen \in Nat
  BY <1>2, Limited
<1>6. /\ Held(Under) \in Nat /\ Cardinality(Keyed(Under)) \in Nat
      /\ Depth(Under) \in Nat
  BY <1>2, HeldNat
<1>7. live = Held(Under) /\ keys = Cardinality(Keyed(Under)) /\ ctx.depth = Depth(Under)
  BY <1>2, <1>3, <1>4, <1>6 DEF OnFrame, Null
<1>8. ctx \in Context /\ ctx.depth \in Nat /\ ctx.steps \in Nat
  BY <1>2 DEF OnFrame, Context
<1>9. opts.max_depth > 0 => /\ Fits(Under, opts.max_depth)
                            /\ Depth(Under) <= opts.max_depth
  BY <1>2, <1>4, <1>5, <1>6 DEF OnFrame, Low
<1>10. Pc(Under) \in {"none", "item"} /\ Stack(Under) /\ oom \in BOOLEAN
  BY <1>1, <1>2 DEF OnFrame, Caller
<1>11. opts.max_steps > 0 => Budget(ctx, "call", Null)
  BY <1>1, <1>2, <1>3 DEF OnFrame
<1> QED BY <1>1, <1>2, <1>3, <1>5, <1>6, <1>7, <1>8, <1>9, <1>10, <1>11

(* A value that is nothing. *)
LEMMA ValueFailed ==
    ASSUME IInv, At("value", "call"), Return(Null), NoHeap, NoCall,
           ctx' \in Context, ctx'.err # "ok",
           ctx'.depth = ctx.depth, ctx'.steps = ctx.steps
    PROVE  IInv'
<1>1. /\ phase = "parse" /\ ret = Null /\ opts \in Options
      /\ opts.max_depth \in Nat /\ opts.max_steps \in Nat /\ MostOpen \in Nat
      /\ Under \in Seq(Frame) /\ Stack(Under) /\ Pc(Under) \in {"none", "item"}
      /\ ctx.depth \in Nat /\ ctx.steps \in Nat /\ oom \in BOOLEAN
      /\ live = Held(Under) /\ live \in Nat
      /\ keys = Cardinality(Keyed(Under)) /\ ctx.depth = Depth(Under)
      /\ opts.max_depth > 0 => /\ Fits(Under, opts.max_depth)
                               /\ Depth(Under) <= opts.max_depth
      /\ opts.max_steps > 0 => Budget(ctx, "call", Null)
  BY ValueCalled
<1>2. /\ stack' = Under /\ ret' = Null /\ live' = live /\ keys' = keys
      /\ oom' = oom /\ phase' = phase /\ UNCHANGED <<opts, root>>
  BY DEF Return, NoHeap, NoCall
<1>3. ASSUME opts.max_steps > 0 PROVE Budget(ctx', Pc(Under), Null)
  <2>1. Budget(ctx, "call", Null) BY <1>1, <1>3
  <2>2. Slack("call", Null) = 0 /\ Slack(Pc(Under), Null) = 0 BY <1>1 DEF Slack
  <2>3. ctx.steps + ctx.depth + 0 <= opts.max_steps + 3 + MostOpen
    <3>1. /\ ctx.steps \in Nat /\ ctx.depth \in Nat
          /\ opts.max_steps \in Nat /\ MostOpen \in Nat
      BY <1>1
    <3>2. \/ ctx.steps + ctx.depth + 0 <= opts.max_steps + 3 + MostOpen
          \/ ctx.steps <= opts.max_steps /\ ctx.depth <= MostOpen
      BY <2>1, <2>2 DEF Budget
    <3> QED BY <3>1, <3>2
  <2>4. Pc(Under) # "close" BY <1>1
  <2> QED BY <2>1, <2>2, <2>3, <2>4 DEF Budget
<1>4. opts.max_depth > 0 => Low(Depth(Under), Null, Pc(Under))
  BY <1>1 DEF Low, Null
<1>5. Null \in Result /\ live = Null.size + Held(Under) BY <1>1 DEF Result, Null
<1>6. Parsing(ctx', Under, Null, live, keys, oom)
  BY <1>1, <1>3, <1>4, <1>5, Answered DEF Waiting
<1> QED BY <1>1, <1>2, <1>6, ParseStep

LEMMA ValueRefusedStep == ASSUME IInv, ValueRefused PROVE IInv'
<1>1. At("value", "call") /\ Return(Null) /\ NoHeap /\ NoCall BY DEF ValueRefused
<1>2. ctx \in Context BY DEF IInv, Typed
<1>3. CASE ctx.err # "ok" /\ UNCHANGED ctx BY <1>1, <1>2, <1>3, ValueFailed
<1>4. CASE ctx' = Records(ctx, "range")
  <2>1. "range" \in Error /\ "range" # "ok" BY DEF Error
  <2>2. /\ ctx' \in Context /\ ctx'.err # "ok"
        /\ ctx'.depth = ctx.depth /\ ctx'.steps = ctx.steps
    BY <1>2, <1>4, <2>1, ErrorSet
  <2> QED BY <1>1, <2>2, ValueFailed
<1> QED BY <1>3, <1>4 DEF ValueRefused

LEMMA ValueUnexpectedStep == ASSUME IInv, ValueUnexpected PROVE IInv'
<1>1. At("value", "call") /\ Return(Null) /\ NoHeap /\ NoCall
      /\ ctx' = Records(ctx, "parse")
  BY DEF ValueUnexpected, Enters
<1>2. ctx \in Context BY DEF IInv, Typed
<1>3. "parse" \in Error /\ "parse" # "ok" BY DEF Error
<1>4. /\ ctx' \in Context /\ ctx'.err # "ok"
      /\ ctx'.depth = ctx.depth /\ ctx'.steps = ctx.steps
  BY <1>1, <1>2, <1>3, ErrorSet
<1> QED BY <1>1, <1>4, ValueFailed

(* A value that is one token: a leaf, or nothing when there is no memory. *)
LEMMA ValueLeaf ==
    ASSUME IInv, Enters, NEW t \in {Null, Leaf}, NEW c \in Context,
           c.depth = ctx.depth, c.steps = ctx.steps, ctx' \in Advance(c),
           Return(t), live' = live + t.size, keys' = keys, oom' \in BOOLEAN,
           c.err = "ok" /\ ~oom' => t # Null, NoCall
    PROVE  IInv'
<1>1. /\ phase = "parse" /\ ret = Null /\ opts \in Options
      /\ opts.max_depth \in Nat /\ opts.max_steps \in Nat /\ MostOpen \in Nat
      /\ Under \in Seq(Frame) /\ Stack(Under) /\ Pc(Under) \in {"none", "item"}
      /\ ctx.depth \in Nat /\ ctx.steps \in Nat
      /\ live = Held(Under) /\ live \in Nat
      /\ keys = Cardinality(Keyed(Under)) /\ ctx.depth = Depth(Under)
      /\ opts.max_depth > 0 => /\ Fits(Under, opts.max_depth)
                               /\ Depth(Under) <= opts.max_depth
      /\ opts.max_steps > 0 => Budget(ctx, "call", Null)
  BY ValueCalled DEF Enters
<1>2. /\ stack' = Under /\ ret' = t /\ live' = live + t.size /\ keys' = keys
      /\ phase' = phase /\ UNCHANGED <<opts, root>>
  BY DEF Return, NoCall
<1>3. Moves(c, ctx') BY <1>1, AdvanceMoves
<1>4. /\ ctx.err = "ok"
      /\ opts.max_depth > 0 => ctx.depth < opts.max_depth
      /\ opts.max_steps > 0 => ctx.depth < MostOpen
  BY <1>1 DEF Enters, AtMaxDepth, Budget, MostOpen
<1>5. ASSUME opts.max_steps > 0 PROVE Budget(ctx', Pc(Under), t)
  <2>1. /\ ctx'.depth = ctx.depth /\ ctx'.steps = ctx.steps + 1
        /\ ctx'.err = "ok" => ctx'.steps <= opts.max_steps
    BY <1>1, <1>3, <1>5 DEF Moves
  <2>2. ctx.depth < ctx.steps /\ ctx.steps <= opts.max_steps
    BY <1>1, <1>4, <1>5 DEF Budget
  <2>3. Slack(Pc(Under), t) \in {0, 3} BY <1>1 DEF Slack
  <2>4. /\ ctx'.steps + ctx'.depth + Slack(Pc(Under), t)
              <= opts.max_steps + 3 + MostOpen
        /\ ctx'.depth < ctx'.steps /\ ctx'.depth <= MostOpen
    <3>1. /\ ctx.steps \in Nat /\ ctx.depth \in Nat
          /\ opts.max_steps \in Nat /\ MostOpen \in Nat
      BY <1>1
    <3>2. ctx.depth < MostOpen BY <1>4, <1>5
    <3> QED BY <2>1, <2>2, <2>3, <3>1, <3>2
  <2> QED BY <1>1, <2>1, <2>4 DEF Budget
<1>6. opts.max_depth > 0 => Low(Depth(Under), t, Pc(Under))
  BY <1>1, <1>4 DEF Low, Null, Leaf
<1>7. t \in Result /\ t.size \in Nat BY DEF Result, Null, Leaf, Node
<1>8. ctx' \in Context /\ ctx'.depth = Depth(Under) /\ (ctx'.err = "ok" => c.err = "ok")
  BY <1>1, <1>3 DEF Moves
<1>9. live' = t.size + Held(Under) BY <1>1, <1>2, <1>7
<1>10. Parsing(ctx', Under, t, live', keys, oom')
  BY <1>1, <1>5, <1>6, <1>7, <1>8, <1>9, Answered DEF Waiting
<1> QED BY <1>1, <1>2, <1>10, ParseStep

LEMMA ValueScalarStep == ASSUME IInv, ValueScalar PROVE IInv'
<1>1. PICK ok \in BOOLEAN : /\ Note(ok) /\ Return(IF ok THEN Leaf ELSE Null)
                            /\ live' = live + (IF ok THEN 1 ELSE 0)
  BY DEF ValueScalar, Malloc
<1> DEFINE t == IF ok THEN Leaf ELSE Null
<1>2. /\ t \in {Null, Leaf} /\ live' = live + t.size
      /\ oom' \in BOOLEAN /\ (~oom' => t # Null)
  <2>1. oom \in BOOLEAN BY DEF IInv, Typed
  <2>2. oom' \in BOOLEAN /\ (~oom' => ok) BY <1>1, <2>1, Zenon DEF Note
  <2>3. CASE ok BY <1>1, <2>2, <2>3 DEF Leaf, Null
  <2>4. CASE ~ok BY <1>1, <2>2, <2>4 DEF Leaf, Null
  <2> QED BY <2>3, <2>4
<1>3. Return(t) BY <1>1
<1>4. Enters /\ ctx' \in Advance(ctx) /\ keys' = keys /\ NoCall BY DEF ValueScalar
<1>5. ctx \in Context BY DEF IInv, Typed
<1> HIDE DEF t
<1> QED BY <1>2, <1>3, <1>4, <1>5, ValueLeaf

LEMMA ValueStringStep == ASSUME IInv, ValueString PROVE IInv'
<1>1. PICK made \in BOOLEAN, copied \in BOOLEAN :
        /\ Note(made /\ copied)
        /\ Return(IF made THEN Leaf ELSE Null)
        /\ live' = live + (IF made THEN 1 ELSE 0)
        /\ ctx' \in Advance(IF made /\ ~copied THEN Fails(ctx, "nomem") ELSE ctx)
  BY DEF ValueString, Malloc
<1> DEFINE t == IF made THEN Leaf ELSE Null
           c == IF made /\ ~copied THEN Fails(ctx, "nomem") ELSE ctx
<1>2. /\ t \in {Null, Leaf} /\ live' = live + t.size
      /\ oom' \in BOOLEAN /\ (~oom' => t # Null)
  <2>1. oom \in BOOLEAN BY DEF IInv, Typed
  <2>2. oom' \in BOOLEAN /\ (~oom' => made) BY <1>1, <2>1, Zenon DEF Note
  <2>3. CASE made BY <1>1, <2>2, <2>3 DEF Leaf, Null
  <2>4. CASE ~made BY <1>1, <2>2, <2>4 DEF Leaf, Null
  <2> QED BY <2>3, <2>4
<1>3. Return(t) /\ ctx' \in Advance(c) BY <1>1
<1>4. Enters /\ keys' = keys /\ NoCall BY DEF ValueString
<1>5. c \in Context /\ c.depth = ctx.depth /\ c.steps = ctx.steps
  <2>1. ctx \in Context /\ "nomem" \in Error BY DEF IInv, Typed, Error
  <2> QED BY <2>1, ErrorSet
<1> HIDE DEF t, c
<1> QED BY <1>2, <1>3, <1>4, <1>5, ValueLeaf

LEMMA FreshFrames ==
    /\ ValueFrame \in Frame /\ FrameRight(ValueFrame)
    /\ ValueFrame.fn = "value" /\ ValueFrame.pc = "call" /\ ~ValueFrame.key
    /\ \A fn \in {"map", "array"} :
         /\ ContainerFrame(fn) \in Frame /\ FrameRight(ContainerFrame(fn))
         /\ ContainerFrame(fn).fn = fn /\ ContainerFrame(fn).pc = "create"
         /\ ~ContainerFrame(fn).key
<1>1. <<>> \in Seq(Node) OBVIOUS
<1> QED BY <1>1 DEF ValueFrame, ContainerFrame, Frame, FrameRight

(* A call: the frame g under the new one waits for it. *)
LEMMA Called ==
    ASSUME opts \in Options, NEW u \in Seq(Frame), NEW g \in Frame, NEW h \in Frame,
           Stack(u), FrameRight(g), FrameRight(h),
           Pc(u) \in {"none", Caller(g)}, g.pc = Caller(h),
           h.pc \in {"call", "create"},
           NEW c \in Context, NEW l, NEW k, NEW o \in BOOLEAN,
           l = Held(u) + Weight(g), k = Cardinality(Keyed(u)) + Key(g),
           c.depth = Depth(u) + Level(g),
           opts.max_depth > 0 =>
             /\ Fits(u, opts.max_depth)
             /\ Holds(g) => Fit(g.items, opts.max_depth - Depth(u))
             /\ Depth(u) + Level(g) <= opts.max_depth,
           opts.max_steps > 0 => Budget(c, h.pc, Null)
    PROVE  Parsing(c, Append(Append(u, g), h), Null, l, k, o)
<1> DEFINE v == Append(u, g)
<1>1. v \in Seq(Frame) /\ v # <<>> /\ v[Len(v)] = g OBVIOUS
<1>2. Stack(v) BY StackPushed
<1>3. Pc(v) = g.pc BY <1>1 DEF Pc
<1>4. /\ Held(v) = Held(u) + Weight(g) /\ Depth(v) = Depth(u) + Level(g)
      /\ Cardinality(Keyed(v)) = Cardinality(Keyed(u)) + Key(g)
  BY Pushed DEF Key, Level
<1>5. /\ Held(v) \in Nat /\ Depth(v) \in Nat /\ Cardinality(Keyed(v)) \in Nat
  BY <1>1, HeldNat
<1>6. opts.max_depth > 0 => Fits(v, opts.max_depth) BY FitsPushed
<1> HIDE DEF v
<1>7. Weight(h) = 0 /\ Key(h) = 0 /\ Level(h) = 0 /\ ~Holds(h)
  BY WeightNat DEF FrameRight, Key, Level, Holds
<1>8. opts.max_depth \in Nat BY Limited
<1>9. Null \in Result /\ Null.size = 0 /\ Null.height = 0 BY DEF Result, Null
<1>10. opts.max_depth > 0 => Low(Depth(v) + Level(h), Null, h.pc)
  BY <1>4, <1>5, <1>7, <1>8, <1>9 DEF Low
<1>11. l = Null.size + Held(v) + Weight(h) /\ k = Cardinality(Keyed(v)) + Key(h)
       /\ c.depth = Depth(v) + Level(h)
  BY <1>4, <1>5, <1>7, <1>9
<1>12. Answers(c, h.pc, Null, o) BY DEF Answers, Waiting
<1>13. OnFrame(c, v, h, Null, l, k, o)
  BY <1>2, <1>3, <1>6, <1>7, <1>9, <1>10, <1>11, <1>12 DEF OnFrame
<1> QED BY <1>1, <1>13, ParsingOn DEF v

LEMMA ValueOpensStep == ASSUME IInv, ValueOpens PROVE IInv'
<1>1. /\ phase = "parse" /\ ret = Null /\ opts \in Options
      /\ opts.max_depth \in Nat /\ opts.max_steps \in Nat /\ MostOpen \in Nat
      /\ Under \in Seq(Frame) /\ Top \in Frame /\ Stack(Under)
      /\ \A f \in Frame : Goto(f) = Append(Under, f)
      /\ Pc(Under) \in {"none", "item"}
      /\ ctx \in Context /\ ctx.depth \in Nat /\ ctx.steps \in Nat
      /\ oom \in BOOLEAN /\ live = Held(Under) /\ live \in Nat
      /\ keys = Cardinality(Keyed(Under)) /\ keys \in Nat
      /\ ctx.depth = Depth(Under)
      /\ opts.max_depth > 0 => /\ Fits(Under, opts.max_depth)
                               /\ Depth(Under) <= opts.max_depth
      /\ opts.max_steps > 0 => Budget(ctx, "call", Null)
  BY ValueCalled DEF ValueOpens, Enters
<1>2. PICK close \in Closers, c \in Advance([ctx EXCEPT !.depth = @ + 1]),
           fn \in {"map", "array"} :
        /\ ctx' = c
        /\ stack' = Goto([Top EXCEPT !.pc = "close", !.close = close])
                    \o <<ContainerFrame(fn)>>
  <2>1. CloserOf[ctx.cur.type] \in Closers BY DEF ValueOpens, CloserOf, Closers
  <2> QED BY <2>1 DEF ValueOpens
<1> DEFINE g == [Top EXCEPT !.pc = "close", !.close = close]
           h == ContainerFrame(fn)
           b == [ctx EXCEPT !.depth = @ + 1]
<1>3. Top.fn = "value" /\ Top.pc = "call" /\ ~Top.key
  <2>1. stack # <<>> /\ Top.fn = "value" /\ Top.pc = "call"
    BY DEF ValueOpens, Enters, At
  <2> QED BY <1>1, <2>1, InParse DEF OnFrame, FrameRight
<1>4. g \in Frame /\ g.fn = "value" /\ g.pc = "close" /\ ~g.key /\ FrameRight(g)
  BY <1>1, <1>3 DEF Frame, FrameRight
<1>5. h \in Frame /\ h.pc = "create" /\ FrameRight(h) /\ h.fn # "value"
  BY FreshFrames
<1>6. b \in Context /\ b.depth = ctx.depth + 1 /\ b.steps = ctx.steps
      /\ b.err = ctx.err
  <2>1. ctx \in Context BY <1>1
  <2> QED BY <2>1 DEF Context
<1>7. Moves(b, c) BY <1>1, <1>2, <1>6, AdvanceMoves
<1>8. stack' = Append(Append(Under, g), h)
  <2>1. Goto(g) = Append(Under, g) /\ Append(Under, g) \in Seq(Frame) BY <1>1, <1>4
  <2>2. stack' = Goto(g) \o <<h>> BY <1>2
  <2> HIDE DEF g, h
  <2> QED BY <1>5, <2>1, <2>2, AppendIsConcat
<1> HIDE DEF g, h, b
<1>9. Weight(g) = 0 /\ Key(g) = 0 /\ Level(g) = 1 /\ ~Holds(g)
  BY <1>4, WeightNat DEF Key, Level, Holds
<1>10. /\ ctx.err = "ok"
       /\ opts.max_depth > 0 => ctx.depth < opts.max_depth
       /\ opts.max_steps > 0 => ctx.depth < MostOpen
  BY <1>1 DEF ValueOpens, Enters, AtMaxDepth, Budget, MostOpen
<1>11. ASSUME opts.max_steps > 0 PROVE Budget(c, "create", Null)
  <2>0. /\ ctx.steps \in Nat /\ ctx.depth \in Nat
        /\ opts.max_steps \in Nat /\ MostOpen \in Nat
    BY <1>1
  <2>1. /\ c.depth = ctx.depth + 1 /\ c.steps = ctx.steps + 1
        /\ c.err = "ok" => c.steps <= opts.max_steps
    BY <1>1, <1>6, <1>7, <1>11 DEF Moves
  <2>2. ctx.depth < ctx.steps /\ ctx.steps <= opts.max_steps
    BY <1>1, <1>10, <1>11 DEF Budget
  <2>3. Slack("create", Null) = 2 BY DEF Slack
  <2>4. c.steps + c.depth + 2 <= opts.max_steps + 3 + MostOpen
    BY <1>10, <1>11, <2>0, <2>1, <2>2
  <2>5. c.depth < c.steps /\ c.depth <= MostOpen
    BY <1>10, <1>11, <2>0, <2>1, <2>2
  <2> QED BY <2>1, <2>3, <2>4, <2>5 DEF Budget
<1>12. live = Held(Under) + Weight(g) /\ keys = Cardinality(Keyed(Under)) + Key(g)
       /\ c.depth = Depth(Under) + Level(g) /\ c \in Context
  BY <1>1, <1>6, <1>7, <1>9 DEF Moves
<1>13. opts.max_depth > 0 => Depth(Under) + Level(g) <= opts.max_depth
  BY <1>1, <1>9, <1>10
<1>14. Pc(Under) \in {"none", Caller(g)} /\ g.pc = Caller(h)
  BY <1>1, <1>4, <1>5 DEF Caller
<1>15. Parsing(c, Append(Append(Under, g), h), Null, live, keys, oom)
  BY <1>1, <1>4, <1>5, <1>9, <1>11, <1>12, <1>13, <1>14, Called
<1>16. /\ ret' = Null /\ live' = live /\ keys' = keys /\ oom' = oom
       /\ phase' = phase /\ UNCHANGED <<opts, root>>
  BY <1>1 DEF ValueOpens, NoHeap, NoCall
<1> QED BY <1>1, <1>2, <1>8, <1>15, <1>16, ParseStep

LEMMA ValueClosesStep == ASSUME IInv, ValueCloses PROVE IInv'
<1>1. /\ phase = "parse" /\ stack # <<>> /\ Top.fn = "value" /\ Top.pc = "close"
      /\ stack' = Under /\ ret' = ret /\ live' = live /\ keys' = keys
      /\ oom' = oom /\ phase' = phase /\ UNCHANGED <<opts, root>>
  BY DEF ValueCloses, At, Return, NoHeap, NoCall
<1>2. /\ Under \in Seq(Frame) /\ Top \in Frame /\ opts \in Options
      /\ OnFrame(ctx, Under, Top, ret, live, keys, oom)
  BY <1>1, InParse
<1>3. /\ opts.max_depth \in Nat /\ opts.max_steps \in Nat /\ MostOpen \in Nat
      /\ Held(Under) \in Nat /\ Cardinality(Keyed(Under)) \in Nat
      /\ Depth(Under) \in Nat
  BY <1>2, HeldNat, Limited
<1>4. /\ Weight(Top) = 0 /\ Key(Top) = 0 /\ Level(Top) = 1
  BY <1>1, <1>2, WeightNat DEF OnFrame, FrameRight, Key, Level
<1>5. /\ ret \in Result /\ ret.size \in Nat /\ ret.height \in Nat
      /\ ctx \in Context /\ ctx.steps \in Nat /\ ctx.depth \in Nat
      /\ oom \in BOOLEAN
  BY <1>2 DEF OnFrame, Result, Null, Node, Context
<1> DEFINE b == [ctx EXCEPT !.depth = @ - 1]
<1>6. ctx.depth = Depth(Under) + 1 BY <1>2, <1>4 DEF OnFrame
<1>7. b \in Context /\ b.depth = Depth(Under) /\ b.steps = ctx.steps
      /\ b.err = ctx.err
  BY <1>3, <1>5, <1>6 DEF Context
<1>8. ctx' = b \/ ctx' \in Advance(b) BY DEF ValueCloses
<1> HIDE DEF b
<1>9. ctx' = b \/ Moves(b, ctx') BY <1>2, <1>7, <1>8, AdvanceMoves
<1>10. Pc(Under) \in {"none", "item"} /\ Stack(Under)
  BY <1>1, <1>2 DEF OnFrame, Caller
<1>11. ctx' \in Context /\ ctx'.depth = Depth(Under)
       /\ (ctx'.err = "ok" => ctx.err = "ok")
       /\ (opts.max_steps > 0 => ctx'.steps \in ctx.steps .. ctx.steps + 1
                                 /\ (ctx'.err = "ok" => ctx'.steps <= opts.max_steps)
                                 /\ (ctx.err # "ok" => ctx'.err # "ok"))
  <2>1. opts.max_steps > 0 /\ ctx.err = "ok" => ctx.steps <= opts.max_steps
    BY <1>2 DEF OnFrame, Budget
  <2>2. CASE ctx' = b BY <1>3, <1>5, <1>7, <2>1, <2>2
  <2>3. CASE Moves(b, ctx')
    <3>1. CASE opts.max_steps = 0 BY <1>3, <1>7, <2>3, <3>1 DEF Moves
    <3>2. CASE opts.max_steps > 0
      <4>1. /\ ctx' \in Context /\ ctx'.depth = Depth(Under)
            /\ ctx'.steps = ctx.steps + 1
            /\ ctx'.err = IF ctx'.steps > opts.max_steps THEN "range" ELSE ctx.err
        BY <1>7, <2>3, <3>2 DEF Moves
      <4> QED BY <1>3, <1>5, <3>2, <4>1
    <3> QED BY <1>3, <3>1, <3>2
  <2> QED BY <1>9, <2>2, <2>3
<1>12. ASSUME opts.max_steps > 0 PROVE Budget(ctx', Pc(Under), ret)
  <2>1. Budget(ctx, "close", ret) BY <1>1, <1>2, <1>12 DEF OnFrame
  <2>2. ctx'.depth < ctx'.steps /\ ctx'.depth <= MostOpen
    BY <1>3, <1>5, <1>6, <1>11, <1>12, <2>1 DEF Budget
  <2>3. ASSUME ctx'.err # "ok"
        PROVE  ctx'.steps + ctx'.depth + Slack(Pc(Under), ret)
                 <= opts.max_steps + 3 + MostOpen
    <3>1. CASE ctx.err = "ok"
      <4>1. ctx.steps <= opts.max_steps /\ ctx.depth <= MostOpen
        BY <2>1, <3>1 DEF Budget
      <4>2. Slack(Pc(Under), ret) \in {0, 3} BY <1>10 DEF Slack
      <4> QED BY <1>3, <1>5, <1>6, <1>11, <1>12, <4>1, <4>2
    <3>2. CASE ctx.err # "ok"
      <4>1. /\ ctx.steps + ctx.depth + 0 <= opts.max_steps + 3 + MostOpen
            /\ ret = Null
        BY <2>1, <3>2 DEF Budget, Slack
      <4>2. Slack(Pc(Under), ret) = 0 BY <1>10, <4>1 DEF Slack
      <4> QED BY <1>3, <1>5, <1>6, <1>11, <1>12, <4>1, <4>2
    <3> QED BY <3>1, <3>2
  <2> QED BY <1>10, <1>11, <1>12, <2>2, <2>3 DEF Budget
<1>13. opts.max_depth > 0 => /\ Fits(Under, opts.max_depth)
                             /\ Low(Depth(Under), ret, Pc(Under))
  <2>1. opts.max_depth > 0 => /\ Fits(Under, opts.max_depth)
                              /\ Low(Depth(Under) + 1, ret, "close")
    BY <1>1, <1>2, <1>4 DEF OnFrame
  <2>2. Pc(Under) = "item" \/ Pc(Under) # "item" OBVIOUS
  <2> QED BY <1>3, <1>5, <2>1, <2>2 DEF Low
<1>14. live = ret.size + Held(Under) /\ keys = Cardinality(Keyed(Under))
  BY <1>2, <1>3, <1>4, <1>5 DEF OnFrame
<1>15. ctx'.err = "ok" /\ ~oom => ret # Null
  BY <1>1, <1>2, <1>11 DEF OnFrame, Answers, Waiting
<1>16. Parsing(ctx', Under, ret, live, keys, oom)
  BY <1>2, <1>5, <1>10, <1>11, <1>12, <1>13, <1>14, <1>15, Answered DEF Waiting
<1> QED BY <1>1, <1>16, ParseStep

(* A map or an array at work, and what it may rely on. *)
Container(pc) ==
    /\ phase = "parse" /\ opts \in Options
    /\ opts.max_depth \in Nat /\ opts.max_steps \in Nat /\ MostOpen \in Nat
    /\ Under \in Seq(Frame) /\ Stack(Under) /\ Pc(Under) \in {"none", "close"}
    /\ Held(Under) \in Nat /\ Depth(Under) \in Nat
    /\ Cardinality(Keyed(Under)) \in Nat
    /\ Top \in Frame /\ FrameRight(Top)
    /\ Top.fn \in {"map", "array"} /\ Top.pc = pc
    /\ \A f \in Frame : Goto(f) = Append(Under, f)
    /\ ctx \in Context /\ ctx.steps \in Nat /\ ctx.depth = Depth(Under)
    /\ ret \in Result /\ ret.size \in Nat /\ ret.height \in Nat
    /\ pc # "item" => ret = Null
    /\ oom \in BOOLEAN /\ live \in Nat /\ keys \in Nat
    /\ live = ret.size + Held(Under) + Weight(Top)
    /\ keys = Cardinality(Keyed(Under)) + Key(Top)
    /\ opts.max_depth > 0 =>
         /\ Fits(Under, opts.max_depth)
         /\ Depth(Under) <= opts.max_depth
         /\ Holds(Top) => Fit(Top.items, opts.max_depth - Depth(Under))
         /\ pc = "item" => ret.height <= opts.max_depth - Depth(Under)
    /\ opts.max_steps > 0 => Budget(ctx, pc, ret)

LEMMA ContainerAt ==
    ASSUME IInv, NEW pc \in {"create", "loop", "item", "exit"}, InContainer(pc)
    PROVE  Container(pc)
<1>1. phase = "parse" /\ stack # <<>> /\ Top.fn \in {"map", "array"} /\ Top.pc = pc
  BY DEF InContainer, At
<1>2. /\ Under \in Seq(Frame) /\ Top \in Frame /\ opts \in Options
      /\ OnFrame(ctx, Under, Top, ret, live, keys, oom)
      /\ \A f \in Frame : Goto(f) = Append(Under, f)
  BY <1>1, InParse
<1>3. /\ opts.max_depth \in Nat /\ opts.max_steps \in Nat /\ MostOpen \in Nat
      /\ Held(Under) \in Nat /\ Cardinality(Keyed(Under)) \in Nat
      /\ Depth(Under) \in Nat
  BY <1>2, HeldNat, Limited
<1>4. Level(Top) = 0 BY <1>1 DEF Level
<1>5. /\ ret \in Result /\ ret.size \in Nat /\ ret.height \in Nat
      /\ ctx \in Context /\ ctx.steps \in Nat /\ oom \in BOOLEAN
  BY <1>2 DEF OnFrame, Result, Null, Node, Context
<1>6. /\ Stack(Under) /\ FrameRight(Top) /\ Pc(Under) \in {"none", "close"}
      /\ pc # "item" => ret = Null
      /\ live = ret.size + Held(Under) + Weight(Top)
      /\ keys = Cardinality(Keyed(Under)) + Key(Top)
      /\ ctx.depth = Depth(Under)
  BY <1>1, <1>2, <1>3, <1>4 DEF OnFrame, Caller, Answers, Waiting
<1>7. opts.max_depth > 0 =>
         /\ Fits(Under, opts.max_depth)
         /\ Depth(Under) <= opts.max_depth
         /\ Holds(Top) => Fit(Top.items, opts.max_depth - Depth(Under))
         /\ pc = "item" => ret.height <= opts.max_depth - Depth(Under)
  BY <1>1, <1>2, <1>3, <1>4, <1>5 DEF OnFrame, Low
<1>8. opts.max_steps > 0 => Budget(ctx, pc, ret) BY <1>1, <1>2 DEF OnFrame
<1>9. live \in Nat /\ keys \in Nat BY DEF IInv, Typed
<1> QED BY <1>1, <1>2, <1>3, <1>5, <1>6, <1>7, <1>8, <1>9 DEF Container

(* The frame on top goes on, having taken its result. *)
LEMMA Goes ==
    ASSUME IInv, NEW pc \in {"create", "loop", "item"}, Container(pc),
           NEW f \in Frame, FrameRight(f), f.fn = Top.fn, f.pc \in {"loop", "exit"},
           opts.max_depth > 0 => Fit(f.items, opts.max_depth - Depth(Under)),
           stack' = Goto(f), ret' = Null, NoCall,
           ctx' \in Context, ctx'.depth = ctx.depth, oom' \in BOOLEAN,
           opts.max_steps > 0 => Budget(ctx', f.pc, Null),
           live' = Held(Under) + 1 + SumSizes(f.items),
           keys' = Cardinality(Keyed(Under))
    PROVE  IInv'
<1>1. stack' = Append(Under, f) /\ Under \in Seq(Frame) BY DEF Container
<1>2. Weight(f) = 1 + SumSizes(f.items) /\ Weight(f) \in Nat BY WeightNat
<1>3. SumSizes(f.items) \in Nat
  <2>1. f.items \in Seq(Node) /\ [size |-> 1, height |-> 1] \in Node
    BY DEF Frame, Node
  <2> QED BY <2>1, SizesOf
<1>4. Key(f) = 0 /\ Level(f) = 0 BY DEF FrameRight, Key, Level
<1>5. Null \in Result /\ Null.size = 0 /\ Null.height = 0 BY DEF Result, Null
<1>6. live' = Null.size + Held(Under) + Weight(f)
      /\ keys' = Cardinality(Keyed(Under)) + Key(f)
      /\ ctx'.depth = Depth(Under) + Level(f)
  <2>1. /\ Held(Under) \in Nat /\ Depth(Under) \in Nat
        /\ Cardinality(Keyed(Under)) \in Nat /\ ctx.depth = Depth(Under)
    BY DEF Container
  <2> QED BY <1>2, <1>3, <1>4, <1>5, <2>1
<1>7. opts.max_depth > 0 => /\ Fits(Under, opts.max_depth)
                            /\ Low(Depth(Under) + Level(f), Null, f.pc)
  BY <1>4, <1>5 DEF Container, Low
<1>8. Stack(Under) /\ Pc(Under) \in {"none", Caller(f)}
  BY DEF Container, Caller
<1>9. Answers(ctx', f.pc, Null, oom') BY DEF Answers, Waiting
<1>10. OnFrame(ctx', Under, f, Null, live', keys', oom')
  BY <1>5, <1>6, <1>7, <1>8, <1>9 DEF OnFrame
<1>11. Parsing(ctx', stack', ret', live', keys', oom') BY <1>1, <1>10, ParsingOn
<1> QED BY <1>11, ParseStep DEF Container, NoCall

LEMMA WeightOf ==
    ASSUME NEW pc \in {"create", "loop", "item", "exit"}, Container(pc)
    PROVE  /\ SumSizes(Top.items) \in Nat /\ Top.items \in Seq(Node)
           /\ pc # "create" => Weight(Top) = 1 + SumSizes(Top.items)
           /\ pc = "create" => Weight(Top) = 0 /\ SumSizes(Top.items) = 0
           /\ pc # "item" => Key(Top) = 0
           /\ Key(Top) = IF Top.key THEN 1 ELSE 0
<1>1. Top.items \in Seq(Node) /\ [size |-> 1, height |-> 1] \in Node
  BY DEF Container, Frame, Node
<1>2. SumSizes(Top.items) \in Nat /\ SumSizes(<<>>) = 0 BY <1>1, SizesOf
<1>3. Top \in Frame /\ Top.pc = pc /\ FrameRight(Top) BY DEF Container
<1> QED BY <1>1, <1>2, <1>3, WeightNat DEF FrameRight, Key

(* The loop of a container is left. *)
LEMMA Leaves ==
    ASSUME IInv, NEW pc \in {"loop", "item"}, Container(pc),
           Leave, NoCall, ret' = Null,
           ctx' \in Context, ctx'.depth = ctx.depth, oom' \in BOOLEAN,
           opts.max_steps > 0 => Budget(ctx', "exit", Null),
           live' = live - ret.size, keys' = keys - (IF Top.key THEN 1 ELSE 0)
    PROVE  IInv'
<1> DEFINE f == [Top EXCEPT !.pc = "exit", !.key = FALSE]
<1>1. /\ f \in Frame /\ FrameRight(f) /\ f.fn = Top.fn /\ f.pc = "exit"
      /\ f.items = Top.items
  BY DEF Container, Frame, FrameRight
<1>2. stack' = Goto(f) BY DEF Leave
<1> HIDE DEF f
<1>3. /\ SumSizes(Top.items) \in Nat /\ Weight(Top) = 1 + SumSizes(Top.items)
      /\ Key(Top) = IF Top.key THEN 1 ELSE 0
  BY WeightOf
<1>4. live' = Held(Under) + 1 + SumSizes(f.items)
  <2>1. /\ Held(Under) \in Nat /\ ret.size \in Nat
        /\ live = ret.size + Held(Under) + Weight(Top)
    BY DEF Container
  <2> QED BY <1>1, <1>3, <2>1
<1>5. keys' = Cardinality(Keyed(Under)) BY <1>3 DEF Container
<1>6. opts.max_depth > 0 => Fit(f.items, opts.max_depth - Depth(Under))
  BY <1>1 DEF Container, Holds
<1> QED BY <1>1, <1>2, <1>4, <1>5, <1>6, Goes

LEMMA LoopEndsStep == ASSUME IInv, LoopEnds PROVE IInv'
<1>1. Container("loop") BY ContainerAt DEF LoopEnds
<1>2. /\ Leave /\ NoCall /\ ctx' = ctx /\ ret' = ret /\ oom' = oom
      /\ live' = live /\ keys' = keys
  BY DEF LoopEnds, NoHeap
<1>3. ret = Null /\ ret.size = 0 /\ Top.key = FALSE
  BY <1>1, WeightOf DEF Container, FrameRight, Null, Frame
<1>4. opts.max_steps > 0 => Budget(ctx, "exit", Null)
  <2>1. opts.max_steps > 0 => Budget(ctx, "loop", Null) BY <1>1, <1>3 DEF Container
  <2>2. /\ ctx.steps \in Nat /\ ctx.depth \in Nat
        /\ opts.max_steps \in Nat /\ MostOpen \in Nat
    BY <1>1 DEF Container
  <2> QED BY <2>1, <2>2 DEF Budget, Slack
<1>5. live - ret.size = live /\ keys - 0 = keys BY <1>1, <1>3 DEF Container
<1>6. ctx \in Context /\ oom \in BOOLEAN BY <1>1 DEF Container
<1> QED BY <1>1, <1>2, <1>3, <1>4, <1>5, <1>6, Leaves

LEMMA ItemMissingStep == ASSUME IInv, ItemMissing PROVE IInv'
<1>1. Container("item") BY ContainerAt DEF ItemMissing
<1>2. /\ Leave /\ NoCall /\ ctx' = ctx /\ ret' = ret /\ oom' = oom /\ ret = Null
      /\ live' = live /\ keys' = keys - (IF Top.key THEN 1 ELSE 0)
  BY DEF ItemMissing
<1>3. opts.max_steps > 0 => Budget(ctx, "exit", Null)
  BY <1>1, <1>2 DEF Container, Budget, Slack
<1>4. live - ret.size = live BY <1>1, <1>2 DEF Container, Null
<1>5. ctx \in Context /\ oom \in BOOLEAN BY <1>1 DEF Container
<1> QED BY <1>1, <1>2, <1>3, <1>4, <1>5, Leaves

(* A pending or a new error leaves room for no more than before. *)
LEMMA SpentOnError ==
    ASSUME NEW pc, Container(pc), NEW c \in Context, c.err # "ok",
           c.depth = ctx.depth, c.steps = ctx.steps, opts.max_steps > 0,
           NEW pd, pd \in {"none", "close", "exit"}
    PROVE  Budget(c, pd, Null)
<1>1. Slack(pd, Null) = 0 /\ Slack(pc, ret) >= 0 BY DEF Slack
<1>2. Slack(pc, ret) \in Nat BY DEF Slack
<1>3. Budget(ctx, pc, ret) BY DEF Container
<1>4. /\ ctx.steps \in Nat /\ ctx.depth \in Nat
      /\ opts.max_steps \in Nat /\ MostOpen \in Nat
  BY DEF Container
<1>5. c.steps + c.depth <= opts.max_steps + 3 + MostOpen
  <2>1. \/ ctx.steps <= opts.max_steps /\ ctx.depth <= MostOpen
        \/ ctx.steps + ctx.depth + Slack(pc, ret) <= opts.max_steps + 3 + MostOpen
    BY <1>3 DEF Budget
  <2> QED BY <1>2, <1>4, <2>1
<1> QED BY <1>1, <1>3, <1>4, <1>5 DEF Budget

LEMMA MapNoKeyStep == ASSUME IInv, MapNoKey PROVE IInv'
<1>1. Container("loop") BY ContainerAt DEF MapNoKey, InContainer
<1>2. /\ Leave /\ NoCall /\ ctx' = Fails(ctx, "parse") /\ ret' = ret /\ oom' = oom
      /\ live' = live /\ keys' = keys
  BY DEF MapNoKey, NoHeap
<1>3. ret = Null /\ ret.size = 0 /\ Top.key = FALSE
  BY <1>1, WeightOf DEF Container, FrameRight, Null, Frame
<1>4. ctx \in Context /\ oom \in BOOLEAN /\ "parse" \in Error /\ "parse" # "ok"
  BY <1>1 DEF Container, Error
<1>5. /\ ctx' \in Context /\ ctx'.err # "ok"
      /\ ctx'.depth = ctx.depth /\ ctx'.steps = ctx.steps
  BY <1>2, <1>4, ErrorSet
<1>6. opts.max_steps > 0 => Budget(ctx', "exit", Null) BY <1>1, <1>5, SpentOnError
<1>7. live - ret.size = live /\ keys - 0 = keys BY <1>1, <1>3 DEF Container
<1> QED BY <1>1, <1>2, <1>3, <1>4, <1>5, <1>6, <1>7, Leaves

LEMMA ItemNotStoredStep == ASSUME IInv, ItemNotStored PROVE IInv'
<1>1. Container("item") BY ContainerAt DEF ItemNotStored
<1>2. /\ Leave /\ NoCall /\ ctx' = Fails(ctx, "nomem") /\ ret' = Null
      /\ oom' = (oom \/ TRUE) /\ live' = live - ret.size
      /\ keys' = keys - (IF Top.key THEN 1 ELSE 0)
  BY DEF ItemNotStored, Note
<1>3. ctx \in Context /\ oom' \in BOOLEAN /\ "nomem" \in Error /\ "nomem" # "ok"
  BY <1>1, <1>2 DEF Container, Error
<1>4. /\ ctx' \in Context /\ ctx'.err # "ok"
      /\ ctx'.depth = ctx.depth /\ ctx'.steps = ctx.steps
  BY <1>2, <1>3, ErrorSet
<1>5. opts.max_steps > 0 => Budget(ctx', "exit", Null) BY <1>1, <1>4, SpentOnError
<1> QED BY <1>1, <1>2, <1>3, <1>4, <1>5, Leaves

(* A container that answers: its tree, or nothing after an error. *)
LEMMA ContainerAnswers ==
    ASSUME IInv, NEW pc \in {"create", "exit"}, Container(pc),
           NEW r \in Result, Return(r), NoCall, ctx' \in Context,
           ctx'.depth = ctx.depth, ctx'.steps = ctx.steps, oom' \in BOOLEAN,
           IF r = Null THEN ctx'.err # "ok" ELSE ctx'.err = "ok" /\ ctx.err = "ok",
           opts.max_depth > 0 => r.height <= opts.max_depth - Depth(Under) + 1,
           live' = r.size + Held(Under), keys' = keys
    PROVE  IInv'
<1>1. stack' = Under /\ ret' = r /\ Under \in Seq(Frame) /\ opts \in Options
      /\ Stack(Under) /\ Pc(Under) \in {"none", "close"}
  BY DEF Return, Container
<1>2. keys' = Cardinality(Keyed(Under)) /\ ctx'.depth = Depth(Under)
  BY WeightOf DEF Container
<1>3. ASSUME opts.max_steps > 0 PROVE Budget(ctx', Pc(Under), r)
  <2>1. CASE r = Null BY <1>1, <1>3, <2>1, SpentOnError
  <2>2. CASE r # Null BY <1>3, <2>2 DEF Container, Budget
  <2> QED BY <2>1, <2>2
<1>4. ASSUME opts.max_depth > 0
      PROVE  Fits(Under, opts.max_depth) /\ Low(Depth(Under), r, Pc(Under))
  BY <1>1, <1>4 DEF Container, Low
<1>5. Parsing(ctx', Under, r, live', keys', oom')
  BY <1>1, <1>2, <1>3, <1>4, Answered DEF Waiting
<1> QED BY <1>1, <1>5, ParseStep DEF Container, NoCall

LEMMA NoteTyped ==
    ASSUME oom \in BOOLEAN, NEW ok \in BOOLEAN, Note(ok)
    PROVE  oom' \in BOOLEAN
  BY Zenon DEF Note

LEMMA ContainerCreateStep == ASSUME IInv, ContainerCreate PROVE IInv'
<1>1. Container("create") BY ContainerAt DEF ContainerCreate
<1>2. PICK ok \in BOOLEAN :
        /\ Note(ok)
        /\ IF ok THEN /\ stack' = Goto([Top EXCEPT !.pc = "loop"])
                      /\ UNCHANGED <<ctx, ret>>
                 ELSE Return(Null) /\ ctx' = Fails(ctx, "nomem")
        /\ live' = live + (IF ok THEN 1 ELSE 0)
  BY DEF ContainerCreate, Malloc
<1>3. keys' = keys /\ NoCall BY DEF ContainerCreate
<1>4. /\ ret = Null /\ Null \in Result /\ Null.size = 0 /\ Null.height = 0
      /\ ctx \in Context /\ oom \in BOOLEAN /\ live \in Nat
      /\ Held(Under) \in Nat /\ live = ret.size + Held(Under) + Weight(Top)
      /\ keys = Cardinality(Keyed(Under)) + Key(Top)
      /\ Cardinality(Keyed(Under)) \in Nat
  BY <1>1 DEF Container, Result, Null
<1>5. /\ Weight(Top) = 0 /\ SumSizes(Top.items) = 0 /\ Key(Top) = 0
  BY <1>1, WeightOf
<1>6. oom' \in BOOLEAN BY <1>2, <1>4, NoteTyped
<1>7. CASE ok
  <2> DEFINE f == [Top EXCEPT !.pc = "loop"]
  <2>1. /\ f \in Frame /\ FrameRight(f) /\ f.fn = Top.fn /\ f.pc = "loop"
        /\ f.items = Top.items /\ Top.items = <<>>
    BY <1>1 DEF Container, Frame, FrameRight
  <2>2. stack' = Goto(f) /\ ctx' = ctx /\ ret' = Null BY <1>2, <1>4, <1>7
  <2> HIDE DEF f
  <2>3. live' = Held(Under) + 1 + SumSizes(f.items)
    BY <1>2, <1>4, <1>5, <1>7, <2>1
  <2>4. keys' = Cardinality(Keyed(Under)) BY <1>3, <1>4, <1>5
  <2>5. opts.max_depth > 0 => Fit(f.items, opts.max_depth - Depth(Under))
    <3>1. DOMAIN f.items = {} BY <2>1
    <3> QED BY <3>1 DEF Fit
  <2>6. opts.max_steps > 0 => Budget(ctx, "loop", Null)
    BY <1>1, <1>4 DEF Container, Budget, Slack
  <2> QED BY <1>1, <1>3, <1>4, <1>6, <2>1, <2>2, <2>3, <2>4, <2>5, <2>6, Goes
<1>8. CASE ~ok
  <2>1. Return(Null) /\ ctx' = Fails(ctx, "nomem") /\ live' = live
    BY <1>2, <1>4, <1>8
  <2>2. "nomem" \in Error /\ "nomem" # "ok" BY DEF Error
  <2>3. /\ ctx' \in Context /\ ctx'.err # "ok"
        /\ ctx'.depth = ctx.depth /\ ctx'.steps = ctx.steps
    BY <1>4, <2>1, <2>2, ErrorSet
  <2>4. live' = Null.size + Held(Under) BY <1>4, <1>5, <2>1
  <2>5. opts.max_depth > 0 => Null.height <= opts.max_depth - Depth(Under) + 1
    BY <1>1, <1>4 DEF Container
  <2> QED BY <1>1, <1>3, <1>4, <1>6, <2>1, <2>3, <2>4, <2>5, ContainerAnswers
<1> QED BY <1>7, <1>8

LEMMA ContainerExitStep == ASSUME IInv, ContainerExit PROVE IInv'
<1>1. Container("exit") BY ContainerAt DEF ContainerExit
<1>2. /\ ret = Null /\ Null \in Result /\ Null.size = 0 /\ Null.height = 0
      /\ ctx \in Context /\ oom \in BOOLEAN /\ live \in Nat
      /\ Held(Under) \in Nat /\ live = ret.size + Held(Under) + Weight(Top)
      /\ Depth(Under) \in Nat /\ opts.max_depth \in Nat
  BY <1>1 DEF Container, Result, Null
<1>3. /\ SumSizes(Top.items) \in Nat /\ Weight(Top) = 1 + SumSizes(Top.items)
      /\ Top.items \in Seq(Node)
  BY <1>1, WeightOf
<1> DEFINE t == Tree(Top.items)
<1>4. /\ MaxHeight(Top.items) \in Nat
      /\ \A h \in Nat : Fit(Top.items, h) => MaxHeight(Top.items) <= h
  BY <1>3, MaxHeightIs
<1>5. /\ t.size = Weight(Top) /\ t.height = 1 + MaxHeight(Top.items)
      /\ t \in Node /\ t \in Result /\ t # Null
  BY <1>3, <1>4 DEF Tree, Node, Result, Null
<1>6. ctx' = ctx /\ keys' = keys /\ oom' = oom /\ NoCall
      /\ IF ctx.err = "ok" THEN Return(t) /\ live' = live
                           ELSE Return(Null) /\ live' = live - t.size
  BY DEF ContainerExit
<1> HIDE DEF t
<1>7. CASE ctx.err = "ok"
  <2>1. opts.max_depth > 0 => t.height <= opts.max_depth - Depth(Under) + 1
    <3>1. opts.max_depth > 0 => /\ Fit(Top.items, opts.max_depth - Depth(Under))
                                /\ opts.max_depth - Depth(Under) \in Nat
      BY <1>1, <1>2 DEF Container, Holds
    <3> QED BY <1>2, <1>4, <1>5, <3>1
  <2>2. live' = t.size + Held(Under) BY <1>2, <1>3, <1>5, <1>6, <1>7
  <2> QED BY <1>1, <1>2, <1>5, <1>6, <1>7, <2>1, <2>2, ContainerAnswers
<1>8. CASE ctx.err # "ok"
  <2>1. opts.max_depth > 0 => Null.height <= opts.max_depth - Depth(Under) + 1
    BY <1>1, <1>2 DEF Container
  <2>2. live' = Null.size + Held(Under) BY <1>2, <1>3, <1>5, <1>6, <1>8
  <2> QED BY <1>1, <1>2, <1>6, <1>8, <2>1, <2>2, ContainerAnswers
<1> QED BY <1>7, <1>8

(* A container calls for a value. *)
LEMMA Asks ==
    ASSUME IInv, Container("loop"), NEW key \in BOOLEAN,
           stack' = Goto([Top EXCEPT !.pc = "item", !.key = key]) \o <<ValueFrame>>,
           ret' = Null, NoCall, ctx' \in Context, ctx'.depth = ctx.depth,
           oom' \in BOOLEAN, opts.max_steps > 0 => Budget(ctx', "call", Null),
           live' = live, keys' = keys + (IF key THEN 1 ELSE 0)
    PROVE  IInv'
<1> DEFINE g == [Top EXCEPT !.pc = "item", !.key = key]
           h == ValueFrame
<1>1. /\ g \in Frame /\ FrameRight(g) /\ g.fn = Top.fn /\ g.pc = "item"
      /\ g.key = key /\ g.items = Top.items
  BY DEF Container, Frame, FrameRight
<1>2. h \in Frame /\ FrameRight(h) /\ h.fn = "value" /\ h.pc = "call"
  BY FreshFrames
<1>3. /\ Under \in Seq(Frame) /\ Stack(Under) /\ opts \in Options
      /\ \A f \in Frame : Goto(f) = Append(Under, f)
      /\ ret = Null /\ Null.size = 0
      /\ live \in Nat /\ Held(Under) \in Nat
      /\ live = ret.size + Held(Under) + Weight(Top)
      /\ keys = Cardinality(Keyed(Under)) + Key(Top)
      /\ Cardinality(Keyed(Under)) \in Nat
      /\ Depth(Under) \in Nat /\ ctx.depth = Depth(Under)
  BY DEF Container, Null
<1>4. stack' = Append(Append(Under, g), h)
  <2>1. Goto(g) = Append(Under, g) /\ Append(Under, g) \in Seq(Frame) BY <1>1, <1>3
  <2>2. stack' = Goto(g) \o <<h>> OBVIOUS
  <2> HIDE DEF g, h
  <2> QED BY <1>2, <2>1, <2>2, AppendIsConcat
<1> HIDE DEF g, h
<1>5. /\ SumSizes(Top.items) \in Nat /\ Weight(Top) = 1 + SumSizes(Top.items)
      /\ Key(Top) = 0
  BY WeightOf
<1>6. Weight(g) = Weight(Top) /\ Key(g) = (IF key THEN 1 ELSE 0) /\ Level(g) = 0
      /\ Holds(g)
  BY <1>1, <1>5, WeightNat DEF Key, Level, Holds
<1>7. live = Held(Under) + Weight(g) BY <1>3, <1>5, <1>6
<1>8. keys' = Cardinality(Keyed(Under)) + Key(g) BY <1>3, <1>5, <1>6
<1>9. ctx'.depth = Depth(Under) + Level(g) BY <1>3, <1>6
<1>10. opts.max_depth > 0 =>
         /\ Fits(Under, opts.max_depth)
         /\ Fit(g.items, opts.max_depth - Depth(Under))
         /\ Depth(Under) + Level(g) <= opts.max_depth
  BY <1>1, <1>3, <1>6 DEF Container, Holds
<1>11. Pc(Under) \in {"none", Caller(g)} /\ g.pc = Caller(h)
  BY <1>1, <1>2 DEF Container, Caller
<1>12. Parsing(ctx', Append(Append(Under, g), h), Null, live, keys', oom')
  BY <1>1, <1>2, <1>3, <1>7, <1>8, <1>9, <1>10, <1>11, Called
<1> QED BY <1>4, <1>12, ParseStep DEF Container, NoCall

LEMMA ArrayItemStep == ASSUME IInv, ArrayItem PROVE IInv'
<1>1. Container("loop") BY ContainerAt DEF ArrayItem, InContainer
<1>2. /\ stack' = Goto([Top EXCEPT !.pc = "item"]) \o <<ValueFrame>>
      /\ ctx' = ctx /\ ret' = ret /\ live' = live /\ keys' = keys /\ oom' = oom
      /\ NoCall
  BY DEF ArrayItem, NoHeap
<1>3. Top.key = FALSE BY <1>1 DEF Container, FrameRight, Frame
<1>4. [Top EXCEPT !.pc = "item"] = [Top EXCEPT !.pc = "item", !.key = FALSE]
  BY <1>1, <1>3 DEF Container, Frame
<1>5. ret = Null /\ ctx \in Context /\ oom \in BOOLEAN /\ keys + 0 = keys
  BY <1>1 DEF Container
<1>6. opts.max_steps > 0 => Budget(ctx, "call", Null)
  <2>1. opts.max_steps > 0 => Budget(ctx, "loop", Null) BY <1>1, <1>5 DEF Container
  <2>2. /\ ctx.steps \in Nat /\ ctx.depth \in Nat
        /\ opts.max_steps \in Nat /\ MostOpen \in Nat
    BY <1>1 DEF Container
  <2> QED BY <2>1, <2>2 DEF Budget, Slack
<1> QED BY <1>1, <1>2, <1>4, <1>5, <1>6, Asks

LEMMA MapKeyStep == ASSUME IInv, MapKey PROVE IInv'
<1>1. Container("loop") BY ContainerAt DEF MapKey, InContainer
<1>2. /\ ret = Null /\ ret.size = 0 /\ Top.key = FALSE /\ opts \in Options
      /\ opts.max_steps \in Nat /\ MostOpen \in Nat
      /\ ctx \in Context /\ ctx.steps \in Nat /\ ctx.depth \in Nat
      /\ oom \in BOOLEAN /\ live \in Nat /\ keys \in Nat
      /\ live - ret.size = live /\ keys - 0 = keys
  BY <1>1 DEF Container, FrameRight, Frame, Null
<1>3. opts.max_steps > 0 => Budget(ctx, "loop", Null) BY <1>1, <1>2 DEF Container
<1>4. ret' = ret /\ live' = live /\ NoCall BY DEF MapKey
<1>5. PICK ok \in BOOLEAN :
        /\ Note(ok)
        /\ \/ ~ok /\ ctx' = Fails(ctx, "nomem") /\ Leave /\ UNCHANGED keys
           \/ ok /\ \E c \in Advance(ctx) :
                \/ /\ c.cur.type # "colon"
                   /\ ctx' = Fails(c, "parse") /\ Leave /\ UNCHANGED keys
                \/ /\ c.cur.type = "colon"
                   /\ ctx' \in Advance(c)
                   /\ stack' = Goto([Top EXCEPT !.pc = "item", !.key = TRUE])
                               \o <<ValueFrame>>
                   /\ keys' = keys + 1
  BY DEF MapKey, Malloc
<1>6. oom' \in BOOLEAN BY <1>2, <1>5, NoteTyped
<1>7. "nomem" \in Error /\ "parse" \in Error BY DEF Error
<1>8. CASE ctx' = Fails(ctx, "nomem") /\ Leave /\ UNCHANGED keys
  <2>1. /\ ctx' \in Context /\ ctx'.err # "ok"
        /\ ctx'.depth = ctx.depth /\ ctx'.steps = ctx.steps
    BY <1>2, <1>7, <1>8, ErrorSet
  <2>2. opts.max_steps > 0 => Budget(ctx', "exit", Null) BY <1>1, <2>1, SpentOnError
  <2> QED BY <1>1, <1>2, <1>4, <1>6, <1>8, <2>1, <2>2, Leaves
<1>9. ASSUME NEW c \in Advance(ctx)
      PROVE  /\ Moves(ctx, c)
             /\ opts.max_steps > 0 =>
                  /\ c.depth < c.steps /\ c.depth <= MostOpen
                  /\ c.steps + c.depth + 1 <= opts.max_steps + 3 + MostOpen
                  /\ c.err = "ok" => c.steps <= opts.max_steps
  <2>1. Moves(ctx, c) BY <1>2, AdvanceMoves
  <2>2. ASSUME opts.max_steps > 0
        PROVE  /\ c.depth < c.steps /\ c.depth <= MostOpen
               /\ c.steps + c.depth + 1 <= opts.max_steps + 3 + MostOpen
               /\ c.err = "ok" => c.steps <= opts.max_steps
    <3>1. /\ c.depth = ctx.depth /\ c.steps = ctx.steps + 1
          /\ c.err = "ok" => c.steps <= opts.max_steps
      BY <1>2, <2>1, <2>2 DEF Moves
    <3>2. /\ ctx.depth < ctx.steps /\ ctx.depth <= MostOpen
          /\ \/ ctx.steps <= opts.max_steps
             \/ ctx.steps + ctx.depth + 2 <= opts.max_steps + 3 + MostOpen
      BY <1>3, <2>2 DEF Budget, Slack
    <3> QED BY <1>2, <3>1, <3>2
  <2> QED BY <2>1, <2>2
<1>10. ASSUME NEW c \in Advance(ctx), ctx' = Fails(c, "parse"), Leave, UNCHANGED keys
       PROVE  IInv'
  <2>1. c \in Context /\ c.depth = ctx.depth BY <1>9 DEF Moves
  <2>2. /\ ctx' \in Context /\ ctx'.err = "parse"
        /\ ctx'.depth = c.depth /\ ctx'.steps = c.steps
    BY <1>7, <1>10, <2>1, ErrorSet
  <2>3. c.steps \in Nat /\ c.depth \in Nat BY <2>1 DEF Context
  <2>4. opts.max_steps > 0 => Budget(ctx', "exit", Null)
    <3>1. ASSUME opts.max_steps > 0
          PROVE  /\ c.depth < c.steps /\ c.depth <= MostOpen
                 /\ c.steps + c.depth + 0 <= opts.max_steps + 3 + MostOpen
      BY <1>2, <1>9, <2>3, <3>1
    <3>2. Slack("exit", Null) = 0 BY DEF Slack
    <3> QED BY <2>2, <3>1, <3>2 DEF Budget
  <2>5. ctx'.depth = ctx.depth BY <2>1, <2>2
  <2> QED BY <1>1, <1>2, <1>4, <1>6, <1>10, <2>2, <2>4, <2>5, Leaves
<1>11. ASSUME NEW c \in Advance(ctx), ctx' \in Advance(c),
              stack' = Goto([Top EXCEPT !.pc = "item", !.key = TRUE]) \o <<ValueFrame>>,
              keys' = keys + 1
       PROVE  IInv'
  <2>1. c \in Context /\ c.depth = ctx.depth BY <1>9 DEF Moves
  <2>2. Moves(c, ctx') BY <1>2, <1>11, <2>1, AdvanceMoves
  <2>3. ctx' \in Context /\ ctx'.depth = ctx.depth BY <2>1, <2>2 DEF Moves
  <2>4. c.steps \in Nat /\ c.depth \in Nat BY <2>1 DEF Context
  <2>5. ASSUME opts.max_steps > 0 PROVE Budget(ctx', "call", Null)
    <3>1. /\ ctx'.depth = c.depth /\ ctx'.steps = c.steps + 1
          /\ ctx'.err = "ok" => ctx'.steps <= opts.max_steps
      BY <1>2, <2>2, <2>4, <2>5 DEF Moves
    <3>2. /\ c.depth < c.steps /\ c.depth <= MostOpen
          /\ c.steps + c.depth + 1 <= opts.max_steps + 3 + MostOpen
      BY <1>9, <2>5
    <3>3. /\ ctx'.steps + ctx'.depth + 0 <= opts.max_steps + 3 + MostOpen
          /\ ctx'.depth < ctx'.steps /\ ctx'.depth <= MostOpen
      BY <1>2, <2>4, <3>1, <3>2
    <3>4. Slack("call", Null) = 0 BY DEF Slack
    <3> QED BY <3>1, <3>3, <3>4 DEF Budget
  <2> QED BY <1>1, <1>2, <1>4, <1>6, <1>11, <2>3, <2>5, Asks
<1> QED BY <1>5, <1>8, <1>10, <1>11

LEMMA ItemStoredStep == ASSUME IInv, ItemStored PROVE IInv'
<1>1. Container("item") BY ContainerAt DEF ItemStored
<1>2. /\ opts \in Options /\ opts.max_steps \in Nat /\ MostOpen \in Nat
      /\ opts.max_depth \in Nat
      /\ Top \in Frame /\ FrameRight(Top)
      /\ ret \in Result /\ ret # Null
      /\ ctx \in Context /\ ctx.steps \in Nat /\ ctx.depth \in Nat
      /\ oom \in BOOLEAN /\ live \in Nat /\ keys \in Nat
      /\ Held(Under) \in Nat /\ Cardinality(Keyed(Under)) \in Nat
      /\ live = ret.size + Held(Under) + Weight(Top)
      /\ keys = Cardinality(Keyed(Under)) + Key(Top)
  BY <1>1 DEF Container, ItemStored
<1>3. ret \in Node /\ ret.size \in Nat /\ ret.height \in Nat BY <1>2 DEF Result, Node
<1>4. /\ Top.items \in Seq(Node) /\ SumSizes(Top.items) \in Nat
      /\ Weight(Top) = 1 + SumSizes(Top.items)
      /\ Key(Top) = IF Top.key THEN 1 ELSE 0
  BY <1>1, WeightOf
<1>5. PICK items :
        /\ items \in {Append(Top.items, ret)} \cup
                     {[Top.items EXCEPT ![i] = ret] : i \in DOMAIN Top.items}
        /\ live' = live - (SumSizes(Top.items) + ret.size - SumSizes(items))
        /\ LET frame == [Top EXCEPT !.items = items, !.key = FALSE]
           IN  \/ /\ ctx.cur.type = "comma"
                  /\ ctx' \in Advance(ctx)
                  /\ stack' = Goto([frame EXCEPT !.pc = "loop"])
               \/ /\ AtEnd
                  /\ UNCHANGED ctx
                  /\ stack' = Goto([frame EXCEPT !.pc = "loop"])
               \/ /\ ctx.cur.type # "comma" /\ ~AtEnd
                  /\ ctx' = Fails(ctx, "parse")
                  /\ stack' = Goto([frame EXCEPT !.pc = "exit"])
  BY DEF ItemStored
<1>6. keys' = keys - (IF Top.key THEN 1 ELSE 0) /\ ret' = Null /\ oom' = oom /\ NoCall
  BY DEF ItemStored
<1>7. items \in Seq(Node) /\ SumSizes(items) \in Nat
  <2>1. items \in Seq(Node)
    <3>1. CASE items = Append(Top.items, ret) BY <1>3, <1>4, <3>1
    <3>2. CASE \E i \in DOMAIN Top.items : items = [Top.items EXCEPT ![i] = ret]
      <4>1. PICK i \in DOMAIN Top.items : items = [Top.items EXCEPT ![i] = ret]
        BY <3>2
      <4>2. i \in 1 .. Len(Top.items) BY <1>4, <4>1
      <4> QED BY <1>3, <1>4, <4>1, <4>2, ExceptSeq
    <3> QED BY <1>5, <3>1, <3>2
  <2> QED BY <1>3, <2>1, SizesOf
<1>8. ASSUME opts.max_depth > 0
      PROVE  Fit(items, opts.max_depth - Depth(Under))
  <2> DEFINE h == opts.max_depth - Depth(Under)
  <2>1. Fit(Top.items, h) /\ ret.height <= h BY <1>1, <1>8 DEF Container, Holds
  <2> HIDE DEF h
  <2>2. CASE items = Append(Top.items, ret)
    <3>1. ASSUME NEW i \in DOMAIN items PROVE items[i].height <= h
      <4>1. CASE i \in DOMAIN Top.items
        <5>1. items[i] = Top.items[i] BY <1>4, <2>2, <4>1
        <5> QED BY <2>1, <4>1, <5>1 DEF Fit
      <4>2. CASE i \notin DOMAIN Top.items
        <5>1. items[i] = ret BY <1>4, <2>2, <4>2
        <5> QED BY <2>1, <5>1
      <4> QED BY <4>1, <4>2
    <3> QED BY <3>1 DEF Fit, h
  <2>3. CASE \E i \in DOMAIN Top.items : items = [Top.items EXCEPT ![i] = ret]
    <3>1. PICK k \in DOMAIN Top.items : items = [Top.items EXCEPT ![k] = ret]
      BY <2>3
    <3>2. ASSUME NEW i \in DOMAIN items PROVE items[i].height <= h
      <4>1. i \in DOMAIN Top.items BY <3>1
      <4>2. items[i] = Top.items[i] \/ items[i] = ret BY <3>1, <4>1
      <4> QED BY <2>1, <4>1, <4>2 DEF Fit
    <3> QED BY <3>2 DEF Fit, h
  <2> QED BY <1>5, <2>2, <2>3
<1>9. live' = Held(Under) + 1 + SumSizes(items)
  <2>1. live = ret.size + Held(Under) + (1 + SumSizes(Top.items)) BY <1>2, <1>4
  <2>2. live' = live - (SumSizes(Top.items) + ret.size - SumSizes(items)) BY <1>5
  <2>3. /\ ret.size \in Nat /\ Held(Under) \in Nat
        /\ SumSizes(Top.items) \in Nat /\ SumSizes(items) \in Nat
    BY <1>2, <1>3, <1>4, <1>7
  <2> QED BY <2>1, <2>2, <2>3
<1>10. keys' = Cardinality(Keyed(Under)) BY <1>2, <1>4, <1>6
<1> DEFINE frame(pc) == [Top EXCEPT !.items = items, !.key = FALSE, !.pc = pc]
<1>11. ASSUME NEW pc \in {"loop", "exit"}
       PROVE  /\ frame(pc) \in Frame /\ FrameRight(frame(pc))
              /\ frame(pc).fn = Top.fn /\ frame(pc).pc = pc
              /\ frame(pc).items = items
  <2>1. Top.fn \in {"map", "array"} BY <1>1 DEF Container
  <2> QED BY <1>2, <1>7, <2>1 DEF Frame, FrameRight
<1>12. /\ \A pc \in {"loop", "exit"} :
            [[Top EXCEPT !.items = items, !.key = FALSE] EXCEPT !.pc = pc] = frame(pc)
  BY <1>2 DEF Frame
<1>13. \/ ctx' \in Advance(ctx) /\ stack' = Goto(frame("loop"))
       \/ ctx' = ctx /\ stack' = Goto(frame("loop"))
       \/ ctx' = Fails(ctx, "parse") /\ stack' = Goto(frame("exit"))
  BY <1>5, <1>12
<1> HIDE DEF frame
<1>14. opts.max_steps > 0 =>
         /\ Budget(ctx, "item", ret)
         /\ ctx.depth < ctx.steps /\ ctx.depth <= MostOpen
         /\ \/ ctx.err = "ok" /\ ctx.steps <= opts.max_steps
            \/ /\ ctx.err # "ok"
               /\ ctx.steps + ctx.depth + 3 <= opts.max_steps + 3 + MostOpen
  BY <1>1, <1>2 DEF Container, Budget, Slack
<1>15. /\ ctx.steps \in Nat /\ ctx.depth \in Nat
       /\ opts.max_steps \in Nat /\ MostOpen \in Nat
       /\ Slack("loop", Null) = 2
  BY <1>2 DEF Slack
<1>16. opts.max_steps > 0 =>
         /\ ctx.depth < ctx.steps /\ ctx.depth <= MostOpen
         /\ ctx.steps + ctx.depth <= opts.max_steps + MostOpen
  BY <1>14, <1>15
<1>17. ASSUME NEW pc \in {"loop", "exit"}, stack' = Goto(frame(pc)),
              ctx' \in Context, ctx'.depth = ctx.depth,
              opts.max_steps > 0 => Budget(ctx', pc, Null)
       PROVE  IInv'
  BY <1>1, <1>2, <1>6, <1>8, <1>9, <1>10, <1>11, <1>17, Goes
<1>18. CASE ctx' \in Advance(ctx) /\ stack' = Goto(frame("loop"))
  <2>1. Moves(ctx, ctx') BY <1>2, <1>18, AdvanceMoves
  <2>2. ASSUME opts.max_steps > 0 PROVE Budget(ctx', "loop", Null)
    <3>1. /\ ctx'.depth = ctx.depth /\ ctx'.steps = ctx.steps + 1
          /\ ctx'.err = "ok" => ctx'.steps <= opts.max_steps
      BY <1>2, <2>1, <2>2 DEF Moves
    <3>2. /\ ctx'.steps + ctx'.depth + 2 <= opts.max_steps + 3 + MostOpen
          /\ ctx'.depth < ctx'.steps /\ ctx'.depth <= MostOpen
      BY <1>15, <1>16, <2>2, <3>1
    <3> QED BY <1>15, <3>1, <3>2 DEF Budget
  <2>3. ctx' \in Context /\ ctx'.depth = ctx.depth BY <2>1 DEF Moves
  <2> QED BY <1>17, <1>18, <2>2, <2>3
<1>19. CASE ctx' = ctx /\ stack' = Goto(frame("loop"))
  <2>1. ASSUME opts.max_steps > 0 PROVE Budget(ctx, "loop", Null)
    <3>1. ctx.steps + ctx.depth + 2 <= opts.max_steps + 3 + MostOpen
      BY <1>15, <1>16, <2>1
    <3> QED BY <1>14, <1>15, <2>1, <3>1 DEF Budget
  <2> QED BY <1>2, <1>17, <1>19, <2>1
<1>20. CASE ctx' = Fails(ctx, "parse") /\ stack' = Goto(frame("exit"))
  <2>1. "parse" \in Error /\ "parse" # "ok" BY DEF Error
  <2>2. /\ ctx' \in Context /\ ctx'.err # "ok"
        /\ ctx'.depth = ctx.depth /\ ctx'.steps = ctx.steps
    BY <1>2, <1>20, <2>1, ErrorSet
  <2>3. opts.max_steps > 0 => Budget(ctx', "exit", Null) BY <1>1, <2>2, SpentOnError
  <2> QED BY <1>17, <1>20, <2>2, <2>3
<1> QED BY <1>13, <1>18, <1>19, <1>20

-----------------------------------------------------------------------------
(* The call around the parse *)

LEMMA PrimedStarts ==
    ASSUME opts \in Options, NEW d \in Primed
    PROVE  /\ d \in Context /\ d.depth = 0 /\ d.err = "ok"
           /\ d.steps = IF opts.max_steps = 0 THEN 0 ELSE 1
<1> DEFINE zero(t) == [cur |-> t, nxt |-> t, left |-> MaxTokens, stuck |-> FALSE,
                       depth |-> 0, steps |-> 0, err |-> "ok", diag |-> "ok"]
           garbage == {zero([type |-> t, own |-> FALSE]) : t \in TokenType}
<1>1. PICK c \in UNION {Lex(g) : g \in garbage} : d \in Advance(c)
  BY Zenon DEF Primed
<1>2. PICK g \in garbage : c \in Lex(g) BY <1>1
<1>3. g \in Context /\ g.depth = 0 /\ g.steps = 0 /\ g.err = "ok"
  <2>1. PICK t \in TokenType : g = zero([type |-> t, own |-> FALSE]) BY <1>2
  <2>2. [type |-> t, own |-> FALSE] \in Token BY DEF Token
  <2>3. MaxTokens \in 0 .. MaxTokens BY BoundAssumption
  <2> QED BY <2>1, <2>2, <2>3 DEF Context, Error
<1> HIDE DEF garbage, zero
<1>4. c \in Context /\ c.depth = 0 /\ c.steps = 0 /\ c.err = "ok"
  BY <1>2, <1>3, LexReads DEF Reads
<1>5. Moves(c, d) BY <1>1, <1>4, AdvanceMoves
<1>6. opts.max_steps \in Nat BY Limited
<1> QED BY <1>4, <1>5, <1>6 DEF Moves

LEMMA Initially == Init => IInv
<1> SUFFICES ASSUME Init PROVE IInv OBVIOUS
<1>1. Null \in Result BY DEF Result
<1>2. [type |-> "eof", own |-> FALSE] \in Token BY DEF Token, TokenType
<1>3. MaxTokens \in 0 .. MaxTokens BY BoundAssumption
<1>4. ctx \in Context BY <1>2, <1>3 DEF Init, Context, Error
<1>5. Typed BY <1>1, <1>4 DEF Init, Typed
<1>6. Before BY DEF Init, Before
<1>7. During /\ After BY DEF Init, During, After
<1> QED BY <1>5, <1>6, <1>7 DEF IInv

LEMMA ParserInitStep == ASSUME IInv, ParserInit PROVE IInv'
<1>1. /\ phase = "init" /\ phase' = "document" /\ ctx' \in Primed
      /\ UNCHANGED <<opts, stack, ret, root, live, keys, oom>>
  BY DEF ParserInit, NoHeap
<1>2. /\ ctx' \in Context /\ ctx'.depth = 0 /\ ctx'.err = "ok"
      /\ ctx'.steps = IF opts.max_steps = 0 THEN 0 ELSE 1
  BY <1>1, PrimedStarts DEF IInv, Typed
<1>3. Typed' BY <1>1, <1>2 DEF IInv, Typed
<1>4. Before' BY <1>1, <1>2 DEF IInv, Before
<1> QED BY <1>1, <1>3, <1>4 DEF IInv, During, After

(* What the parse starts from. *)
LEMMA AtDocument ==
    ASSUME IInv, phase = "document"
    PROVE  /\ opts \in Options /\ opts.max_depth \in Nat /\ opts.max_steps \in Nat
           /\ MostOpen \in Nat /\ ctx \in Context
           /\ stack = <<>> /\ ret = Null /\ root = Null
           /\ live = 0 /\ keys = 0 /\ oom = FALSE
           /\ ctx.depth = 0 /\ ctx.err = "ok"
           /\ ctx.steps = IF opts.max_steps = 0 THEN 0 ELSE 1
  BY Limited DEF IInv, Typed, Before

LEMMA DocumentTooBigStep == ASSUME IInv, DocumentTooBig PROVE IInv'
<1>1. /\ phase = "document" /\ phase' = "done" /\ ctx' = Records(ctx, "range")
      /\ UNCHANGED <<opts, stack, ret, root, live, keys, oom>>
  BY DEF DocumentTooBig, NoHeap
<1>2. /\ opts \in Options /\ opts.max_depth \in Nat /\ opts.max_steps \in Nat
      /\ MostOpen \in Nat /\ ctx \in Context
      /\ stack = <<>> /\ ret = Null /\ root = Null
      /\ live = 0 /\ keys = 0 /\ oom = FALSE
      /\ ctx.depth = 0 /\ ctx.err = "ok"
      /\ ctx.steps = IF opts.max_steps = 0 THEN 0 ELSE 1
  BY <1>1, AtDocument
<1>3. "range" \in Error /\ "range" # "ok" BY DEF Error
<1>4. /\ ctx' \in Context /\ ctx'.err # "ok" /\ ctx'.depth = 0
      /\ ctx'.steps = IF opts.max_steps = 0 THEN 0 ELSE 1
  BY <1>1, <1>2, <1>3, ErrorSet
<1>5. Typed' BY <1>1, <1>2, <1>4 DEF IInv, Typed
<1>6. NothingLeft' BY <1>1, <1>2 DEF NothingLeft, Null
<1>7. HeightBounded' BY <1>1, <1>2 DEF HeightBounded, Null
<1>8. StepsBounded'
  <2>1. MostOpen' = MostOpen BY <1>1 DEF MostOpen
  <2> QED BY <1>1, <1>2, <1>4, <2>1 DEF StepsBounded
<1>9. NullHasError' BY <1>4 DEF NullHasError
<1>10. After' BY <1>1, <1>2, <1>4, <1>6, <1>7, <1>8, <1>9 DEF After
<1> QED BY <1>1, <1>5, <1>10 DEF IInv, Before, During

LEMMA DocumentRootStep == ASSUME IInv, DocumentRoot PROVE IInv'
<1>1. /\ phase = "document" /\ phase' = "parse"
      /\ UNCHANGED <<opts, ctx, ret, root, live, keys, oom>>
  BY DEF DocumentRoot, NoHeap
<1>2. /\ opts \in Options /\ opts.max_depth \in Nat /\ opts.max_steps \in Nat
      /\ MostOpen \in Nat /\ ctx \in Context
      /\ stack = <<>> /\ ret = Null /\ root = Null
      /\ live = 0 /\ keys = 0 /\ oom = FALSE
      /\ ctx.depth = 0 /\ ctx.err = "ok"
      /\ ctx.steps = IF opts.max_steps = 0 THEN 0 ELSE 1
  BY <1>1, AtDocument
<1>3. PICK f \in {ValueFrame, ContainerFrame("map")} : stack' = <<f>>
  BY DEF DocumentRoot
<1>4. f \in Frame /\ FrameRight(f) /\ f.pc \in {"call", "create"} /\ ~f.key
  BY FreshFrames
<1>5. <<f>> = Append(<<>>, f) /\ <<>> \in Seq(Frame) OBVIOUS
<1>6. Weight(f) = 0 /\ Key(f) = 0 /\ Level(f) = 0 /\ ~Holds(f)
  BY <1>4, WeightNat DEF Key, Level, Holds
<1>7. Null \in Result /\ Null.size = 0 /\ Null.height = 0 BY DEF Result, Null
<1>8. /\ Stack(<<>>) /\ Pc(<<>>) \in {"none", Caller(f)}
      /\ Null.size + Held(<<>>) + Weight(f) = 0
      /\ Cardinality(Keyed(<<>>)) + Key(f) = 0
      /\ Depth(<<>>) + Level(f) = 0
  BY <1>6, <1>7, EmptyStack
<1>9. opts.max_depth > 0 => /\ Fits(<<>>, opts.max_depth)
                            /\ Low(0, Null, f.pc)
  BY <1>2, <1>7, EmptyStack DEF Low
<1>10. opts.max_steps > 0 => Budget(ctx, f.pc, Null) BY <1>2 DEF Budget
<1>11. Answers(ctx, f.pc, Null, FALSE) BY <1>4 DEF Answers, Waiting
<1>12. OnFrame(ctx, <<>>, f, Null, 0, 0, FALSE)
  BY <1>2, <1>4, <1>6, <1>7, <1>8, <1>9, <1>10, <1>11 DEF OnFrame
<1>13. Parsing(ctx, Append(<<>>, f), Null, 0, 0, FALSE)
  BY <1>4, <1>5, <1>12, ParsingOn
<1> QED BY <1>1, <1>2, <1>3, <1>5, <1>13, ParseStep

LEMMA DocumentDoneStep == ASSUME IInv, DocumentDone PROVE IInv'
<1>1. /\ phase = "parse" /\ stack = <<>> /\ phase' = "done"
      /\ root' = (IF ctx.err = "ok" THEN ret ELSE Null)
      /\ live' = (IF ctx.err = "ok" THEN live ELSE live - ret.size)
      /\ UNCHANGED <<opts, ctx, stack, ret, keys, oom>>
  BY DEF DocumentDone
<1>2. Parsing(ctx, <<>>, ret, live, keys, oom) BY <1>1 DEF IInv, During
<1>3. /\ opts \in Options /\ opts.max_depth \in Nat /\ opts.max_steps \in Nat
      /\ MostOpen \in Nat
  BY Limited DEF IInv, Typed
<1>4. /\ Null \in Result /\ Null.size = 0 /\ Null.height = 0
      /\ ret \in Result /\ ret.size \in Nat /\ ret.height \in Nat
      /\ ctx \in Context /\ ctx.steps \in Nat /\ oom \in BOOLEAN
  BY <1>2 DEF Parsing, Result, Null, Node, Context
<1>5. live = ret.size /\ keys = 0 /\ ctx.depth = 0
  BY <1>2, <1>4, EmptyStack DEF Parsing
<1>6. Typed' BY <1>1, <1>4, <1>5 DEF IInv, Typed
<1>7. NothingLeft' BY <1>1, <1>4, <1>5 DEF NothingLeft
<1>8. HeightBounded'
  <2>1. opts.max_depth > 0 => Low(0, ret, "none") BY <1>2, EmptyStack DEF Parsing
  <2>2. opts.max_depth > 0 => ret.height <= opts.max_depth + 1
    BY <1>3, <1>4, <2>1 DEF Low
  <2> QED BY <1>1, <1>3, <1>4, <2>2 DEF HeightBounded
<1>9. StepsBounded'
  <2>1. MostOpen' = MostOpen BY <1>1 DEF MostOpen
  <2>2. opts.max_steps > 0 => Budget(ctx, "none", ret) BY <1>2, EmptyStack DEF Parsing
  <2>3. Slack("none", ret) = 0 BY DEF Slack
  <2>4. opts.max_steps > 0 => ctx.steps <= opts.max_steps + 3 + MostOpen
    BY <1>3, <1>4, <1>5, <2>2, <2>3 DEF Budget
  <2> QED BY <1>1, <2>1, <2>4 DEF StepsBounded
<1>10. NullHasError'
  <2>1. ctx.err = "ok" /\ ~oom => ret # Null
    BY <1>2, EmptyStack DEF Parsing, Answers, Waiting
  <2> QED BY <1>1, <1>4, <2>1 DEF NullHasError
<1>11. After' BY <1>1, <1>5, <1>7, <1>8, <1>9, <1>10 DEF After
<1> QED BY <1>1, <1>6, <1>11 DEF IInv, Before, During

LEMMA Unchanged == ASSUME IInv, UNCHANGED vars PROVE IInv'
<1>1. UNCHANGED <<opts, ctx, stack, ret, live, keys, oom, phase, root>> BY DEF vars
<1>2. Parsing(ctx, stack, ret, live, keys, oom)' = Parsing(ctx, stack, ret, live, keys, oom)
  BY <1>1 DEF Parsing, Low, Budget, MostOpen
<1>3. During' BY <1>1, <1>2 DEF IInv, During
<1>4. Typed' /\ Before' BY <1>1 DEF IInv, Typed, Before
<1>5. After'
  BY <1>1 DEF IInv, After, NothingLeft, HeightBounded, StepsBounded, MostOpen,
              NullHasError
<1> QED BY <1>3, <1>4, <1>5 DEF IInv

LEMMA Inductive == IInv /\ [Next]_vars => IInv'
<1> SUFFICES ASSUME IInv, [Next]_vars PROVE IInv' OBVIOUS
<1>1. CASE ParserInit BY <1>1, ParserInitStep
<1>2. CASE DocumentTooBig BY <1>2, DocumentTooBigStep
<1>3. CASE DocumentRoot BY <1>3, DocumentRootStep
<1>4. CASE DocumentDone BY <1>4, DocumentDoneStep
<1>5. CASE ValueRefused BY <1>5, ValueRefusedStep
<1>6. CASE ValueScalar BY <1>6, ValueScalarStep
<1>7. CASE ValueString BY <1>7, ValueStringStep
<1>8. CASE ValueOpens BY <1>8, ValueOpensStep
<1>9. CASE ValueCloses BY <1>9, ValueClosesStep
<1>10. CASE ValueUnexpected BY <1>10, ValueUnexpectedStep
<1>11. CASE ContainerCreate BY <1>11, ContainerCreateStep
<1>12. CASE LoopEnds BY <1>12, LoopEndsStep
<1>13. CASE ArrayItem BY <1>13, ArrayItemStep
<1>14. CASE MapKey BY <1>14, MapKeyStep
<1>15. CASE MapNoKey BY <1>15, MapNoKeyStep
<1>16. CASE ItemMissing BY <1>16, ItemMissingStep
<1>17. CASE ItemStored BY <1>17, ItemStoredStep
<1>18. CASE ItemNotStored BY <1>18, ItemNotStoredStep
<1>19. CASE ContainerExit BY <1>19, ContainerExitStep
<1>20. CASE Done BY <1>20, Unchanged DEF Done
<1>21. CASE UNCHANGED vars BY <1>21, Unchanged
<1> QED BY <1>1, <1>2, <1>3, <1>4, <1>5, <1>6, <1>7, <1>8, <1>9, <1>10, <1>11,
           <1>12, <1>13, <1>14, <1>15, <1>16, <1>17, <1>18, <1>19, <1>20, <1>21
        DEF Next

LEMMA Invariance == Spec => []IInv
  BY Initially, Inductive, PTL DEF Spec

-----------------------------------------------------------------------------
(* Theorems *)

(* What the properties say of a call that parses. *)
LEMMA ParsingSays ==
    ASSUME opts \in Options, phase = "parse",
           Parsing(ctx, stack, ret, live, keys, oom)
    PROVE  OwnershipExact /\ DepthExact /\ StepsBounded /\ stack \in Seq(Frame)
<1>1. /\ opts.max_depth \in Nat /\ opts.max_steps \in Nat /\ MostOpen \in Nat
  BY Limited
<1>2. stack \in Seq(Frame) /\ ctx \in Context /\ ctx.depth \in Nat /\ ctx.steps \in Nat
  BY DEF Parsing, Stack, Context
<1>3. OwnershipExact
  BY DEF Parsing, OwnershipExact, Owned, Held, Weights, Keyed
<1>4. ctx.depth = Cardinality(Opened) BY DEF Parsing, Depth, Open, Opened
<1>5. opts.max_depth > 0 => ctx.depth <= opts.max_depth BY DEF Parsing, Low
<1>6. ASSUME opts.max_steps > 0
      PROVE  ctx.steps <= opts.max_steps + 3 + MostOpen
  <2>1. Slack(Pc(stack), ret) \in Nat BY DEF Slack
  <2>2. Budget(ctx, Pc(stack), ret) BY <1>6 DEF Parsing
  <2>3. CASE ctx.err = "ok" BY <1>1, <1>2, <2>2, <2>3 DEF Budget
  <2>4. CASE ctx.err # "ok"
    <3>1. ctx.steps + ctx.depth + Slack(Pc(stack), ret)
            <= opts.max_steps + 3 + MostOpen
      BY <2>2, <2>4 DEF Budget
    <3> QED BY <1>1, <1>2, <2>1, <3>1
  <2> QED BY <2>3, <2>4
<1>7. DepthExact BY <1>4, <1>5 DEF DepthExact
<1> QED BY <1>2, <1>3, <1>6, <1>7 DEF StepsBounded

LEMMA Says ==
    ASSUME IInv
    PROVE  /\ TypeOK /\ OwnershipExact /\ NothingLeft /\ DepthExact
           /\ HeightBounded /\ StepsBounded /\ NullHasError
<1>1. opts \in Options /\ phase \in {"init", "document", "parse", "done"}
  BY DEF IInv, Typed
<1>2. opts.max_depth \in Nat /\ opts.max_steps \in Nat /\ MostOpen \in Nat
  BY <1>1, Limited
<1>3. CASE phase = "parse"
  <2>1. OwnershipExact /\ DepthExact /\ StepsBounded /\ stack \in Seq(Frame)
    BY <1>1, <1>3, ParsingSays DEF IInv, During
  <2>2. ASSUME NEW i \in DOMAIN stack
        PROVE  /\ stack[i].fn \in {"value", "map", "array"}
               /\ stack[i].pc \in {"call", "close", "create", "loop", "item", "exit"}
               /\ stack[i].close \in Closers \cup {"eof"}
               /\ stack[i].key \in BOOLEAN
    <3>1. stack[i] \in Frame BY <2>1
    <3> QED BY <3>1 DEF Frame
  <2>3. TypeOK BY <2>2 DEF TypeOK, IInv, Typed, Context
  <2> QED BY <1>3, <2>1, <2>3 DEF NothingLeft, HeightBounded, NullHasError
<1>4. CASE phase # "parse"
  <2>1. stack = <<>> /\ ctx.depth = 0 BY <1>1, <1>4 DEF IInv, Before, After
  <2>2. TypeOK BY <2>1 DEF TypeOK, IInv, Typed, Context
  <2>3. OwnershipExact /\ DepthExact
    BY <1>2, <1>4, <2>1 DEF OwnershipExact, DepthExact
  <2>4. NothingLeft /\ HeightBounded /\ NullHasError
    BY DEF IInv, After, NothingLeft, HeightBounded, NullHasError
  <2>5. StepsBounded
    <3>1. CASE phase = "done" BY <3>1 DEF IInv, After
    <3>2. CASE phase # "done"
      <4>1. ctx.steps \in {0, 1} BY <1>1, <1>4, <3>2 DEF IInv, Before
      <4> QED BY <1>2, <4>1 DEF StepsBounded
    <3> QED BY <3>1, <3>2
  <2> QED BY <2>2, <2>3, <2>4, <2>5
<1> QED BY <1>3, <1>4

(* The state of a call is what it should be (cco_parser_context_t, the     *)
(* locals of parse_value, parse_map and parse_array).                      *)
THEOREM Typing == Spec => []TypeOK
  BY Invariance, Says, PTL

(* No path of the descent loses an object or a key buffer, or gives one up *)
(* twice: parser.c's early returns, failed allocations, replaced entries.  *)
THEOREM Ownership == Spec => []OwnershipExact
  BY Invariance, Says, PTL

(* When cco_parse_document returns, only the tree it returns is allocated. *)
THEOREM NothingIsLeft == Spec => []NothingLeft
  BY Invariance, Says, PTL

(* parse_value's depth counter is the number of open brackets, for any     *)
(* document and any limit.                                                 *)
THEOREM DepthIsExact == Spec => []DepthExact
  BY Invariance, Says, PTL

(* A tree that is returned is no higher than max_depth allows. *)
THEOREM HeightIsBounded == Spec => []HeightBounded
  BY Invariance, Says, PTL

(* max_steps bounds the tokens that are taken, with what may still be      *)
(* taken once it is spent.                                                 *)
THEOREM StepsAreBounded == Spec => []StepsBounded
  BY Invariance, Says, PTL

(* A NULL from the parser has an error in its context. *)
THEOREM NullIsExplained == Spec => []NullHasError
  BY Invariance, Says, PTL

(* advance_token keeps an error. *)
LEMMA AdvanceKeeps ==
    ASSUME opts \in Options, NEW c \in Context, NEW d \in Advance(c)
    PROVE  /\ d \in Context /\ d.depth = c.depth
           /\ c.err # "ok" => d.err # "ok"
<1>1. Moves(c, d) BY AdvanceMoves
<1>2. opts.max_steps \in Nat BY Limited
<1> QED BY <1>1, <1>2 DEF Moves

LEMMA ErrorKept ==
    ASSUME IInv, Next, ctx.err # "ok"
    PROVE  ctx'.err # "ok" /\ ctx'.depth <= ctx.depth
<1>1. /\ opts \in Options /\ ctx \in Context /\ ctx.depth \in Nat
      /\ phase \in {"parse", "done"}
  BY DEF IInv, Typed, Before, Context
<1>2. {"parse", "nomem", "range"} \subseteq Error \ {"ok"} BY DEF Error
<1>3. ASSUME NEW c \in Context, NEW e \in {"parse", "nomem", "range"},
             c.depth = ctx.depth, ctx' = Fails(c, e)
      PROVE  ctx'.err # "ok" /\ ctx'.depth <= ctx.depth
  <2>1. e \in Error /\ e # "ok" BY <1>2
  <2> QED BY <1>1, <1>3, <2>1, ErrorSet
<1>4. ASSUME NEW c \in Context, c.err # "ok", c.depth <= ctx.depth, c.depth \in Nat,
             ctx' \in Advance(c) \cup {c}
      PROVE  ctx'.err # "ok" /\ ctx'.depth <= ctx.depth
  BY <1>1, <1>4, AdvanceKeeps
<1>5. CASE ParserInit \/ DocumentTooBig \/ DocumentRoot
  BY <1>1, <1>5 DEF ParserInit, DocumentTooBig, DocumentRoot
<1>6. CASE DocumentDone \/ LoopEnds \/ ArrayItem \/ ItemMissing \/ ContainerExit \/ Done
  <2>1. ctx' = ctx
    BY <1>6 DEF DocumentDone, LoopEnds, ArrayItem, ItemMissing, ContainerExit, Done, vars
  <2> QED BY <1>1, <2>1
<1>7. CASE ValueRefused
  <2>1. ctx' = ctx BY <1>7 DEF ValueRefused
  <2> QED BY <1>1, <2>1
<1>8. CASE ValueScalar \/ ValueString \/ ValueOpens \/ ValueUnexpected
  BY <1>8 DEF ValueScalar, ValueString, ValueOpens, ValueUnexpected, Enters
<1>9. CASE ValueCloses
  <2> DEFINE b == [ctx EXCEPT !.depth = @ - 1]
  <2>1. ctx.depth # 0
    <3>1. phase = "parse" /\ stack # <<>> /\ Top.fn = "value" /\ Top.pc = "close"
      BY <1>9 DEF ValueCloses, At
    <3>2. OnFrame(ctx, Under, Top, ret, live, keys, oom) /\ Under \in Seq(Frame)
      BY <3>1, InParse
    <3>3. Depth(Under) \in Nat /\ Level(Top) = 1 BY <3>1, <3>2, HeldNat DEF Level
    <3>4. ctx.depth = Depth(Under) + Level(Top) BY <3>2 DEF OnFrame
    <3> QED BY <3>3, <3>4
  <2>2. b \in Context /\ b.err # "ok" /\ b.depth <= ctx.depth /\ b.depth \in Nat
    BY <1>1, <2>1 DEF Context
  <2>3. ctx' \in Advance(b) \cup {b} BY <1>9 DEF ValueCloses
  <2> HIDE DEF b
  <2> QED BY <1>4, <2>2, <2>3
<1>10. CASE ContainerCreate
  <2>1. ctx' = ctx \/ ctx' = Fails(ctx, "nomem") BY <1>10 DEF ContainerCreate
  <2> QED BY <1>1, <1>3, <2>1
<1>11. CASE MapKey
  <2>1. \/ ctx' = Fails(ctx, "nomem")
        \/ \E c \in Advance(ctx) : ctx' = Fails(c, "parse") \/ ctx' \in Advance(c)
    BY <1>11 DEF MapKey
  <2>2. ASSUME NEW c \in Advance(ctx), ctx' = Fails(c, "parse") \/ ctx' \in Advance(c)
        PROVE  ctx'.err # "ok" /\ ctx'.depth <= ctx.depth
    <3>1. c \in Context /\ c.depth = ctx.depth /\ c.err # "ok"
      BY <1>1, AdvanceKeeps
    <3>2. CASE ctx' = Fails(c, "parse") BY <1>3, <3>1, <3>2
    <3>3. CASE ctx' \in Advance(c) BY <1>1, <1>4, <3>1, <3>3
    <3> QED BY <2>2, <3>2, <3>3
  <2> QED BY <1>1, <1>3, <2>1, <2>2
<1>12. CASE MapNoKey BY <1>1, <1>3, <1>12 DEF MapNoKey
<1>13. CASE ItemStored
  <2>1. ctx' \in Advance(ctx) \cup {ctx} \/ ctx' = Fails(ctx, "parse")
    BY <1>13 DEF ItemStored
  <2> QED BY <1>1, <1>3, <1>4, <2>1
<1>14. CASE ItemNotStored BY <1>1, <1>3, <1>14 DEF ItemNotStored
<1> QED BY <1>5, <1>6, <1>7, <1>8, <1>9, <1>10, <1>11, <1>12, <1>13, <1>14 DEF Next

(* Once an error is set it stays, and no bracket is entered any more:      *)
(* parse_value looks at the pending error before anything else.            *)
THEOREM ErrorsAreFinal == Spec => ErrorIsFinal
<1>1. IInv /\ [Next]_vars
        => [ctx.err # "ok" => ctx'.err # "ok" /\ ctx'.depth <= ctx.depth]_vars
  BY ErrorKept
<1> QED BY <1>1, Invariance, PTL DEF Spec, ErrorIsFinal
=============================================================================
