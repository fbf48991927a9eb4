------------------------------ MODULE CcoParser ------------------------------
(***************************************************************************)
(* One call of cco_parse_string (internal/cco.c) as far as the parser goes *)
(* (internal/parser.c): the recursive descent with its frames made         *)
(* explicit, one token of lookahead, the limits on depth and steps, the    *)
(* objects and key buffers every frame owns, and what is left of all that  *)
(* when the call returns.                                                  *)
(*                                                                         *)
(* The document is chosen token by token, as the lexer is asked for it.    *)
(* What the lexer does that the parser can feel is kept: a token it cannot *)
(* read leaves the type of the token it was to fill, decoded strings share *)
(* one scratch buffer, and a '$' is an empty identifier that is never      *)
(* consumed.  Texts, positions and values are left out.                    *)
(***************************************************************************)
EXTENDS Integers, Sequences, FiniteSets

CONSTANTS
    MaxTokens,     \* bound on the tokens of a document before its end
    Options,       \* the cco_parse_options_t a caller may pass
    MallocFails    \* whether an allocation may fail

(* A limit of 0 is no limit.  tooBig: src_len is over max_document_size.   *)
ASSUME OptionsAssumption ==
    \A o \in Options : /\ o.max_depth \in Nat /\ o.max_steps \in Nat
                       /\ o.lenient \in BOOLEAN /\ o.tooBig \in BOOLEAN
ASSUME BoundAssumption == MaxTokens \in Nat \ {0} /\ MallocFails \in BOOLEAN

VARIABLES
    opts,     \* the options of this call
    ctx,      \* cco_parser_context_t, with the lexer's state
    stack,    \* frames of parse_value, parse_map and parse_array, last on top
    ret,      \* what the function that returned last returned
    live,     \* objects allocated and not freed
    keys,     \* key buffers of parse_map allocated and not freed
    oom,      \* an allocation has failed
    phase,    \* of cco_parse_string: "init", "document", "parse", "done"
    root      \* its result

vars == <<opts, ctx, stack, ret, live, keys, oom, phase, root>>

TokenType == {"eof", "lparen", "rparen", "lbrace", "rbrace", "lbracket",
              "rbracket", "colon", "comma", "ident", "scalar", "string",
              "other"}
Closers == {"rparen", "rbrace", "rbracket"}
Error == {"ok", "parse", "range", "nomem", "arg"}

(* A token: own says that the scratch buffer still holds its text. *)
Token == [type : TokenType, own : BOOLEAN]

(* A result: the objects of the tree and its height; NULL has none. *)
Null == [size |-> 0, height |-> 0]
Leaf == [size |-> 1, height |-> 1]

-----------------------------------------------------------------------------
(* cco_lexer_next into next_token, as the set of contexts it may end in.   *)

Fill(c, n, clobbers) ==
    [c EXCEPT !.nxt = n, !.cur.own = @ /\ ~clobbers]

LexEof(c) == {[Fill(c, [type |-> "eof", own |-> FALSE], FALSE)
                 EXCEPT !.left = 0]}
LexToken(c) ==
    {[Fill(c, [type |-> t, own |-> t = "string"], t = "string")
        EXCEPT !.left = @ - 1] : t \in TokenType \ {"eof"}}
(* A bad character, a bad escape in a string, or a string with no end: the *)
(* type stays what it was, and a string has reused the scratch buffer.     *)
LexError(c) ==
    LET stale(inString) == Fill(c, [type |-> c.nxt.type, own |-> FALSE], inString)
        first(e) == IF c.diag = "ok" THEN e ELSE c.diag
    IN  {[stale(inString) EXCEPT !.left = @ - 1, !.diag = first("arg")] :
           inString \in BOOLEAN}
        \cup {[stale(TRUE) EXCEPT !.left = 0, !.diag = first("parse")]}
LexDollar(c) ==
    {[Fill(c, [type |-> "ident", own |-> FALSE], FALSE) EXCEPT !.stuck = TRUE]}

Lex(c) ==
    IF c.stuck THEN LexDollar(c)
    ELSE IF c.left = 0 THEN LexEof(c)
    ELSE LexEof(c) \cup LexToken(c) \cup LexError(c) \cup LexDollar(c)

(* Recording a diagnostic keeps the first error; the parser's own error is *)
(* the last one.                                                           *)
Fails(c, e) == [c EXCEPT !.err = e]
Records(c, e) == [c EXCEPT !.err = e, !.diag = IF @ = "ok" THEN e ELSE @]

CountStep(c) ==
    IF opts.max_steps = 0 THEN c
    ELSE LET d == [c EXCEPT !.steps = @ + 1]
         IN  IF d.steps > opts.max_steps THEN Records(d, "range") ELSE d

(* advance_token: the lexer's error code is not looked at. *)
Advance(c) == {CountStep(d) : d \in Lex([c EXCEPT !.cur = c.nxt])}

(* cco_parser_init: next_token is not initialised before the first call.   *)
Primed ==
    LET zero(t) == [cur |-> t, nxt |-> t, left |-> MaxTokens, stuck |-> FALSE,
                    depth |-> 0, steps |-> 0, err |-> "ok", diag |-> "ok"]
        garbage == {zero([type |-> t, own |-> FALSE]) : t \in TokenType}
    IN  UNION {Advance(c) : c \in UNION {Lex(g) : g \in garbage}}

-----------------------------------------------------------------------------
(* Frames *)

ValueFrame == [fn |-> "value", pc |-> "call", close |-> "eof",
               items |-> <<>>, key |-> FALSE]
ContainerFrame(f) == [ValueFrame EXCEPT !.fn = f, !.pc = "create"]

Top == stack[Len(stack)]
Under == SubSeq(stack, 1, Len(stack) - 1)
At(f, pc) == phase = "parse" /\ stack # <<>> /\ Top.fn = f /\ Top.pc = pc
InContainer(pc) == At("map", pc) \/ At("array", pc)
Goto(frame) == Under \o <<frame>>

Sum(ns) ==
    LET s[i \in 0 .. Len(ns)] == IF i = 0 THEN 0 ELSE s[i - 1] + ns[i]
    IN  s[Len(ns)]
SumSizes(ts) == Sum([i \in DOMAIN ts |-> ts[i].size])
MaxHeight(ts) ==
    LET heights == {0} \cup {ts[i].height : i \in DOMAIN ts}
    IN  CHOOSE h \in heights : \A g \in heights : g <= h
Tree(ts) == [size |-> 1 + SumSizes(ts), height |-> 1 + MaxHeight(ts)]

(* The outcomes of an allocation. *)
Malloc == IF MallocFails THEN BOOLEAN ELSE {TRUE}
Note(ok) == oom' = (oom \/ ~ok)

Return(t) == stack' = Under /\ ret' = t
NoHeap == UNCHANGED <<live, keys, oom>>
NoCall == UNCHANGED <<opts, phase, root>>

-----------------------------------------------------------------------------
Init ==
    /\ opts \in Options
    /\ ctx = [cur |-> [type |-> "eof", own |-> FALSE],
              nxt |-> [type |-> "eof", own |-> FALSE],
              left |-> MaxTokens, stuck |-> FALSE,
              depth |-> 0, steps |-> 0, err |-> "ok", diag |-> "ok"]
    /\ stack = <<>>
    /\ ret = Null
    /\ live = 0 /\ keys = 0 /\ oom = FALSE
    /\ phase = "init"
    /\ root = Null

(* cco_parse_string up to cco_parse_document. *)
ParserInit ==
    /\ phase = "init"
    /\ ctx' \in Primed
    /\ phase' = "document"
    /\ UNCHANGED <<opts, stack, ret, root>> /\ NoHeap

(* cco_parse_document: the size check, then the root. *)
DocumentTooBig ==
    /\ phase = "document" /\ opts.tooBig
    /\ ctx' = Records(ctx, "range")
    /\ phase' = "done"
    /\ UNCHANGED <<opts, stack, ret, root>> /\ NoHeap

DocumentRoot ==
    /\ phase = "document" /\ ~opts.tooBig
    /\ stack' = IF ctx.cur.type = "ident" /\ ctx.nxt.type = "colon"
                  THEN <<ContainerFrame("map")>> ELSE <<ValueFrame>>
    /\ phase' = "parse"
    /\ UNCHANGED <<opts, ctx, ret, root>> /\ NoHeap

(* Mutant: the root of a failed parse is not released. *)
DocumentDone_kept ==
    /\ phase = "parse" /\ stack = <<>>
    /\ phase' = "done"
    /\ root' = IF ctx.err = "ok" THEN ret ELSE Null
    /\ UNCHANGED <<opts, ctx, stack, ret, live, keys, oom>>

(* Its cleanup: a root made before an error is released. *)
DocumentDone ==
    /\ phase = "parse" /\ stack = <<>>
    /\ phase' = "done"
    /\ root' = IF ctx.err = "ok" THEN ret ELSE Null
    /\ live' = IF ctx.err = "ok" THEN live ELSE live - ret.size
    /\ UNCHANGED <<opts, ctx, stack, ret, keys, oom>>

(* parse_value refuses: an error is pending, or the limit is reached. *)
(* Mutant: the limit is off by one. *)
AtMaxDepth_late == opts.max_depth > 0 /\ ctx.depth > opts.max_depth
AtMaxDepth == opts.max_depth > 0 /\ ctx.depth >= opts.max_depth

ValueRefused ==
    /\ At("value", "call")
    /\ \/ ctx.err # "ok" /\ UNCHANGED ctx
       \/ ctx.err = "ok" /\ AtMaxDepth /\ ctx' = Records(ctx, "range")
    /\ Return(Null) /\ NoHeap /\ NoCall

(* Mutant: a pending error is not looked at. *)
Enters_anyway == At("value", "call") /\ ~AtMaxDepth
Enters == At("value", "call") /\ ctx.err = "ok" /\ ~AtMaxDepth

(* A token that is a value: depth is raised and lowered within the step. *)
ValueScalar ==
    /\ Enters
    /\ ctx.cur.type = "scalar"
    /\ \E ok \in Malloc :
        /\ Note(ok)
        /\ Return(IF ok THEN Leaf ELSE Null)
        /\ live' = live + (IF ok THEN 1 ELSE 0)
    /\ ctx' \in Advance(ctx)
    /\ UNCHANGED keys /\ NoCall

(* When only the copy of the text fails, the object is returned without it.*)
ValueString ==
    /\ Enters
    /\ ctx.cur.type = "string"
    /\ \E made \in Malloc, copied \in Malloc :
        /\ Note(made /\ copied)
        /\ Return(IF made THEN Leaf ELSE Null)
        /\ live' = live + (IF made THEN 1 ELSE 0)
        /\ ctx' \in Advance(IF made /\ ~copied THEN Fails(ctx, "nomem") ELSE ctx)
    /\ UNCHANGED keys /\ NoCall

CloserOf == [lparen |-> "rparen", lbrace |-> "rbrace", lbracket |-> "rbracket"]

(* An opening bracket: one look at the next two tokens tells a map from an *)
(* array.  Braces and square brackets only in lenient mode.                *)
ValueOpens ==
    /\ Enters
    /\ ctx.cur.type \in DOMAIN CloserOf
    /\ ctx.cur.type = "lparen" \/ opts.lenient
    /\ LET close == CloserOf[ctx.cur.type]
       IN  \E c \in Advance([ctx EXCEPT !.depth = @ + 1]) :
             LET map == \/ c.cur.type = "ident" /\ c.nxt.type = "colon"
                        \/ c.cur.type = close
             IN  /\ ctx' = c
                 /\ stack' = Goto([Top EXCEPT !.pc = "close", !.close = close])
                             \o <<ContainerFrame(IF map THEN "map" ELSE "array")>>
    /\ UNCHANGED ret /\ NoHeap /\ NoCall

(* Mutant: depth is lowered only when the bracket is there. *)
ValueCloses_deeper ==
    /\ At("value", "close")
    /\ IF ctx.cur.type = Top.close
         THEN ctx' \in Advance([ctx EXCEPT !.depth = @ - 1]) ELSE UNCHANGED ctx
    /\ Return(ret) /\ NoHeap /\ NoCall

(* The closing bracket is taken if it is there. *)
ValueCloses ==
    /\ At("value", "close")
    /\ LET c == [ctx EXCEPT !.depth = @ - 1]
       IN  ctx' \in IF ctx.cur.type = Top.close THEN Advance(c) ELSE {c}
    /\ Return(ret) /\ NoHeap /\ NoCall

(* Mutant: the error is recorded and not kept in the context. *)
ValueUnexpected_forgotten ==
    /\ Enters
    /\ \/ ctx.cur.type \notin {"scalar", "string"} \cup DOMAIN CloserOf
       \/ ctx.cur.type \in {"lbrace", "lbracket"} /\ ~opts.lenient
    /\ ctx' = Fails(Records(ctx, "parse"), "ok")
    /\ Return(Null) /\ NoHeap /\ NoCall

ValueUnexpected ==
    /\ Enters
    /\ \/ ctx.cur.type \notin {"scalar", "string"} \cup DOMAIN CloserOf
       \/ ctx.cur.type \in {"lbrace", "lbracket"} /\ ~opts.lenient
    /\ ctx' = Records(ctx, "parse")
    /\ Return(Null) /\ NoHeap /\ NoCall

-----------------------------------------------------------------------------
(* parse_map and parse_array *)

ContainerCreate ==
    /\ InContainer("create")
    /\ \E ok \in Malloc :
        /\ Note(ok)
        /\ IF ok THEN /\ stack' = Goto([Top EXCEPT !.pc = "loop"])
                      /\ UNCHANGED <<ctx, ret>>
                 ELSE Return(Null) /\ ctx' = Fails(ctx, "nomem")
        /\ live' = live + (IF ok THEN 1 ELSE 0)
    /\ UNCHANGED keys /\ NoCall

AtEnd == ctx.cur.type \in Closers \cup {"eof"}
Leave == stack' = Goto([Top EXCEPT !.pc = "exit", !.key = FALSE])

LoopEnds ==
    /\ InContainer("loop") /\ AtEnd
    /\ Leave
    /\ UNCHANGED <<ctx, ret>> /\ NoHeap /\ NoCall

ArrayItem ==
    /\ At("array", "loop") /\ ~AtEnd
    /\ stack' = Goto([Top EXCEPT !.pc = "item"]) \o <<ValueFrame>>
    /\ UNCHANGED <<ctx, ret>> /\ NoHeap /\ NoCall

(* A key and its colon; the key's buffer lives until the entry is stored.  *)
MapKey ==
    /\ At("map", "loop") /\ ~AtEnd
    /\ ctx.cur.type = "ident"
    /\ \E ok \in Malloc :
        /\ Note(ok)
        /\ \/ ~ok /\ ctx' = Fails(ctx, "nomem") /\ Leave /\ UNCHANGED keys
           \/ ok /\ \E c \in Advance(ctx) :
                \/ /\ c.cur.type # "colon"
                   /\ ctx' = Fails(c, "parse") /\ Leave /\ UNCHANGED keys
                \/ /\ c.cur.type = "colon"
                   /\ ctx' \in Advance(c)
                   /\ stack' = Goto([Top EXCEPT !.pc = "item", !.key = TRUE])
                               \o <<ValueFrame>>
                   /\ keys' = keys + 1
    /\ UNCHANGED <<ret, live>> /\ NoCall

MapNoKey ==
    /\ At("map", "loop") /\ ~AtEnd
    /\ ctx.cur.type # "ident"
    /\ ctx' = Fails(ctx, "parse")
    /\ Leave
    /\ UNCHANGED ret /\ NoHeap /\ NoCall

(* Mutant: the key's buffer is not freed. *)
ItemMissing_leaky ==
    /\ InContainer("item") /\ ret = Null
    /\ Leave
    /\ UNCHANGED <<ctx, ret, live, keys, oom>> /\ NoCall

(* Mutant: the loop goes on. *)
ItemMissing_continues ==
    /\ InContainer("item") /\ ret = Null
    /\ stack' = Goto([Top EXCEPT !.pc = "loop", !.key = FALSE])
    /\ keys' = keys - (IF Top.key THEN 1 ELSE 0)
    /\ UNCHANGED <<ctx, ret, live, oom>> /\ NoCall

(* parse_value returned NULL: the loop stops, whatever the reason. *)
ItemMissing ==
    /\ InContainer("item") /\ ret = Null
    /\ Leave
    /\ keys' = keys - (IF Top.key THEN 1 ELSE 0)
    /\ UNCHANGED <<ctx, ret, live, oom>> /\ NoCall

(* The item is stored, which retains it, and released: the container owns  *)
(* it.  An entry of a key the map already has replaces the old value.      *)
ItemStored ==
    /\ InContainer("item") /\ ret # Null
    /\ \E items \in {Append(Top.items, ret)} \cup
                    {[Top.items EXCEPT ![i] = ret] :
                       i \in IF Top.fn = "map" THEN DOMAIN Top.items ELSE {}} :
        /\ live' = live - (SumSizes(Top.items) + ret.size - SumSizes(items))
        /\ LET frame == [Top EXCEPT !.items = items, !.key = FALSE]
           IN  \/ /\ ctx.cur.type = "comma"
                  /\ ctx' \in Advance(ctx)
                  /\ stack' = Goto([frame EXCEPT !.pc = "loop"])
               \/ /\ AtEnd
                  /\ UNCHANGED ctx
                  /\ stack' = Goto([frame EXCEPT !.pc = "loop"])
               \/ /\ ctx.cur.type # "comma" /\ ~AtEnd
                  /\ ctx' = Fails(ctx, "parse")
                  /\ stack' = Goto([frame EXCEPT !.pc = "exit"])
    /\ keys' = keys - (IF Top.key THEN 1 ELSE 0)
    /\ ret' = Null
    /\ UNCHANGED oom /\ NoCall

ItemNotStored ==
    /\ InContainer("item") /\ ret # Null
    /\ MallocFails /\ Note(FALSE)
    /\ live' = live - ret.size
    /\ keys' = keys - (IF Top.key THEN 1 ELSE 0)
    /\ ctx' = Fails(ctx, "nomem")
    /\ ret' = Null
    /\ Leave /\ NoCall

(* A container of a failed parse is released with all it holds. *)
ContainerExit ==
    /\ InContainer("exit")
    /\ LET t == Tree(Top.items)
       IN  IF ctx.err = "ok" THEN Return(t) /\ UNCHANGED live
                             ELSE Return(Null) /\ live' = live - t.size
    /\ UNCHANGED <<ctx, keys, oom>> /\ NoCall

Done == phase = "done" /\ UNCHANGED vars

Next ==
    \/ ParserInit \/ DocumentTooBig \/ DocumentRoot \/ DocumentDone
    \/ ValueRefused \/ ValueScalar \/ ValueString \/ ValueOpens
    \/ ValueCloses \/ ValueUnexpected
    \/ ContainerCreate \/ LoopEnds \/ ArrayItem \/ MapKey \/ MapNoKey
    \/ ItemMissing \/ ItemStored \/ ItemNotStored \/ ContainerExit
    \/ Done

Spec == Init /\ [][Next]_vars

(* The call runs to its end: nothing else happens on its thread. *)
FairSpec == Spec /\ WF_vars(Next)

-----------------------------------------------------------------------------
(* Properties *)

TypeOK ==
    /\ opts \in Options
    /\ ctx \in [cur : Token, nxt : Token, left : 0 .. MaxTokens,
                stuck : BOOLEAN, depth : Nat, steps : Nat,
                err : Error, diag : Error]
    /\ \A i \in DOMAIN stack :
         /\ stack[i].fn \in {"value", "map", "array"}
         /\ stack[i].pc \in {"call", "close", "create", "loop", "item", "exit"}
         /\ stack[i].close \in Closers \cup {"eof"}
         /\ stack[i].key \in BOOLEAN
    /\ live \in Nat /\ keys \in Nat /\ oom \in BOOLEAN
    /\ phase \in {"init", "document", "parse", "done"}

Opened == {i \in DOMAIN stack : stack[i].fn = "value" /\ stack[i].pc = "close"}
Weight(f) == IF f.pc \in {"loop", "item", "exit"} THEN Tree(f.items).size ELSE 0
Owned == ret.size + Sum([i \in DOMAIN stack |-> Weight(stack[i])])

(* While the document is parsed every object belongs to one open container *)
(* or to the value just returned, and every key buffer to one map that     *)
(* waits for its value: no early return, failed allocation or replaced     *)
(* entry loses one or gives one up twice.                                  *)
OwnershipExact ==
    phase = "parse" =>
        /\ live = Owned
        /\ keys = Cardinality({i \in DOMAIN stack : stack[i].key})

(* A failed parse leaves no object behind, a good one exactly its tree,    *)
(* and neither leaves a key buffer.                                        *)
NothingLeft ==
    phase = "done" => /\ keys = 0
                      /\ live = root.size
                      /\ ctx.err # "ok" => root = Null

(* The depth counter is the number of brackets that are open on the stack  *)
(* at every step, on the paths that fail too, and never over the limit.    *)
DepthExact ==
    /\ phase = "parse" => ctx.depth = Cardinality(Opened)
    /\ phase = "done" => ctx.depth = 0
    /\ opts.max_depth > 0 => ctx.depth <= opts.max_depth

(* A document returned is no higher than the limit; the map of a document  *)
(* written without its outer parentheses is one level that is not counted. *)
HeightBounded ==
    phase = "done" /\ opts.max_depth > 0 => root.height <= opts.max_depth + 1

(* Once the budget of steps is spent the parse stops soon: it may still    *)
(* take a comma, a key and its colon, and then only closing brackets.      *)
MostOpen == IF opts.max_depth > 0 THEN opts.max_depth ELSE opts.max_steps
StepsBounded ==
    opts.max_steps > 0 => ctx.steps <= opts.max_steps + 3 + MostOpen

(* An error is final: it stays, and nothing is entered after it. *)
ErrorIsFinal ==
    [][ctx.err # "ok" => ctx'.err # "ok" /\ ctx'.depth <= ctx.depth]_vars

(* The call returns, whatever the document and the limits. *)
Terminates == <>(phase = "done")

(* With no failed allocation a parse that returns NULL has an error. *)
NullHasError == phase = "done" /\ root = Null /\ ~oom => ctx.err # "ok"

(* What the header promises of cco_parse_string: NULL if an error occurs, *)
ErrorMeansNull == phase = "done" /\ ctx.diag # "ok" => root = Null
(* and its code to be had by the diagnostic calls. *)
NullHasDiagnostic == phase = "done" /\ root = Null => ctx.diag # "ok"

(* The text of the current token is its own. *)
CurrentTextIntact ==
    phase # "init" /\ ctx.cur.type = "string" /\ ctx.diag = "ok" => ctx.cur.own
=============================================================================
