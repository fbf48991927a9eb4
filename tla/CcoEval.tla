------------------------------- MODULE CcoEval -------------------------------
(***************************************************************************)
(* What runs on a parsed document, of each thread: instantiation           *)
(* (internal/inst.c), static and colon calls (internal/call.c),            *)
(* expressions and builtins (internal/eval.c), the check of a path         *)
(* (internal/sandbox.c), and a parse as far as the diagnostics it leaves   *)
(* go (internal/cco.c).  Each call is gated by the build, by the options   *)
(* or by a budget, and tells the caller of a refusal by a code and a       *)
(* diagnostic; any of its allocations may fail.                            *)
(*                                                                         *)
(* A path is what realpath makes of it, a sequence of characters.          *)
(***************************************************************************)
EXTENDS CcoDiag, FiniteSets

CONSTANTS
    Enabled,       \* the features of the build
    Options,       \* the options of a parser context
    OutOfRange, Forbidden,   \* CCO_ERR_OUT_OF_RANGE, CCO_ERR_FORBIDDEN
    Args,          \* arguments of a static call, as sequences
    Char,          \* the characters of paths
    Path,          \* paths, resolved
    NoPath,        \* NULL, or what realpath cannot resolve
    Arg,           \* the objects that are passed
    MaxInst        \* bound on the instantiations of a context without a budget

Feature == {"colon", "calls", "constructors", "eval", "format", "env"}

ASSUME FeatureAssumption == Enabled \subseteq Feature /\ "colon" \in Enabled
ASSUME OptionsAssumption ==
    Options \subseteq [allow : SUBSET Feature, max_instantiations : Nat,
                       restrict : BOOLEAN, base : Path \cup {NoPath}]
ASSUME CodesAssumption ==
    /\ {OutOfRange, Forbidden} \subseteq Code \ {OK}
    /\ "invalid" \notin Code /\ "nomem" \notin Code
ASSUME ArgsAssumption == Args \subseteq Seq(Arg)

(* What realpath returns begins at the root and has no empty name, so no   *)
(* slash at its end but that of the root.  A name may have a backslash.    *)
Resolved(path) ==
    /\ path \in Seq(Char) /\ path # <<>> /\ path[1] = "/"
    /\ \A i \in 2 .. Len(path) :
         path[i] = "/" => i # Len(path) /\ path[i - 1] # "/"
ASSUME PathAssumption == \A path \in Path : Resolved(path)
ASSUME BoundAssumption == MaxInst \in Nat

VARIABLES
    opts,      \* the options of the thread's context
    parsing,   \* cco_parse_string is running
    inst,      \* inst_count
    built,     \* the instances made for that context
    last       \* what the last call was given and what it returned

evalVars == <<opts, parsing, inst, built, last>>
allVars == <<vars, evalVars>>

Status == Code \cup {"invalid", "nomem"}
Call == [args : Seq(Arg), path : Path \cup {NoPath}, status : Status,
         items : Seq(Arg), short : BOOLEAN]
Nothing == [args |-> <<>>, path |-> NoPath, status |-> OK,
            items |-> <<>>, short |-> FALSE]

EvalTypeOK ==
    /\ TypeOK
    /\ opts \in [Thread -> Options]
    /\ parsing \in [Thread -> BOOLEAN]
    /\ inst \in [Thread -> Nat] /\ built \in [Thread -> Nat]
    /\ last \in [Thread -> Call]

EvalInit ==
    /\ Init
    /\ opts \in [Thread -> Options]
    /\ parsing = [t \in Thread |-> FALSE]
    /\ inst = [t \in Thread |-> 0] /\ built = [t \in Thread |-> 0]
    /\ last = [t \in Thread |-> Nothing]

-----------------------------------------------------------------------------
(* What a call may come to *)

Same == UNCHANGED <<opts, parsing>>
SameCounts == UNCHANGED <<inst, built>>
Ends(t, call) == last' = [last EXCEPT ![t] = call]
EndsWith(t, status) == Ends(t, [Nothing EXCEPT !.status = status])

Refuses(t, code) == Record(t, code) /\ EndsWith(t, code)

(* A call that makes an object, or is given NULL for one or for a name, or *)
(* gets no memory: no diagnostic.                                          *)
Answers(t, status) == EndsWith(t, status) /\ UNCHANGED vars

Allowed(t, f) == f \in Enabled /\ f \in opts[t].allow

(* Mutant: a refusal is a code and no diagnostic. *)
Gated_silent(t, f) == ~Allowed(t, f) /\ Answers(t, Forbidden)
Gated(t, f) == ~Allowed(t, f) /\ Refuses(t, Forbidden)

Idle(t) == ~parsing[t] /\ Same

-----------------------------------------------------------------------------
(* Instantiation *)

(* Mutant: one instance more than the budget. *)
Spent_late(t) ==
    opts[t].max_instantiations > 0 /\ inst[t] > opts[t].max_instantiations
Spent(t) ==
    opts[t].max_instantiations > 0 /\ inst[t] >= opts[t].max_instantiations

(* The budget is counted before the object is made, and not given back.    *)
Builds(t) ==
    \/ Spent(t) /\ Refuses(t, OutOfRange) /\ SameCounts
    \/ /\ ~Spent(t) /\ inst[t] < MaxInst
       /\ inst' = [inst EXCEPT ![t] = @ + 1]
       /\ \/ Answers(t, OK) /\ built' = [built EXCEPT ![t] = @ + 1]
          \/ Answers(t, "nomem") /\ UNCHANGED built

(* cco_instantiate_positional, cco_instantiate_named *)
Instantiate(t) == Idle(t) /\ Builds(t)

(* cco_instantiate_custom *)
InstantiateCustom(t) ==
    /\ Idle(t)
    /\ \/ Gated(t, "constructors") /\ SameCounts
       \/ Allowed(t, "constructors") /\ Builds(t)

(* Another context begins, with a count of nothing. *)
NewContext(t) ==
    /\ ~parsing[t]
    /\ opts' \in {[opts EXCEPT ![t] = o] : o \in Options}
    /\ inst' = [inst EXCEPT ![t] = 0] /\ built' = [built EXCEPT ![t] = 0]
    /\ last' = [last EXCEPT ![t] = Nothing]
    /\ UNCHANGED <<vars, parsing>>

-----------------------------------------------------------------------------
(* Calls and expressions *)

(* Mutant: the arguments are taken from the last to the first. *)
Kept_backwards(args, fails) ==
    LET k[i \in 0 .. Len(args)] ==
          IF i = 0 THEN <<>>
          ELSE IF i \in fails THEN k[i - 1] ELSE <<args[i]>> \o k[i - 1]
    IN  k[Len(args)]

(* The items an array gets when some of the appends fail. *)
Kept(args, fails) ==
    LET k[i \in 0 .. Len(args)] ==
          IF i = 0 THEN <<>>
          ELSE IF i \in fails THEN k[i - 1] ELSE Append(k[i - 1], args[i])
    IN  k[Len(args)]

(* cco_call_static_method: an append that fails is not noticed.            *)
CallStatic(t, args) ==
    /\ Idle(t) /\ SameCounts
    /\ \/ Gated(t, "calls")
       \/ /\ Allowed(t, "calls")
          /\ \/ \E status \in {"invalid", "nomem"} : Answers(t, status)
             \/ /\ UNCHANGED vars
                /\ \E fails \in SUBSET DOMAIN args :
                     Ends(t, [Nothing EXCEPT !.args = args,
                                !.items = Kept(args, fails),
                                !.short = fails # {}])

(* An object is made, or it is not; a string is made in two steps, and the *)
(* object released when its text cannot be had.                            *)
MakesOne(t, f) ==
    /\ Idle(t) /\ SameCounts
    /\ \/ Gated(t, f)
       \/ /\ Allowed(t, f)
          /\ \E status \in {OK, "invalid", "nomem"} : Answers(t, status)

(* cco_call_colon_instantiation, cco_eval_expression; of the builtins, env *)
(* of a variable that is not set makes None.                               *)
CallColon(t) == MakesOne(t, "colon")
EvalExpression(t) == MakesOne(t, "eval")
BuiltinFormat(t) == MakesOne(t, "format")
BuiltinEnv(t) == MakesOne(t, "env")

-----------------------------------------------------------------------------
(* The check of a path *)

(* The code takes a backslash for a separator, as realpath does not. *)
Separator == {"/", "\\"}

(* Mutant: a name that begins like that of the base is taken for inside.   *)
Inside_prefix(base, path) ==
    Len(base) <= Len(path) /\ SubSeq(path, 1, Len(base)) = base

Inside(base, path) ==
    /\ Len(base) <= Len(path) /\ SubSeq(path, 1, Len(base)) = base
    /\ \/ Len(path) = Len(base)
       \/ path[Len(base) + 1] \in Separator
       \/ base[Len(base)] \in Separator

(* cco_sandbox_check_path *)
CheckPath(t, path) ==
    /\ Idle(t) /\ SameCounts
    /\ \/ Answers(t, "invalid")
       \/ LET restricted == opts[t].restrict
              base == opts[t].base
              known == NoPath \notin {base, path}
              passes == restricted => known /\ Inside(base, path)
              code == IF passes THEN OK ELSE Forbidden
          IN  /\ Ends(t, [Nothing EXCEPT !.path = path, !.status = code])
              /\ IF passes THEN UNCHANGED vars ELSE Record(t, Forbidden)

-----------------------------------------------------------------------------
(* The diagnostics that a parse leaves *)

(* cco_parse_string of NULL returns before the diagnostics are cleared.    *)
ParseNull(t) ==
    Idle(t) /\ SameCounts /\ Answers(t, "invalid")

(* cco_parse_string: the diagnostics are cleared, ...                      *)
ParseBegins(t) ==
    /\ ~parsing[t]
    /\ parsing' = [parsing EXCEPT ![t] = TRUE]
    /\ Clear(t)
    /\ Ends(t, Nothing)
    /\ UNCHANGED <<opts, inst, built>>

(* ... the parser records warnings and errors, ...                         *)
ParseRecords(t, code) ==
    /\ parsing[t]
    /\ Record(t, code)
    /\ UNCHANGED evalVars

(* ... and the caller gets the document, or NULL.                          *)
ParseEnds(t) ==
    /\ parsing[t]
    /\ parsing' = [parsing EXCEPT ![t] = FALSE]
    /\ UNCHANGED <<vars, opts, inst, built, last>>

(* cco_diag_clear *)
ClearDiagnostics(t) ==
    Idle(t) /\ SameCounts /\ Clear(t) /\ Ends(t, Nothing)

-----------------------------------------------------------------------------

EvalStep(t) ==
    \/ Instantiate(t) \/ InstantiateCustom(t) \/ NewContext(t)
    \/ \E args \in Args : CallStatic(t, args)
    \/ CallColon(t) \/ EvalExpression(t)
    \/ BuiltinFormat(t) \/ BuiltinEnv(t)
    \/ \E path \in Path \cup {NoPath} : CheckPath(t, path)
    \/ ParseNull(t) \/ ParseBegins(t) \/ ParseEnds(t)
    \/ \E code \in Code : ParseRecords(t, code)
    \/ ClearDiagnostics(t)

EvalNext == \E t \in Thread : EvalStep(t)

EvalSpec == EvalInit /\ [][EvalNext]_allVars

-----------------------------------------------------------------------------
(* Properties *)

(* Of a context with a budget, no more instances are made than it allows,  *)
(* whichever of the three calls made them and however many failed.         *)
BudgetKept ==
    \A t \in Thread :
        /\ built[t] <= inst[t]
        /\ opts[t].max_instantiations > 0
             => inst[t] <= opts[t].max_instantiations

(* A call that is refused says why: its code is the newest diagnostic, and *)
(* cco_get_last_error no longer answers CCO_OK.                            *)
RefusedTold ==
    \A t \in Thread :
        last[t].status \in {OutOfRange, Forbidden} =>
            /\ Len(log[t]) > 0 /\ log[t][Len(log[t])] = last[t].status
            /\ first[t] # OK

(* The answer to a static call holds its arguments in their order; some    *)
(* are missing only when an append has failed.                             *)
EchoInOrder ==
    \A t \in Thread :
        LET c == last[t]
        IN  /\ \E f \in [DOMAIN c.items -> DOMAIN c.args] :
                 /\ \A i, j \in DOMAIN f : i < j => f[i] < f[j]
                 /\ \A i \in DOMAIN f : c.items[i] = c.args[f[i]]
            /\ ~c.short => c.items = c.args

(* The names on a path from the root. *)
Names(path) ==
    LET ends == {i \in DOMAIN path : /\ path[i] # "/"
                                     /\ (i = Len(path) \/ path[i + 1] = "/")}
        begins == {i \in DOMAIN path : /\ path[i] # "/"
                                       /\ (i = 1 \/ path[i - 1] = "/")}
    IN  {<<Cardinality({j \in begins : j <= i}),
           SubSeq(path, i, CHOOSE e \in ends :
                             e >= i /\ \A d \in ends : d >= i => e <= d)>> :
           i \in begins}

(* A name with a backslash goes on where the base ends. *)
Blurred(base, path) ==
    /\ Len(base) < Len(path)
    /\ "\\" \in {base[Len(base)], path[Len(base) + 1]}

(* A context restricted to a base directory lets every path pass that has  *)
(* this directory on its way from the root, and no other path, except one  *)
(* whose name has a backslash right where the base ends: '/base\x' passes. *)
SandboxExact ==
    \A t \in Thread :
        LET base == opts[t].base
            path == last[t].path
            below == Names(base) \subseteq Names(path)
        IN  NoPath \notin {base, path} /\ opts[t].restrict =>
                /\ below => last[t].status = OK
                /\ last[t].status = OK => below \/ Blurred(base, path)
=============================================================================
