---------------------------- MODULE CcoEval_proof ----------------------------
(* The diagnostics, and what runs on a parsed document: for any number of  *)
(* threads, any options and any build, and lists of any length.            *)
EXTENDS CcoEval, FiniteSetTheorems, SequenceTheorems, NaturalsInduction,
        WellFoundedInduction, TLAPS

-----------------------------------------------------------------------------
(* The diagnostics of any number of threads, with a list of any length. *)

IInv == TypeOK /\ FirstErrorKept /\ ListHoldsFirst

(* Clearing starts an empty log, for this thread only. *)
LEMMA ClearKeeps ==
    ASSUME IInv, NEW t \in Thread, Clear(t) PROVE IInv'
<1>1. TypeOK' BY CodeAssumption, CountAssumption DEF IInv, TypeOK, Clear
<1>2. FirstErrorKept' BY DEF IInv, TypeOK, FirstErrorKept, Clear
<1>3. ListHoldsFirst'
  BY CountAssumption DEF IInv, TypeOK, ListHoldsFirst, Clear
<1> QED BY <1>1, <1>2, <1>3 DEF IInv

(* A record is appended to the log, and to the list while it has room. *)
LEMMA RecordKeeps ==
    ASSUME IInv, NEW t \in Thread, NEW code \in Code, Record(t, code)
    PROVE  IInv'
<1> DEFINE n == Len(log[t])
<1>1. /\ log[t] \in Seq(Code) /\ n \in Nat /\ DOMAIN log[t] = 1 .. n
      /\ log' = [log EXCEPT ![t] = Append(log[t], code)]
      /\ log'[t] = Append(log[t], code)
  BY DEF IInv, TypeOK, Record
<1>2. /\ Len(log'[t]) = n + 1 /\ DOMAIN log'[t] = 1 .. n + 1
      /\ log'[t][n + 1] = code
      /\ \A i \in 1 .. n : log'[t][i] = log[t][i]
      /\ log'[t] \in Seq(Code)
  BY <1>1
<1>3. \A s \in Thread : s # t => log'[s] = log[s] BY <1>1 DEF IInv, TypeOK
<1>4. log' \in [Thread -> Seq(Code)] BY <1>1, <1>2 DEF IInv, TypeOK
<1>5. TypeOK'
  <2>1. first' \in [Thread -> Code]
    BY DEF IInv, TypeOK, Record, FirstError
  <2>2. CASE Stores(t)
    <3>1. count[t] + 1 \in 1 .. MaxCount
      BY <2>2, CountAssumption DEF Stores, IInv, TypeOK
    <3>2. /\ diags' = [diags EXCEPT ![t][count[t] + 1] = code]
          /\ count' = [count EXCEPT ![t] = count[t] + 1]
      BY <2>2 DEF Record, Store
    <3>3. diags' \in [Thread -> [1 .. MaxCount -> Code]]
      BY <3>1, <3>2 DEF IInv, TypeOK
    <3>4. count' \in [Thread -> 0 .. MaxCount]
      BY <3>1, <3>2 DEF IInv, TypeOK
    <3> QED BY <1>4, <2>1, <3>3, <3>4 DEF TypeOK
  <2>3. CASE ~Stores(t)
    BY <1>4, <2>1, <2>3 DEF IInv, TypeOK, Record, Store
  <2> QED BY <2>2, <2>3
<1>6. FirstErrorKept'
  <2> SUFFICES ASSUME NEW s \in Thread
               PROVE
        \/ first'[s] = OK /\ \A i \in DOMAIN log'[s] : log'[s][i] = OK
        \/ /\ first'[s] # OK
           /\ \E i \in DOMAIN log'[s] :
                /\ log'[s][i] = first'[s]
                /\ \A j \in DOMAIN log'[s] : j < i => log'[s][j] = OK
    BY DEF FirstErrorKept
  <2>1. CASE s # t
    BY <1>3, <2>1 DEF IInv, TypeOK, FirstErrorKept, Record
  <2>2. CASE s = t
    <3>1. first'[t] = FirstError(t, code) BY DEF Record, IInv, TypeOK
    <3>2. CASE first[t] # OK
      <4>1. first'[t] = first[t] BY <3>1, <3>2 DEF FirstError
      <4>2. PICK i \in 1 .. n : /\ log[t][i] = first[t]
                                /\ \A j \in 1 .. n : j < i => log[t][j] = OK
        BY <1>1, <3>2 DEF IInv, FirstErrorKept
      <4>3. i \in 1 .. n + 1 /\ log'[t][i] = first'[t]
        BY <1>1, <1>2, <4>1, <4>2
      <4>4. \A j \in 1 .. n + 1 : j < i => log'[t][j] = OK
        BY <1>1, <1>2, <4>2
      <4> QED BY <1>2, <2>2, <3>2, <4>1, <4>3, <4>4
    <3>3. CASE first[t] = OK
      <4>1. \A j \in 1 .. n : log'[t][j] = OK
        BY <1>1, <1>2, <3>3 DEF IInv, FirstErrorKept
      <4>2. first'[t] = code BY <3>1, <3>3 DEF FirstError
      <4>3. \A j \in 1 .. n + 1 : j < n + 1 => log'[t][j] = OK
        BY <1>1, <4>1
      <4>4. n + 1 \in 1 .. n + 1 BY <1>1
      <4>5. CASE code = OK
        <5>1. \A j \in 1 .. n + 1 : log'[t][j] = OK
          BY <1>1, <1>2, <4>1, <4>5
        <5> QED BY <1>2, <2>2, <4>2, <4>5, <5>1
      <4>6. CASE code # OK
        BY <1>2, <2>2, <4>2, <4>3, <4>4, <4>6
      <4> QED BY <4>5, <4>6
    <3> QED BY <3>2, <3>3
  <2> QED BY <2>1, <2>2
<1>7. ListHoldsFirst'
  <2> SUFFICES ASSUME NEW s \in Thread
               PROVE
        /\ count'[s] = IF Len(log'[s]) < MaxCount THEN Len(log'[s]) ELSE MaxCount
        /\ \A i \in 1 .. count'[s] : diags'[s][i] = log'[s][i]
    BY DEF ListHoldsFirst
  <2>1. CASE s # t
    <3>1. count'[s] = count[s] /\ diags'[s] = diags[s] /\ log'[s] = log[s]
      BY <1>3, <2>1 DEF IInv, TypeOK, Record, Store
    <3> QED BY <3>1 DEF IInv, ListHoldsFirst
  <2>2. CASE s = t /\ Stores(t)
    <3>1. count[t] = n /\ n < MaxCount
      BY <1>1, <2>2, CountAssumption DEF Stores, IInv, ListHoldsFirst, TypeOK
    <3>2. /\ count'[t] = n + 1
          /\ diags'[t] = [diags[t] EXCEPT ![n + 1] = code]
      BY <2>2, <3>1 DEF IInv, TypeOK, Record, Store
    <3>3. diags[t] \in [1 .. MaxCount -> Code] /\ n + 1 \in 1 .. MaxCount
      BY <1>1, <3>1, CountAssumption DEF IInv, TypeOK
    <3>4. \A i \in 1 .. n : diags[t][i] = log[t][i]
      BY <3>1 DEF IInv, ListHoldsFirst
    <3>5. \A i \in 1 .. n + 1 : diags'[t][i] = log'[t][i]
      <4> SUFFICES ASSUME NEW i \in 1 .. n + 1
                   PROVE  diags'[t][i] = log'[t][i]
        OBVIOUS
      <4>1. CASE i = n + 1 BY <1>2, <3>2, <3>3, <4>1
      <4>2. CASE i # n + 1
        <5>1. i \in 1 .. n BY <1>1, <4>2
        <5> QED BY <1>2, <3>2, <3>3, <3>4, <4>2, <5>1
      <4> QED BY <4>1, <4>2
    <3> QED BY <1>1, <1>2, <2>2, <3>1, <3>2, <3>5, CountAssumption
  <2>3. CASE s = t /\ ~Stores(t)
    <3>1. count[t] = MaxCount /\ MaxCount <= n
      BY <1>1, <2>3, CountAssumption DEF Stores, IInv, ListHoldsFirst, TypeOK
    <3>2. count'[t] = count[t] /\ diags'[t] = diags[t]
      BY <2>3 DEF Record, Store
    <3>3. \A i \in 1 .. MaxCount : diags[t][i] = log[t][i]
      BY <3>1 DEF IInv, ListHoldsFirst
    <3>4. \A i \in 1 .. MaxCount : diags'[t][i] = log'[t][i]
      BY <1>1, <1>2, <3>1, <3>2, <3>3, CountAssumption
    <3> QED BY <1>1, <1>2, <2>3, <3>1, <3>2, <3>4, CountAssumption
  <2> QED BY <2>1, <2>2, <2>3
<1> QED BY <1>5, <1>6, <1>7 DEF IInv

-----------------------------------------------------------------------------
(* The invariant of the diagnostics: all three properties together. *)
THEOREM DiagInvariant == Spec => []IInv
<1>1. Init => IInv
  BY CodeAssumption, CountAssumption
  DEF Init, IInv, TypeOK, FirstErrorKept, ListHoldsFirst
<1>2. ASSUME IInv, [Next]_vars PROVE IInv'
  <2>1. CASE Next BY <1>2, <2>1, ClearKeeps, RecordKeeps DEF Next
  <2>2. CASE UNCHANGED vars
    BY <1>2, <2>2
    DEF vars, IInv, TypeOK, FirstErrorKept, ListHoldsFirst
  <2> QED BY <1>2, <2>1, <2>2
<1> QED BY <1>1, <1>2, PTL DEF Spec

(* cco_get_last_error never forgets the first error since the last clear.  *)
THEOREM FirstErrorNeverLost == Spec => []FirstErrorKept
BY DiagInvariant, PTL DEF IInv

(* The list is the beginning of what was recorded. *)
THEOREM ListNeverWrong == Spec => []ListHoldsFirst
BY DiagInvariant, PTL DEF IInv

-----------------------------------------------------------------------------
(* The diagnostics of the calls are those of CcoDiag *)

(* A call clears the diagnostics, records one, or leaves them alone. *)
LEMMA CallRecords ==
    ASSUME NEW t \in Thread, EvalStep(t) PROVE Next \/ UNCHANGED vars
<1> USE CodesAssumption, CodeAssumption
<1>1. ASSUME NEW code \in Code, Record(t, code) PROVE Next BY <1>1 DEF Next
<1>2. ASSUME Clear(t) PROVE Next BY <1>2 DEF Next
<1>3. ASSUME NEW f, Gated(t, f) PROVE Next
  BY <1>1, <1>3 DEF Gated, Refuses
<1>4. ASSUME Builds(t) PROVE Next \/ UNCHANGED vars
  BY <1>1, <1>4 DEF Builds, Refuses, Answers
<1>5. ASSUME NEW f, MakesOne(t, f) PROVE Next \/ UNCHANGED vars
  BY <1>3, <1>5 DEF MakesOne, Answers
<1>6. CASE Instantiate(t) BY <1>4, <1>6 DEF Instantiate
<1>7. CASE InstantiateCustom(t)
  BY <1>3, <1>4, <1>7 DEF InstantiateCustom
<1>8. CASE \E args \in Args : CallStatic(t, args)
  BY <1>3, <1>8 DEF CallStatic, Answers
<1>9. CASE CallColon(t) \/ EvalExpression(t) \/ BuiltinFormat(t) \/ BuiltinEnv(t)
  BY <1>5, <1>9 DEF CallColon, EvalExpression, BuiltinFormat, BuiltinEnv
<1>10. CASE \E path \in Path \cup {NoPath} : CheckPath(t, path)
  BY <1>1, <1>10 DEF CheckPath, Answers
<1>11. CASE NewContext(t) \/ ParseNull(t) \/ ParseEnds(t)
  BY <1>11 DEF NewContext, ParseNull, ParseEnds, Answers
<1>12. CASE ParseBegins(t) \/ ClearDiagnostics(t)
  BY <1>2, <1>12 DEF ParseBegins, ClearDiagnostics
<1>13. CASE \E code \in Code : ParseRecords(t, code)
  BY <1>1, <1>13 DEF ParseRecords
<1> QED
  BY <1>6, <1>7, <1>8, <1>9, <1>10, <1>11, <1>12, <1>13 DEF EvalStep

(* Every behaviour of the calls is one of CcoDiag's: they touch the list   *)
(* and the first error only by recording and clearing.                     *)
THEOREM CallsRefineDiag == EvalSpec => Spec
<1>1. EvalInit => Init BY DEF EvalInit
<1>2. [EvalNext]_allVars => [Next]_vars
  BY CallRecords DEF EvalNext, allVars
<1> QED BY <1>1, <1>2, PTL DEF EvalSpec, Spec

(* The first error and the order of the list are kept by all the calls     *)
(* that record, not only by a parse.                                       *)
THEOREM CallsKeepDiagnostics == EvalSpec => [](FirstErrorKept /\ ListHoldsFirst)
BY CallsRefineDiag, FirstErrorNeverLost, ListNeverWrong, PTL

-----------------------------------------------------------------------------
(* The budget of instances *)

CountsOK ==
    /\ opts \in [Thread -> Options]
    /\ inst \in [Thread -> Nat] /\ built \in [Thread -> Nat]
BInv == CountsOK /\ BudgetKept

LEMMA BudgetTyped ==
    ASSUME CountsOK, NEW t \in Thread
    PROVE  /\ opts[t].max_instantiations \in Nat
           /\ inst[t] \in Nat /\ built[t] \in Nat
BY OptionsAssumption DEF CountsOK

(* An instance is counted before it is made: the count bounds what is      *)
(* made, and the check before it bounds the count.                         *)
LEMMA BuildKeepsBudget ==
    ASSUME BInv, NEW t \in Thread, Builds(t), UNCHANGED opts PROVE BInv'
<1>1. CASE SameCounts BY <1>1 DEF BInv, CountsOK, BudgetKept, SameCounts
<1>2. CASE /\ ~Spent(t)
           /\ inst' = [inst EXCEPT ![t] = @ + 1]
           /\ built' = [built EXCEPT ![t] = @ + 1] \/ UNCHANGED built
  <2>1. CountsOK' BY <1>2 DEF BInv, CountsOK
  <2>2. BudgetKept'
    <3> SUFFICES ASSUME NEW s \in Thread
                 PROVE  /\ built'[s] <= inst'[s]
                        /\ opts[s].max_instantiations > 0
                             => inst'[s] <= opts[s].max_instantiations
      BY DEF BudgetKept
    <3>1. CASE s # t BY <1>2, <3>1 DEF BInv, CountsOK, BudgetKept
    <3>2. CASE s = t
      <4>1. inst'[t] = inst[t] + 1 /\ built'[t] \in {built[t], built[t] + 1}
        BY <1>2 DEF BInv, CountsOK
      <4> QED BY <1>2, <3>2, <4>1, BudgetTyped DEF BInv, BudgetKept, Spent
    <3> QED BY <3>1, <3>2
  <2> QED BY <2>1, <2>2 DEF BInv
<1> QED BY <1>1, <1>2 DEF Builds

LEMMA ContextKeepsBudget ==
    ASSUME BInv, NEW t \in Thread, NewContext(t) PROVE BInv'
<1>1. PICK o \in Options : opts' = [opts EXCEPT ![t] = o]
  BY DEF NewContext
<1>2. /\ inst' = [inst EXCEPT ![t] = 0] /\ built' = [built EXCEPT ![t] = 0]
  BY DEF NewContext
<1>3. CountsOK' BY <1>1, <1>2 DEF BInv, CountsOK
<1>4. ASSUME NEW s \in Thread
      PROVE  /\ built'[s] <= inst'[s]
             /\ opts'[s].max_instantiations > 0
                  => inst'[s] <= opts'[s].max_instantiations
  <2>1. CASE s # t
    BY <1>1, <1>2, <2>1 DEF BInv, CountsOK, BudgetKept
  <2>2. CASE s = t
    <3>1. inst'[t] = 0 /\ built'[t] = 0 BY <1>2 DEF BInv, CountsOK
    <3>2. opts'[t].max_instantiations \in Nat
      BY <1>3, OptionsAssumption DEF CountsOK
    <3> QED BY <2>2, <3>1, <3>2
  <2> QED BY <2>1, <2>2
<1> QED BY <1>3, <1>4 DEF BInv, BudgetKept

LEMMA CallKeepsBudget ==
    ASSUME BInv, NEW t \in Thread, EvalStep(t) PROVE BInv'
<1>1. ASSUME UNCHANGED <<opts, inst, built>> PROVE BInv'
  BY <1>1 DEF BInv, CountsOK, BudgetKept
<1>2. CASE Instantiate(t)
  BY <1>2, BuildKeepsBudget DEF Instantiate, Idle, Same
<1>3. CASE InstantiateCustom(t)
  BY <1>1, <1>3, BuildKeepsBudget DEF InstantiateCustom, Idle, Same, SameCounts
<1>4. CASE NewContext(t) BY <1>4, ContextKeepsBudget
<1>5. CASE \E args \in Args : CallStatic(t, args)
  BY <1>1, <1>5 DEF CallStatic, Idle, Same, SameCounts
<1>6. CASE CallColon(t) \/ EvalExpression(t) \/ BuiltinFormat(t) \/ BuiltinEnv(t)
  BY <1>1, <1>6
  DEF CallColon, EvalExpression, BuiltinFormat, BuiltinEnv, MakesOne,
      Idle, Same, SameCounts
<1>7. CASE \E path \in Path \cup {NoPath} : CheckPath(t, path)
  BY <1>1, <1>7 DEF CheckPath, Idle, Same, SameCounts
<1>8. CASE ParseNull(t) \/ ClearDiagnostics(t)
  BY <1>1, <1>8 DEF ParseNull, ClearDiagnostics, Idle, Same, SameCounts
<1>9. CASE ParseBegins(t) \/ ParseEnds(t) \/ \E code \in Code : ParseRecords(t, code)
  BY <1>1, <1>9 DEF ParseBegins, ParseEnds, ParseRecords, evalVars
<1> QED
  BY <1>2, <1>3, <1>4, <1>5, <1>6, <1>7, <1>8, <1>9 DEF EvalStep

(* No context makes more instances than its options allow.                 *)
THEOREM BudgetNeverExceeded == EvalSpec => []BudgetKept
<1>1. EvalInit => BInv
  <2> SUFFICES ASSUME EvalInit PROVE BInv OBVIOUS
  <2>1. CountsOK BY DEF EvalInit, CountsOK
  <2>2. \A t \in Thread : inst[t] = 0 /\ built[t] = 0 BY DEF EvalInit
  <2> QED BY <2>1, <2>2, BudgetTyped DEF BInv, BudgetKept
<1>2. ASSUME BInv, [EvalNext]_allVars PROVE BInv'
  <2>1. CASE EvalNext BY <1>2, <2>1, CallKeepsBudget DEF EvalNext
  <2>2. CASE UNCHANGED allVars
    BY <1>2, <2>2 DEF BInv, CountsOK, BudgetKept, allVars, evalVars
  <2> QED BY <1>2, <2>1, <2>2
<1> QED BY <1>1, <1>2, PTL DEF EvalSpec, BInv

-----------------------------------------------------------------------------
(* Refusals *)

Refused == {OutOfRange, Forbidden}

(* While a parse records, no earlier call has anything to show. *)
RInv ==
    /\ DOMAIN last = Thread /\ parsing \in [Thread -> BOOLEAN]
    /\ first \in [Thread -> Code] /\ log \in [Thread -> Seq(Code)]
    /\ \A t \in Thread : parsing[t] => last[t].status \notin Refused
    /\ RefusedTold

(* The three things a call does to its thread's diagnostics and answer:    *)
(* it refuses, it answers otherwise, or it is the parser recording.        *)
LEMMA RefusalKeeps ==
    ASSUME RInv, NEW t \in Thread, NEW code \in Refused, NEW call,
           Record(t, code), Ends(t, call), call.status = code,
           ~parsing[t], UNCHANGED parsing
    PROVE  RInv'
<1>1. code \in Code /\ code # OK BY CodesAssumption DEF Refused
<1>2. /\ first' = [first EXCEPT ![t] = FirstError(t, code)]
      /\ log' = [log EXCEPT ![t] = Append(log[t], code)]
      /\ last' = [last EXCEPT ![t] = call]
  BY DEF Record, Ends
<1>3. FirstError(t, code) \in Code /\ FirstError(t, code) # OK
  BY <1>1 DEF FirstError, RInv
<1>4. /\ Append(log[t], code) \in Seq(Code)
      /\ Len(Append(log[t], code)) > 0
      /\ Append(log[t], code)[Len(Append(log[t], code))] = code
  BY <1>1 DEF RInv
<1>5. RefusedTold'
  <2> SUFFICES ASSUME NEW s \in Thread, last'[s].status \in Refused
               PROVE  /\ Len(log'[s]) > 0
                      /\ log'[s][Len(log'[s])] = last'[s].status
                      /\ first'[s] # OK
    BY DEF RefusedTold, Refused
  <2>1. CASE s # t
    BY <1>2, <2>1 DEF RInv, RefusedTold, Refused
  <2>2. CASE s = t
    BY <1>2, <1>3, <1>4, <2>2 DEF RInv
  <2> QED BY <2>1, <2>2
<1> QED BY <1>2, <1>3, <1>4, <1>5 DEF RInv

LEMMA AnswerKeeps ==
    ASSUME RInv, NEW t \in Thread, NEW call, Ends(t, call),
           call.status \notin Refused, Clear(t) \/ UNCHANGED vars,
           parsing' \in [Thread -> BOOLEAN],
           \A s \in Thread : s # t => parsing'[s] = parsing[s]
    PROVE  RInv'
<1>1. /\ DOMAIN last' = Thread /\ last'[t] = call
      /\ \A s \in Thread : s # t => last'[s] = last[s]
  BY DEF Ends, RInv
<1>2. /\ first' \in [Thread -> Code] /\ log' \in [Thread -> Seq(Code)]
      /\ \A s \in Thread : s # t => first'[s] = first[s] /\ log'[s] = log[s]
  <2>1. CASE Clear(t)
    <3>1. /\ first' = [first EXCEPT ![t] = OK]
          /\ log' = [log EXCEPT ![t] = <<>>]
      BY <2>1 DEF Clear
    <3>2. <<>> \in Seq(Code) OBVIOUS
    <3> QED BY <3>1, <3>2, CodeAssumption DEF RInv
  <2>2. CASE UNCHANGED vars BY <2>2 DEF RInv, vars
  <2> QED BY <2>1, <2>2
<1>3. RefusedTold' BY <1>1, <1>2 DEF RInv, RefusedTold, Refused
<1> QED BY <1>1, <1>2, <1>3 DEF RInv

LEMMA RecordingKeeps ==
    ASSUME RInv, NEW t \in Thread, NEW code \in Code, ParseRecords(t, code)
    PROVE  RInv'
<1>1. /\ parsing[t] /\ UNCHANGED evalVars
      /\ first' = [first EXCEPT ![t] = FirstError(t, code)]
      /\ log' = [log EXCEPT ![t] = Append(log[t], code)]
  BY DEF ParseRecords, Record
<1>2. first' \in [Thread -> Code] /\ log' \in [Thread -> Seq(Code)]
  BY <1>1 DEF RInv, FirstError
<1>3. last'[t].status \notin Refused BY <1>1 DEF RInv, evalVars
<1>4. RefusedTold'
  BY <1>1, <1>3 DEF RInv, RefusedTold, Refused, evalVars
<1> QED BY <1>1, <1>2, <1>4 DEF RInv, evalVars

LEMMA CallTells ==
    ASSUME RInv, NEW t \in Thread, EvalStep(t) PROVE RInv'
<1> USE DEF Idle, Same
<1>1. /\ Nothing.status \notin Refused
      /\ \A status \in {OK, "invalid", "nomem"} :
           [Nothing EXCEPT !.status = status].status \notin Refused
  BY CodesAssumption DEF Nothing, Refused
<1>2. ASSUME Idle(t), NEW status \in {OK, "invalid", "nomem"},
             Answers(t, status)
      PROVE RInv'
  BY <1>1, <1>2, AnswerKeeps DEF Answers, EndsWith, RInv
<1>3. ASSUME Idle(t), NEW code \in Refused, Refuses(t, code) PROVE RInv'
  <2>1. [Nothing EXCEPT !.status = code].status = code BY DEF Nothing
  <2> QED BY <1>3, <2>1, RefusalKeeps DEF Refuses, EndsWith
<1>4. ASSUME Idle(t), NEW f, Gated(t, f) PROVE RInv'
  BY <1>3, <1>4 DEF Gated, Refused
<1>5. ASSUME Idle(t), Builds(t) PROVE RInv'
  BY <1>2, <1>3, <1>5 DEF Builds, Refused
<1>6. ASSUME NEW f, MakesOne(t, f) PROVE RInv'
  BY <1>2, <1>4, <1>6 DEF MakesOne
<1>7. CASE Instantiate(t) BY <1>5, <1>7 DEF Instantiate
<1>8. CASE InstantiateCustom(t) BY <1>4, <1>5, <1>8 DEF InstantiateCustom
<1>9. CASE \E args \in Args : CallStatic(t, args)
  <2>1. PICK args \in Args : CallStatic(t, args) BY <1>9
  <2>2. CASE Gated(t, "calls") BY <1>4, <2>1, <2>2 DEF CallStatic
  <2>3. CASE \E status \in {"invalid", "nomem"} : Answers(t, status)
    BY <1>2, <2>1, <2>3 DEF CallStatic
  <2>4. CASE /\ UNCHANGED vars
             /\ \E fails \in SUBSET DOMAIN args :
                  Ends(t, [Nothing EXCEPT !.args = args,
                             !.items = Kept(args, fails),
                             !.short = fails # {}])
    <3>1. PICK fails \in SUBSET DOMAIN args :
            Ends(t, [Nothing EXCEPT !.args = args,
                       !.items = Kept(args, fails),
                       !.short = fails # {}])
      BY <2>4
    <3>2. [Nothing EXCEPT !.args = args, !.items = Kept(args, fails),
             !.short = fails # {}].status = OK
      BY DEF Nothing
    <3>3. OK \notin Refused BY CodesAssumption DEF Refused
    <3> QED
      BY <2>1, <2>4, <3>1, <3>2, <3>3, AnswerKeeps DEF CallStatic, RInv
  <2> QED BY <2>1, <2>2, <2>3, <2>4 DEF CallStatic
<1>10. CASE CallColon(t) \/ EvalExpression(t) \/ BuiltinFormat(t) \/ BuiltinEnv(t)
  BY <1>6, <1>10 DEF CallColon, EvalExpression, BuiltinFormat, BuiltinEnv
<1>11. CASE \E path \in Path \cup {NoPath} : CheckPath(t, path)
  <2>1. PICK path \in Path \cup {NoPath} : CheckPath(t, path) BY <1>11
  <2>2. CASE Answers(t, "invalid") BY <1>2, <2>1, <2>2 DEF CheckPath
  <2> DEFINE call(code) == [Nothing EXCEPT !.path = path, !.status = code]
  <2>3. CASE Ends(t, call(OK)) /\ UNCHANGED vars
    <3>1. call(OK).status \notin Refused
      BY CodesAssumption DEF Nothing, Refused
    <3> HIDE DEF call
    <3> QED BY <2>1, <2>3, <3>1, AnswerKeeps DEF CheckPath, RInv
  <2>4. CASE Ends(t, call(Forbidden)) /\ Record(t, Forbidden)
    <3>1. call(Forbidden).status = Forbidden BY DEF Nothing
    <3>2. Forbidden \in Refused BY DEF Refused
    <3> HIDE DEF call
    <3> QED
      BY <2>1, <2>4, <3>1, <3>2, RefusalKeeps DEF CheckPath
  <2> QED BY <2>1, <2>2, <2>3, <2>4 DEF CheckPath
<1>12. CASE NewContext(t) \/ ParseBegins(t) \/ ClearDiagnostics(t)
  <2>1. Ends(t, Nothing)
    BY <1>12 DEF NewContext, ParseBegins, ClearDiagnostics, Ends
  <2>2. Clear(t) \/ UNCHANGED vars
    BY <1>12 DEF NewContext, ParseBegins, ClearDiagnostics
  <2>3. /\ parsing' \in [Thread -> BOOLEAN]
        /\ \A s \in Thread : s # t => parsing'[s] = parsing[s]
    BY <1>12 DEF NewContext, ParseBegins, ClearDiagnostics, RInv
  <2> QED BY <1>1, <2>1, <2>2, <2>3, AnswerKeeps
<1>13. CASE ParseNull(t) BY <1>2, <1>13 DEF ParseNull
<1>14. CASE ParseEnds(t)
  BY <1>14 DEF ParseEnds, RInv, RefusedTold, vars
<1>15. CASE \E code \in Code : ParseRecords(t, code)
  BY <1>15, RecordingKeeps
<1> QED
  BY <1>7, <1>8, <1>9, <1>10, <1>11, <1>12, <1>13, <1>14, <1>15 DEF EvalStep

(* Whoever is refused finds the reason as the newest diagnostic of the     *)
(* thread, whatever the others do.                                         *)
THEOREM RefusalsToldAlways == EvalSpec => []RefusedTold
<1>1. EvalInit => RInv
  BY CodesAssumption, CodeAssumption
  DEF EvalInit, Init, RInv, RefusedTold, Refused, Nothing
<1>2. ASSUME RInv, [EvalNext]_allVars PROVE RInv'
  <2>1. CASE EvalNext BY <1>2, <2>1, CallTells DEF EvalNext
  <2>2. CASE UNCHANGED allVars
    BY <1>2, <2>2 DEF RInv, RefusedTold, allVars, vars, evalVars
  <2> QED BY <1>2, <2>1, <2>2
<1> QED BY <1>1, <1>2, PTL DEF EvalSpec, RInv

-----------------------------------------------------------------------------
(* The arguments a static call gives back                                  *)

(* A set of numbers that is not empty has a least one. *)
LEMMA Least ==
    ASSUME NEW T, T \subseteq Nat, T # {}
    PROVE  \E x \in T : \A y \in T : x <= y
<1> DEFINE R == {ss \in Nat \X Nat : ss[1] < ss[2]}
<1>1. IsWellFoundedOn(R, Nat) BY NatLessThanWellFounded DEF OpToRel
<1> HIDE DEF R
<1>2. PICK x \in T : \A y \in T : <<y, x>> \notin R BY <1>1, WFMin
<1>3. ASSUME NEW y \in T PROVE x <= y
  <2>1. x \in Nat /\ y \in Nat OBVIOUS
  <2>2. y < x => <<y, x>> \in R BY <2>1 DEF R
  <2> QED BY <1>2, <2>1, <2>2
<1> QED BY <1>3

(* k[i] is what is left of the first i of n arguments. *)
Keeps(k, n, args, fails) ==
    /\ k \in [0 .. n -> Seq(Arg)]
    /\ k[0] = <<>>
    /\ \A i \in 1 .. n :
         k[i] = IF i \in fails THEN k[i - 1] ELSE Append(k[i - 1], args[i])

ChosenKept(n, args, fails) ==
    CHOOSE k : k = [i \in 0 .. n |->
                      IF i = 0 THEN <<>>
                      ELSE IF i \in fails THEN k[i - 1]
                      ELSE Append(k[i - 1], args[i])]

LEMMA KeepsExists ==
    ASSUME NEW n \in Nat, NEW args \in [1 .. n -> Arg], NEW fails
    PROVE  \E k : Keeps(k, n, args, fails)
<1> DEFINE Ok(m) == \E k : Keeps(k, m, args, fails)
           T == {m \in 0 .. n : ~Ok(m)}
<1>1. SUFFICES ASSUME T # {} PROVE FALSE
  <2>1. n \in 0 .. n OBVIOUS
  <2> QED BY <2>1
<1>2. PICK m \in T : \A j \in T : m <= j
  <2>1. T \subseteq Nat OBVIOUS
  <2> HIDE DEF T
  <2> QED BY <1>1, <2>1, Least
<1>3. CASE m = 0
  <2> DEFINE k == [i \in 0 .. 0 |-> <<>>]
  <2>1. k \in [0 .. 0 -> Seq(Arg)] /\ k[0] = <<>>
    <3>1. <<>> \in Seq(Arg) OBVIOUS
    <3> QED BY <3>1
  <2>2. \A i \in 1 .. 0 : FALSE OBVIOUS
  <2>3. Keeps(k, 0, args, fails)
    <3> HIDE DEF k
    <3> QED BY <2>1, <2>2 DEF Keeps
  <2> QED BY <1>3, <2>3
<1>4. CASE m > 0
  <2>1. m - 1 \in 0 .. n /\ ~(m <= m - 1) BY <1>2, <1>4
  <2>2. Ok(m - 1)
    <3> HIDE DEF Ok
    <3> QED BY <1>2, <2>1
  <2>3. PICK k : Keeps(k, m - 1, args, fails) BY <2>2
  <2>4. PICK x : x = IF m \in fails THEN k[m - 1] ELSE Append(k[m - 1], args[m])
    OBVIOUS
  <2>5. x \in Seq(Arg)
    <3>1. k[m - 1] \in Seq(Arg) /\ args[m] \in Arg BY <1>4, <2>1, <2>3 DEF Keeps
    <3> QED BY <2>4, <3>1
  <2> DEFINE l == [i \in 0 .. m |-> IF i = m THEN x ELSE k[i]]
  <2>6. l \in [0 .. m -> Seq(Arg)] /\ l[0] = <<>>
    BY <1>4, <2>3, <2>5 DEF Keeps
  <2>7. ASSUME NEW i \in 1 .. m
        PROVE  l[i] = IF i \in fails THEN l[i - 1] ELSE Append(l[i - 1], args[i])
    <3>1. l[i - 1] = k[i - 1] BY <1>4
    <3>2. CASE i = m
      <4>1. l[i] = x BY <3>2
      <4> HIDE DEF l
      <4> QED BY <2>4, <3>1, <3>2, <4>1
    <3>3. CASE i < m
      <4>1. l[i] = k[i] /\ i \in 1 .. m - 1 BY <3>3
      <4> HIDE DEF l
      <4> QED BY <2>3, <3>1, <4>1 DEF Keeps
    <3> QED BY <3>2, <3>3
  <2> HIDE DEF l
  <2>8. Keeps(l, m, args, fails) BY <2>6, <2>7 DEF Keeps
  <2> QED BY <2>8
<1> QED BY <1>3, <1>4

(* What the recursive definition of Kept computes. *)
LEMMA KeptKeeps ==
    ASSUME NEW args \in Seq(Arg), NEW fails
    PROVE  \E k : Keeps(k, Len(args), args, fails)
                  /\ Kept(args, fails) = k[Len(args)]
<1> DEFINE n == Len(args)
           c == ChosenKept(n, args, fails)
<1>1. n \in Nat /\ args \in [1 .. n -> Arg] OBVIOUS
<1>2. PICK k : Keeps(k, n, args, fails) BY <1>1, KeepsExists
<1>3. k = [i \in 0 .. n |-> IF i = 0 THEN <<>>
                            ELSE IF i \in fails THEN k[i - 1]
                            ELSE Append(k[i - 1], args[i])]
  <2>1. \A i \in 0 .. n : k[i] = IF i = 0 THEN <<>>
                                 ELSE IF i \in fails THEN k[i - 1]
                                 ELSE Append(k[i - 1], args[i])
    <3>1. \A i \in 0 .. n : i # 0 => i \in 1 .. n BY <1>1
    <3>2. k[0] = <<>> BY <1>2 DEF Keeps
    <3>3. \A i \in 1 .. n : k[i] = IF i \in fails THEN k[i - 1]
                                   ELSE Append(k[i - 1], args[i])
      BY <1>2 DEF Keeps
    <3> QED BY <3>1, <3>2, <3>3, Zenon
  <2>2. k \in [0 .. n -> Seq(Arg)] BY <1>2 DEF Keeps
  <2> QED BY <2>1, <2>2
<1>4. c = [i \in 0 .. n |-> IF i = 0 THEN <<>>
                            ELSE IF i \in fails THEN c[i - 1]
                            ELSE Append(c[i - 1], args[i])]
  BY <1>3, Zenon DEF ChosenKept
<1>5. Kept(args, fails) = c[n] BY DEF Kept, ChosenKept
<1> HIDE DEF c
<1>6. \A i \in 0 .. n : c[i] = IF i = 0 THEN <<>>
                               ELSE IF i \in fails THEN c[i - 1]
                               ELSE Append(c[i - 1], args[i])
  BY <1>4, Zenon
<1>7. c \in [0 .. n -> Seq(Arg)]
  <2> DEFINE T == {i \in 0 .. n : c[i] \notin Seq(Arg)}
  <2>1. SUFFICES ASSUME T # {} PROVE FALSE BY <1>4
  <2>2. PICK i \in T : \A j \in T : i <= j
    <3>1. T \subseteq Nat OBVIOUS
    <3> HIDE DEF T
    <3> QED BY <2>1, <3>1, Least
  <2>3. i # 0
    <3>1. <<>> \in Seq(Arg) OBVIOUS
    <3> QED BY <1>6, <3>1
  <2>4. i \in 1 .. n /\ i - 1 \in 0 .. n /\ ~(i <= i - 1) BY <2>3
  <2>5. c[i - 1] \in Seq(Arg) /\ args[i] \in Arg BY <1>1, <2>2, <2>4
  <2>6. c[i] = IF i \in fails THEN c[i - 1] ELSE Append(c[i - 1], args[i])
    BY <1>6, <2>3
  <2>7. c[i] \in Seq(Arg) BY <2>5, <2>6
  <2> QED BY <2>7
<1>8. Keeps(c, n, args, fails)
  <2>1. c[0] = <<>> BY <1>1, <1>6
  <2>2. \A i \in 1 .. n : c[i] = IF i \in fails THEN c[i - 1]
                                 ELSE Append(c[i - 1], args[i])
    BY <1>6
  <2> QED BY <1>7, <2>1, <2>2 DEF Keeps
<1> QED BY <1>5, <1>8

(* The items are the first n of args, or some of them, in order. *)
Echoes(items, n, args) ==
    \E f \in [1 .. Len(items) -> 1 .. n] :
        /\ \A i, j \in 1 .. Len(items) : i < j => f[i] < f[j]
        /\ \A i \in 1 .. Len(items) : items[i] = args[f[i]]

LEMMA EchoGrows ==
    ASSUME NEW items \in Seq(Arg), NEW n \in Nat, NEW args,
           args[n + 1] \in Arg, Echoes(items, n, args)
    PROVE  /\ Echoes(items, n + 1, args)
           /\ Echoes(Append(items, args[n + 1]), n + 1, args)
<1>1. PICK f \in [1 .. Len(items) -> 1 .. n] :
        /\ \A i, j \in 1 .. Len(items) : i < j => f[i] < f[j]
        /\ \A i \in 1 .. Len(items) : items[i] = args[f[i]]
  BY DEF Echoes
<1>2. f \in [1 .. Len(items) -> 1 .. n + 1]
  <2>1. 1 .. n \subseteq 1 .. n + 1 OBVIOUS
  <2> QED BY <2>1
<1>3. Echoes(items, n + 1, args) BY <1>1, <1>2 DEF Echoes
<1>4. PICK m, more : m = Len(items) /\ more = Append(items, args[n + 1]) OBVIOUS
<1>5. /\ m \in Nat /\ Len(more) = m + 1 /\ more[m + 1] = args[n + 1]
      /\ \A i \in 1 .. m : more[i] = items[i]
  BY <1>4
<1> DEFINE g == [i \in 1 .. m + 1 |-> IF i = m + 1 THEN n + 1 ELSE f[i]]
<1>6. g \in [1 .. m + 1 -> 1 .. n + 1] BY <1>2, <1>4, <1>5
<1>7. /\ g[m + 1] = n + 1
      /\ \A i \in 1 .. m + 1 : i # m + 1 =>
           i \in 1 .. m /\ g[i] = f[i] /\ f[i] \in 1 .. n
  BY <1>1, <1>4, <1>5
<1> HIDE DEF g
<1>8. \A i, j \in 1 .. m + 1 : i < j => g[i] < g[j]
  <2> SUFFICES ASSUME NEW i \in 1 .. m + 1, NEW j \in 1 .. m + 1, i < j
               PROVE  g[i] < g[j]
    OBVIOUS
  <2>1. i # m + 1 BY <1>5
  <2>2. CASE j = m + 1 BY <1>7, <2>1, <2>2
  <2>3. CASE j # m + 1
    BY <1>1, <1>4, <1>7, <2>1, <2>3
  <2> QED BY <2>2, <2>3
<1>9. \A i \in 1 .. m + 1 : more[i] = args[g[i]]
  BY <1>1, <1>4, <1>5, <1>7
<1>10. Echoes(more, n + 1, args) BY <1>5, <1>6, <1>8, <1>9 DEF Echoes
<1> QED BY <1>3, <1>4, <1>10

(* What is kept of the arguments is in their order, and all of them when    *)
(* no append has failed.                                                    *)
LEMMA KeptEchoes ==
    ASSUME NEW args \in Seq(Arg), NEW fails
    PROVE  /\ Kept(args, fails) \in Seq(Arg)
           /\ Echoes(Kept(args, fails), Len(args), args)
           /\ fails = {} => Kept(args, fails) = args
<1>1. PICK n, k : /\ n = Len(args) /\ Keeps(k, n, args, fails)
                  /\ Kept(args, fails) = k[n]
  BY KeptKeeps
<1>2. n \in Nat /\ n \in 0 .. n /\ \A i \in 1 .. n : args[i] \in Arg
  BY <1>1
<1> DEFINE Ok(i) == /\ Echoes(k[i], i, args)
                    /\ fails = {} => /\ Len(k[i]) = i
                                     /\ \A j \in 1 .. i : k[i][j] = args[j]
           T == {i \in 0 .. n : ~Ok(i)}
<1>3. T = {}
  <2>1. SUFFICES ASSUME T # {} PROVE FALSE OBVIOUS
  <2>2. PICK i \in T : \A j \in T : i <= j
    <3>1. T \subseteq Nat OBVIOUS
    <3> HIDE DEF T
    <3> QED BY <2>1, <3>1, Least
  <2>3. Ok(0)
    <3>1. k[0] = <<>> /\ Len(<<>>) = 0 BY <1>1 DEF Keeps
    <3>2. Echoes(<<>>, 0, args)
      <4> DEFINE f == [j \in 1 .. 0 |-> j]
      <4>1. f \in [1 .. 0 -> 1 .. 0] /\ \A j \in 1 .. 0 : FALSE OBVIOUS
      <4> HIDE DEF f
      <4> QED BY <3>1, <4>1 DEF Echoes
    <3> QED BY <3>1, <3>2
  <2>4. i \in 0 .. n /\ ~Ok(i) OBVIOUS
  <2>5. i # 0
    <3> HIDE DEF Ok
    <3> QED BY <2>3, <2>4
  <2>6. PICK h : h = i - 1 OBVIOUS
  <2>7. /\ h \in 0 .. n /\ h \in Nat /\ ~(i <= h) /\ i = h + 1
        /\ i \in 1 .. n
    BY <1>2, <2>4, <2>5, <2>6
  <2>8. Ok(h)
    <3> HIDE DEF Ok
    <3> QED BY <2>2, <2>7
  <2>9. /\ k[h] \in Seq(Arg) /\ args[h + 1] \in Arg
        /\ k[i] = IF i \in fails THEN k[h] ELSE Append(k[h], args[h + 1])
    BY <1>1, <1>2, <2>6, <2>7 DEF Keeps
  <2>10. Echoes(k[i], i, args) BY <2>7, <2>8, <2>9, EchoGrows
  <2>11. ASSUME fails = {}
         PROVE  Len(k[i]) = i /\ \A j \in 1 .. i : k[i][j] = args[j]
    <3>1. k[i] = Append(k[h], args[h + 1]) /\ Len(k[h]) = h
      BY <2>8, <2>9, <2>11
    <3>2. PICK q, x : q = k[h] /\ x = args[h + 1] OBVIOUS
    <3>3. q \in Seq(Arg) /\ x \in Arg /\ Len(q) = h /\ k[i] = Append(q, x)
      BY <2>9, <3>1, <3>2
    <3>4. /\ Len(k[i]) = h + 1 /\ k[i][h + 1] = x
          /\ \A j \in 1 .. h : k[i][j] = q[j]
      BY <3>3
    <3>5. \A j \in 1 .. i : j \in 1 .. h \/ j = h + 1 BY <2>7
    <3> QED BY <2>7, <2>8, <2>11, <3>2, <3>4, <3>5
  <2> QED BY <2>4, <2>10, <2>11
<1>4. Ok(n)
  <2> HIDE DEF Ok
  <2> QED BY <1>2, <1>3
<1>5. k[n] \in Seq(Arg) BY <1>1, <1>2 DEF Keeps
<1>6. fails = {} => k[n] = args
  <2> SUFFICES ASSUME fails = {} PROVE k[n] = args OBVIOUS
  <2>1. Len(k[n]) = Len(args) /\ \A j \in 1 .. Len(args) : k[n][j] = args[j]
    BY <1>1, <1>4
  <2> QED BY <1>5, <2>1
<1> QED BY <1>1, <1>4, <1>5, <1>6

EchoRight(c) ==
    /\ \E f \in [DOMAIN c.items -> DOMAIN c.args] :
         /\ \A i, j \in DOMAIN f : i < j => f[i] < f[j]
         /\ \A i \in DOMAIN f : c.items[i] = c.args[f[i]]
    /\ ~c.short => c.items = c.args

EchoInv == DOMAIN last = Thread /\ \A t \in Thread : EchoRight(last[t])

(* A call that is not a static one has nothing to echo. *)
LEMMA NothingEchoes ==
    ASSUME NEW c, c.items = <<>>, c.args = <<>> PROVE EchoRight(c)
<1> DEFINE f == [i \in DOMAIN c.items |-> i]
<1>1. DOMAIN c.items = {} OBVIOUS
<1>2. f \in [DOMAIN c.items -> DOMAIN c.args] /\ DOMAIN f = {} BY <1>1
<1> HIDE DEF f
<1> QED BY <1>1, <1>2 DEF EchoRight

LEMMA EndKeepsEcho ==
    ASSUME EchoInv, NEW t \in Thread, NEW c, Ends(t, c), EchoRight(c)
    PROVE  EchoInv'
<1>1. /\ DOMAIN last' = Thread
      /\ \A s \in Thread : last'[s] = IF s = t THEN c ELSE last[s]
  BY DEF EchoInv, Ends
<1> QED BY <1>1 DEF EchoInv

LEMMA CallEchoes ==
    ASSUME EchoInv, NEW t \in Thread, EvalStep(t) PROVE EchoInv'
<1>1. ASSUME UNCHANGED last PROVE EchoInv' BY <1>1 DEF EchoInv
<1>2. /\ Nothing.items = <<>> /\ Nothing.args = <<>>
      /\ \A x, y : /\ [Nothing EXCEPT !.path = x, !.status = y].items = <<>>
                   /\ [Nothing EXCEPT !.path = x, !.status = y].args = <<>>
                   /\ [Nothing EXCEPT !.status = y].items = <<>>
                   /\ [Nothing EXCEPT !.status = y].args = <<>>
  BY DEF Nothing
<1>3. ASSUME Ends(t, Nothing) PROVE EchoInv'
  BY <1>2, <1>3, NothingEchoes, EndKeepsEcho
<1>4. ASSUME NEW y, EndsWith(t, y) PROVE EchoInv'
  BY <1>2, <1>4, NothingEchoes, EndKeepsEcho DEF EndsWith
<1>5. ASSUME NEW f, Gated(t, f) PROVE EchoInv'
  BY <1>4, <1>5 DEF Gated, Refuses
<1>6. ASSUME NEW y, Answers(t, y) PROVE EchoInv' BY <1>4, <1>6 DEF Answers
<1>7. ASSUME Builds(t) PROVE EchoInv'
  BY <1>4, <1>6, <1>7 DEF Builds, Refuses
<1>8. ASSUME NEW f, MakesOne(t, f) PROVE EchoInv'
  BY <1>5, <1>6, <1>8 DEF MakesOne
<1>9. CASE Instantiate(t) BY <1>7, <1>9 DEF Instantiate
<1>10. CASE InstantiateCustom(t) BY <1>5, <1>7, <1>10 DEF InstantiateCustom
<1>11. CASE \E args \in Args : CallStatic(t, args)
  <2>1. PICK args \in Args : CallStatic(t, args) BY <1>11
  <2>2. CASE Gated(t, "calls") \/ \E y \in {"invalid", "nomem"} : Answers(t, y)
    BY <1>5, <1>6, <2>2
  <2>3. CASE \E fails \in SUBSET DOMAIN args :
               Ends(t, [Nothing EXCEPT !.args = args,
                          !.items = Kept(args, fails),
                          !.short = fails # {}])
    <3>1. PICK fails \in SUBSET DOMAIN args :
            Ends(t, [Nothing EXCEPT !.args = args,
                       !.items = Kept(args, fails),
                       !.short = fails # {}])
      BY <2>3
    <3>c. PICK c : c = [Nothing EXCEPT !.args = args,
                          !.items = Kept(args, fails),
                          !.short = fails # {}]
      OBVIOUS
    <3>2. /\ c.args = args /\ c.items = Kept(args, fails)
          /\ c.short <=> fails # {}
      BY <3>c DEF Nothing
    <3>3. args \in Seq(Arg) BY ArgsAssumption
    <3>4. /\ c.items \in Seq(Arg) /\ Echoes(c.items, Len(args), args)
          /\ fails = {} => c.items = args
      BY <3>2, <3>3, KeptEchoes
    <3>5. DOMAIN c.items = 1 .. Len(c.items) /\ DOMAIN c.args = 1 .. Len(args)
      BY <3>2, <3>3, <3>4
    <3>6. PICK f \in [1 .. Len(c.items) -> 1 .. Len(args)] :
            /\ \A i, j \in 1 .. Len(c.items) : i < j => f[i] < f[j]
            /\ \A i \in 1 .. Len(c.items) : c.items[i] = args[f[i]]
      BY <3>4 DEF Echoes
    <3>7. /\ f \in [DOMAIN c.items -> DOMAIN c.args]
          /\ DOMAIN f = 1 .. Len(c.items)
      BY <3>5, <3>6
    <3>8. ~c.short => c.items = c.args BY <3>2, <3>4
    <3>9. EchoRight(c) BY <3>2, <3>6, <3>7, <3>8 DEF EchoRight
    <3> QED BY <3>1, <3>c, <3>9, EndKeepsEcho
  <2> QED BY <2>1, <2>2, <2>3 DEF CallStatic
<1>12. CASE CallColon(t) \/ EvalExpression(t) \/ BuiltinFormat(t) \/ BuiltinEnv(t)
  BY <1>8, <1>12 DEF CallColon, EvalExpression, BuiltinFormat, BuiltinEnv
<1>13. CASE \E path \in Path \cup {NoPath} : CheckPath(t, path)
  <2>1. PICK path \in Path \cup {NoPath} : CheckPath(t, path) BY <1>13
  <2>2. CASE Answers(t, "invalid") BY <1>6, <2>2
  <2>3. CASE \E y : Ends(t, [Nothing EXCEPT !.path = path, !.status = y])
    BY <1>2, <2>3, NothingEchoes, EndKeepsEcho
  <2> QED BY <2>1, <2>2, <2>3 DEF CheckPath
<1>14. CASE NewContext(t) \/ ParseBegins(t) \/ ClearDiagnostics(t)
  BY <1>3, <1>14 DEF NewContext, ParseBegins, ClearDiagnostics, Ends
<1>15. CASE ParseNull(t) BY <1>6, <1>15 DEF ParseNull
<1>16. CASE ParseEnds(t) \/ \E code \in Code : ParseRecords(t, code)
  BY <1>1, <1>16 DEF ParseEnds, ParseRecords, evalVars
<1> QED
  BY <1>9, <1>10, <1>11, <1>12, <1>13, <1>14, <1>15, <1>16 DEF EvalStep

(* A static call echoes its arguments in order, and all of them when there  *)
(* was memory for all: for arguments of any number and appends that fail in *)
(* any places.                                                              *)
THEOREM ArgumentsEchoed == EvalSpec => []EchoInOrder
<1>1. EvalInit => EchoInv
  <2> SUFFICES ASSUME EvalInit PROVE EchoInv OBVIOUS
  <2>1. EchoRight(Nothing) BY NothingEchoes DEF Nothing
  <2> QED BY <2>1 DEF EvalInit, EchoInv
<1>2. ASSUME EchoInv, [EvalNext]_allVars PROVE EchoInv'
  <2>1. CASE EvalNext BY <1>2, <2>1, CallEchoes DEF EvalNext
  <2>2. CASE UNCHANGED allVars BY <1>2, <2>2 DEF EchoInv, allVars, evalVars
  <2> QED BY <1>2, <2>1, <2>2
<1>3. EchoInv => EchoInOrder BY DEF EchoInv, EchoRight, EchoInOrder
<1> QED BY <1>1, <1>2, <1>3, PTL DEF EvalSpec

-----------------------------------------------------------------------------
(* Paths.  A name is known by how many begin before it and by its text; two *)
(* paths that have the same names up to a place are the same up to there.   *)

Begins(p) == {i \in DOMAIN p : /\ p[i] # "/"
                               /\ (i = 1 \/ p[i - 1] = "/")}
Stops(p) == {i \in DOMAIN p : /\ p[i] # "/"
                              /\ (i = Len(p) \/ p[i + 1] = "/")}
Stop(p, i) == CHOOSE e \in Stops(p) :
                e >= i /\ \A d \in Stops(p) : d >= i => e <= d
Upto(p, i) == {j \in Begins(p) : j <= i}
Rank(p, i) == Cardinality(Upto(p, i))

LEMMA NamesAre ==
    ASSUME NEW p
    PROVE  Names(p) = {<<Rank(p, i), SubSeq(p, i, Stop(p, i))>> : i \in Begins(p)}
BY Zenon DEF Names, Begins, Stops, Stop, Upto, Rank

LEMMA ResolvedFacts ==
    ASSUME NEW p, Resolved(p)
    PROVE  /\ Len(p) \in Nat /\ Len(p) >= 1 /\ DOMAIN p = 1 .. Len(p)
           /\ p[1] = "/" /\ \A i \in 1 .. Len(p) : p[i] \in Char
           /\ Begins(p) \subseteq 2 .. Len(p)
           /\ \A i \in Begins(p) : p[i] # "/" /\ p[i - 1] = "/"
<1>1. p \in Seq(Char) /\ p # <<>> /\ p[1] = "/" BY DEF Resolved
<1>2. Len(p) \in Nat /\ Len(p) >= 1 /\ DOMAIN p = 1 .. Len(p)
      /\ \A i \in 1 .. Len(p) : p[i] \in Char
  BY <1>1
<1>3. \A i \in Begins(p) : i \in 1 .. Len(p) /\ i # 1 /\ p[i] # "/" /\ p[i - 1] = "/"
  BY <1>1, <1>2 DEF Begins
<1> QED BY <1>1, <1>2, <1>3

(* A name ends where no separator has come and one follows, or nothing. *)
NameTo(p, i, e) ==
    /\ e \in i .. Len(p) /\ \A j \in i .. e : p[j] # "/"
    /\ e = Len(p) \/ p[e + 1] = "/"

LEMMA NameToFacts ==
    ASSUME NEW p, Resolved(p), NEW i \in Begins(p), NEW e, NameTo(p, i, e)
    PROVE  /\ e \in i .. Len(p) /\ e \in Nat /\ i <= e /\ e <= Len(p)
           /\ \A j \in i .. e : p[j] # "/"
           /\ e # Len(p) => e + 1 \in 1 .. Len(p) /\ p[e + 1] = "/"
<1>1. Len(p) \in Nat /\ i \in 2 .. Len(p) BY ResolvedFacts
<1>2. /\ e \in i .. Len(p) /\ \A j \in i .. e : p[j] # "/"
      /\ e = Len(p) \/ p[e + 1] = "/"
  BY Zenon DEF NameTo
<1>3. e \in Nat /\ i <= e /\ e <= Len(p) BY <1>1, <1>2
<1>4. e # Len(p) => e + 1 \in 1 .. Len(p) BY <1>1, <1>3
<1> QED BY <1>2, <1>3, <1>4

LEMMA StopIs ==
    ASSUME NEW p, Resolved(p), NEW i \in Begins(p), NEW e, NameTo(p, i, e)
    PROVE  Stop(p, i) = e
<1>1. /\ Len(p) \in Nat /\ DOMAIN p = 1 .. Len(p) /\ i \in 2 .. Len(p)
  BY ResolvedFacts
<1>2. e \in Stops(p) /\ e >= i /\ e \in Nat
  <2>1. /\ e \in Nat /\ i <= e /\ e <= Len(p) /\ \A j \in i .. e : p[j] # "/"
        /\ e = Len(p) \/ p[e + 1] = "/"
    BY NameToFacts
  <2>i. i \in Nat /\ 2 <= i BY <1>1
  <2>n. Len(p) \in Nat BY <1>1
  <2>2. e \in 1 .. Len(p) /\ e \in i .. e BY <2>i, <2>n, <2>1
  <2>3. p[e] # "/" BY <2>1, <2>2
  <2> QED BY <1>1, <2>1, <2>2, <2>3 DEF Stops
<1>3. ASSUME NEW d \in Stops(p), d >= i PROVE e <= d
  <2>1. d \in 1 .. Len(p) /\ (d = Len(p) \/ p[d + 1] = "/")
    BY <1>1 DEF Stops
  <2>2. ASSUME d < e PROVE FALSE
    <3>1. e <= Len(p) /\ \A j \in i .. e : p[j] # "/" BY NameToFacts
    <3>i. i \in Nat /\ Len(p) \in Nat BY <1>1
    <3>d. d \in Nat BY <2>1
    <3>e. e \in Nat BY <1>2
    <3>2. d # Len(p) /\ d + 1 \in i .. e
      BY <1>3, <2>2, <3>1, <3>i, <3>d, <3>e
    <3> QED BY <2>1, <3>1, <3>2
  <2> QED BY <1>2, <2>1, <2>2
<1>4. ASSUME NEW d \in Stops(p), d >= i,
             \A c \in Stops(p) : c >= i => d <= c
      PROVE  d = e
  <2>1. d <= e /\ e <= d BY <1>2, <1>3, <1>4
  <2>2. d \in Nat BY <1>1 DEF Stops
  <2> QED BY <1>2, <2>1, <2>2
<1>5. \E d \in Stops(p) : d >= i /\ \A c \in Stops(p) : c >= i => d <= c
  BY <1>2, <1>3
<1> QED BY <1>4, <1>5 DEF Stop

LEMMA NameEnds ==
    ASSUME NEW p, Resolved(p), NEW i \in Begins(p)
    PROVE  NameTo(p, i, Stop(p, i))
<1>1. /\ Len(p) \in Nat /\ i \in 2 .. Len(p) /\ p[i] # "/"
  BY ResolvedFacts
<1> DEFINE T == {e \in i .. Len(p) : e = Len(p) \/ p[e + 1] = "/"}
<1>2. Len(p) \in T BY <1>1
<1>3. PICK e \in T : \A d \in T : e <= d
  <2>1. T \subseteq Nat /\ T # {} BY <1>1, <1>2
  <2> HIDE DEF T
  <2> QED BY <2>1, Least
<1>4. ASSUME NEW j \in i .. e, p[j] = "/" PROVE FALSE
  <2>1. j # i BY <1>1, <1>4
  <2>2. PICK d : d = j - 1 OBVIOUS
  <2>3. d \in i .. Len(p) /\ d + 1 = j /\ ~(e <= d) BY <1>1, <1>3, <2>1, <2>2
  <2>4. d \in T BY <1>4, <2>3
  <2> QED BY <1>3, <2>3, <2>4
<1>5. NameTo(p, i, e) BY <1>3, <1>4 DEF NameTo
<1> QED BY <1>5, StopIs

LEMMA RankNat ==
    ASSUME NEW p, Resolved(p), NEW i PROVE Rank(p, i) \in Nat
<1>1. Len(p) \in Nat /\ Begins(p) \subseteq 2 .. Len(p) BY ResolvedFacts
<1>2. IsFiniteSet(1 .. Len(p)) BY <1>1, FS_Interval
<1>3. Upto(p, i) \subseteq 1 .. Len(p) BY <1>1 DEF Upto
<1> QED BY <1>2, <1>3, FS_Subset, FS_CardinalityType DEF Rank

(* The rank tells the names of a path apart. *)
LEMMA RankGrows ==
    ASSUME NEW p, Resolved(p), NEW i \in Begins(p), NEW j, j \in 1 .. i - 1
    PROVE  Rank(p, j) < Rank(p, i)
<1>1. Len(p) \in Nat /\ Begins(p) \subseteq 2 .. Len(p) BY ResolvedFacts
<1>2. IsFiniteSet(Upto(p, i))
  <2>1. IsFiniteSet(1 .. Len(p)) BY <1>1, FS_Interval
  <2>2. Upto(p, i) \subseteq 1 .. Len(p) BY <1>1 DEF Upto
  <2> QED BY <2>1, <2>2, FS_Subset
<1>3. i \in Int /\ j < i BY <1>1
<1>4. Upto(p, j) \subseteq Upto(p, i) BY <1>1, <1>3 DEF Upto
<1>5. i \in Upto(p, i) /\ i \notin Upto(p, j) BY <1>3 DEF Upto
<1>6. Upto(p, j) # Upto(p, i) BY <1>5
<1> QED BY <1>2, <1>4, <1>6, FS_Subset, FS_CardinalityType DEF Rank

LEMMA RankTells ==
    ASSUME NEW p, Resolved(p), NEW i \in Begins(p), NEW j \in Begins(p),
           Rank(p, i) = Rank(p, j)
    PROVE  i = j
<1>1. Len(p) \in Nat /\ Begins(p) \subseteq 2 .. Len(p) BY ResolvedFacts
<1>2. i \in Nat /\ j \in Nat /\ i >= 2 /\ j >= 2 BY <1>1
<1>3. ~(i < j)
  <2>1. i < j => i \in 1 .. j - 1 BY <1>2
  <2>2. i < j => Rank(p, i) < Rank(p, j) BY <2>1, RankGrows
  <2>3. Rank(p, i) < Rank(p, j) => FALSE
    <3>1. Rank(p, i) \in Nat BY RankNat
    <3> QED BY <3>1
  <2> QED BY <2>2, <2>3
<1>4. ~(j < i)
  <2>1. j < i => j \in 1 .. i - 1 BY <1>2
  <2>2. j < i => Rank(p, j) < Rank(p, i) BY <2>1, RankGrows
  <2>3. Rank(p, j) < Rank(p, i) => FALSE
    <3>1. Rank(p, i) \in Nat BY RankNat
    <3> QED BY <3>1
  <2> QED BY <2>2, <2>3
<1> QED BY <1>2, <1>3, <1>4

(* Slices, character by character. *)
LEMMA SliceEqual ==
    ASSUME NEW p \in Seq(Char), NEW q \in Seq(Char),
           NEW i \in Int, NEW e \in Int, 1 <= i, i <= e,
           e <= Len(p), e <= Len(q), \A k \in i .. e : q[k] = p[k]
    PROVE  SubSeq(q, i, e) = SubSeq(p, i, e)
<1>1. /\ SubSeq(q, i, e) \in Seq(Char) /\ Len(SubSeq(q, i, e)) = e - i + 1
      /\ \A k \in 1 .. e - i + 1 : SubSeq(q, i, e)[k] = q[i + k - 1]
  OBVIOUS
<1>2. /\ SubSeq(p, i, e) \in Seq(Char) /\ Len(SubSeq(p, i, e)) = e - i + 1
      /\ \A k \in 1 .. e - i + 1 : SubSeq(p, i, e)[k] = p[i + k - 1]
  OBVIOUS
<1>3. ASSUME NEW k \in 1 .. e - i + 1 PROVE q[i + k - 1] = p[i + k - 1]
  <2>1. i + k - 1 \in i .. e OBVIOUS
  <2> QED BY <2>1
<1> QED BY <1>1, <1>2, <1>3, SeqEqual

LEMMA SliceTells ==
    ASSUME NEW p \in Seq(Char), NEW q \in Seq(Char),
           NEW i \in Int, NEW d \in Int, NEW e \in Int, 1 <= i, i <= d, i <= e,
           d <= Len(q), e <= Len(p), SubSeq(q, i, d) = SubSeq(p, i, e)
    PROVE  d = e /\ \A k \in i .. e : q[k] = p[k]
<1>1. /\ Len(SubSeq(q, i, d)) = d - i + 1
      /\ \A k \in 1 .. d - i + 1 : SubSeq(q, i, d)[k] = q[i + k - 1]
  OBVIOUS
<1>2. /\ Len(SubSeq(p, i, e)) = e - i + 1
      /\ \A k \in 1 .. e - i + 1 : SubSeq(p, i, e)[k] = p[i + k - 1]
  OBVIOUS
<1>3. d = e BY <1>1, <1>2
<1>4. ASSUME NEW k \in i .. e PROVE q[k] = p[k]
  <2>1. PICK h : h = k - i + 1 OBVIOUS
  <2>2. h \in 1 .. e - i + 1 /\ i + h - 1 = k BY <2>1
  <2> QED BY <1>1, <1>2, <1>3, <2>2
<1> QED BY <1>3, <1>4

(* The two paths are the same up to m. *)
SameUpto(p, q, m) ==
    /\ m <= Len(p) /\ m <= Len(q)
    /\ \A i \in 1 .. m : p[i] = q[i]

LEMMA SameNames ==
    ASSUME NEW p, NEW q, Resolved(p), Resolved(q), NEW m \in Nat,
           SameUpto(p, q, m), NEW i \in 1 .. m
    PROVE  /\ i \in Begins(p) <=> i \in Begins(q)
           /\ Rank(p, i) = Rank(q, i)
<1>1. /\ Len(p) \in Nat /\ DOMAIN p = 1 .. Len(p)
      /\ Len(q) \in Nat /\ DOMAIN q = 1 .. Len(q)
  BY ResolvedFacts
<1>2. ASSUME NEW j \in 1 .. m PROVE j \in Begins(p) <=> j \in Begins(q)
  <2>1. j \in DOMAIN p /\ j \in DOMAIN q BY <1>1 DEF SameUpto
  <2>2. p[j] = q[j] BY DEF SameUpto
  <2>3. j # 1 => p[j - 1] = q[j - 1]
    <3>1. j # 1 => j - 1 \in 1 .. m OBVIOUS
    <3> QED BY <3>1 DEF SameUpto
  <2> QED BY <2>1, <2>2, <2>3 DEF Begins
<1>3. \A j \in Begins(p) \cup Begins(q) : j <= i => j \in 1 .. m
  BY <1>1 DEF Begins
<1>4. Upto(p, i) = Upto(q, i) BY <1>2, <1>3 DEF Upto
<1> QED BY <1>2, <1>4 DEF Rank

(* Any place of a path that is no separator is in a name. *)
LEMMA NameAround ==
    ASSUME NEW p, Resolved(p), NEW j \in 1 .. Len(p), p[j] # "/"
    PROVE  \E b \in Begins(p) : b <= j /\ \A x \in b .. j : p[x] # "/"
<1>1. Len(p) \in Nat /\ DOMAIN p = 1 .. Len(p) /\ p[1] = "/" BY ResolvedFacts
<1> DEFINE T == {d \in 0 .. j - 1 : p[j - d] = "/"}
<1>2. j - 1 \in T BY <1>1
<1>3. PICK d \in T : \A e \in T : d <= e
  <2>1. T \subseteq Nat OBVIOUS
  <2>2. T # {} BY <1>2
  <2> HIDE DEF T
  <2> QED BY <2>1, <2>2, Least
<1>4. d \in 0 .. j - 1 /\ p[j - d] = "/" OBVIOUS
<1>5. d # 0 BY <1>4
<1>6. PICK b : b = j - d + 1 OBVIOUS
<1>7. b \in 2 .. j /\ b - 1 = j - d BY <1>4, <1>5, <1>6
<1>8. ASSUME NEW x \in b .. j, p[x] = "/" PROVE FALSE
  <2>1. PICK e : e = j - x OBVIOUS
  <2>2. e \in 0 .. j - 1 /\ j - e = x /\ ~(d <= e) BY <1>4, <1>6, <1>7, <2>1
  <2>3. e \in T BY <1>8, <2>2
  <2> QED BY <1>3, <2>2, <2>3
<1>9. b \in Begins(p)
  <2>1. b \in DOMAIN p /\ p[b] # "/" BY <1>1, <1>7, <1>8
  <2> QED BY <1>4, <1>7, <2>1 DEF Begins
<1> QED BY <1>7, <1>8, <1>9

(* A path inside a directory has the names of the directory, unless a       *)
(* backslash was taken for the end of its last name.                        *)
LEMMA InsideHasNames ==
    ASSUME NEW p, NEW q, Resolved(p), Resolved(q), Inside(p, q), ~Blurred(p, q)
    PROVE  Names(p) \subseteq Names(q)
<1>1. /\ Len(p) \in Nat /\ DOMAIN p = 1 .. Len(p) /\ Len(p) >= 1
      /\ Len(q) \in Nat /\ DOMAIN q = 1 .. Len(q)
      /\ \A i \in 1 .. Len(q) : q[i] \in Char
      /\ Begins(p) \subseteq 2 .. Len(p)
  BY ResolvedFacts
<1>2. Len(p) <= Len(q) /\ SubSeq(q, 1, Len(p)) = p BY DEF Inside
<1>3. SameUpto(p, q, Len(p))
  <2>1. \A i \in 1 .. Len(p) : SubSeq(q, 1, Len(p))[i] = q[i]
    <3>1. q \in Seq(Char) BY DEF Resolved
    <3> QED BY <1>1, <1>2, <3>1
  <2> QED BY <1>1, <1>2, <2>1 DEF SameUpto
<1>4. ASSUME NEW i \in Begins(p)
      PROVE  /\ i \in Begins(q) /\ Rank(q, i) = Rank(p, i)
             /\ SubSeq(q, i, Stop(q, i)) = SubSeq(p, i, Stop(p, i))
  <2>1. i \in 1 .. Len(p) /\ i >= 2 BY <1>1
  <2>2. i \in Begins(q) /\ Rank(q, i) = Rank(p, i) BY <1>1, <1>3, <2>1, SameNames
  <2>3. PICK e : e = Stop(p, i) OBVIOUS
  <2>4. NameTo(p, i, e) BY <2>3, NameEnds
  <2>5. e \in i .. Len(p) /\ \A j \in i .. e : j \in 1 .. Len(p)
    BY <2>1, <2>4 DEF NameTo
  <2>6. \A j \in i .. e : q[j] = p[j] /\ q[j] # "/"
    BY <1>3, <2>4, <2>5 DEF SameUpto, NameTo
  <2>7. e = Len(q) \/ q[e + 1] = "/"
    <3>1. CASE e < Len(p)
      <4>1. e + 1 \in 1 .. Len(p) /\ p[e + 1] = "/"
        BY <1>1, <2>4, <3>1, NameToFacts
      <4> QED BY <1>3, <4>1 DEF SameUpto
    <3>2. CASE e = Len(p) /\ Len(p) < Len(q)
      <4>1. p[Len(p)] # "/" BY <1>1, <2>4, <2>5, <3>2 DEF NameTo
      <4>2. p[Len(p)] # "\\" /\ q[Len(p) + 1] # "\\"
        BY <3>2 DEF Blurred
      <4> QED BY <1>1, <3>2, <4>1, <4>2 DEF Inside, Separator
    <3>3. e <= Len(p) /\ e \in Nat BY <2>4, NameToFacts
    <3>4. Len(p) \in Nat /\ Len(q) \in Nat /\ Len(p) <= Len(q)
      BY <1>1, <1>2
    <3>5. ~(e < Len(p)) => e = Len(p) BY <3>3, <3>4
    <3>6. ~(Len(p) < Len(q)) => Len(p) = Len(q) BY <3>4
    <3> QED BY <3>1, <3>2, <3>5, <3>6
  <2>8. NameTo(q, i, e)
    <3>1. e \in i .. Len(q) BY <1>1, <1>2, <2>5
    <3> QED BY <2>6, <2>7, <3>1 DEF NameTo
  <2>9. Stop(q, i) = e BY <2>2, <2>8, StopIs
  <2>10. SubSeq(q, i, e) = SubSeq(p, i, e)
    <3>1. i \in Int /\ e \in Int BY <1>1, <2>1, <2>5
    <3> QED BY <2>6, <3>1, SliceEqual
  <2> QED BY <2>2, <2>3, <2>9, <2>10
<1> QED BY <1>4, NamesAre

(* A path that has a name of the other has it at the same place, as far as  *)
(* the two are the same before it.                                          *)
LEMMA NameFound ==
    ASSUME NEW p, NEW q, Resolved(p), Resolved(q), Names(p) \subseteq Names(q),
           NEW i \in Begins(p), SameUpto(p, q, i - 1)
    PROVE  /\ i \in Begins(q) /\ Stop(q, i) = Stop(p, i)
           /\ SameUpto(p, q, Stop(p, i))
<1>1. /\ Len(p) \in Nat /\ DOMAIN p = 1 .. Len(p) /\ Len(p) >= 1
      /\ Len(q) \in Nat /\ DOMAIN q = 1 .. Len(q)
      /\ Begins(p) \subseteq 2 .. Len(p) /\ Begins(q) \subseteq 2 .. Len(q)
      /\ \A j \in Begins(p) : p[j - 1] = "/"
      /\ \A j \in Begins(q) : q[j - 1] = "/"
  BY ResolvedFacts
<1>2. PICK j \in Begins(q) :
        /\ Rank(q, j) = Rank(p, i)
        /\ SubSeq(q, j, Stop(q, j)) = SubSeq(p, i, Stop(p, i))
  <2>1. <<Rank(p, i), SubSeq(p, i, Stop(p, i))>> \in Names(q) BY NamesAre
  <2> QED BY <2>1, NamesAre
<1>3. i \in Nat /\ j \in Nat /\ i >= 2 /\ j >= 2 /\ i <= Len(p) /\ j <= Len(q)
  BY <1>1
<1>4. i - 1 \in Nat /\ i - 1 \in 1 .. i - 1 BY <1>3
<1>5. ~(j < i)
  <2> SUFFICES ASSUME j < i PROVE FALSE OBVIOUS
  <2>1. j \in 1 .. i - 1 BY <1>3
  <2>2. j \in Begins(p) /\ Rank(p, j) = Rank(q, j) BY <1>4, <2>1, SameNames
  <2>3. j = i BY <1>2, <2>2, RankTells
  <2> QED BY <1>3, <2>3
<1>6. i \in Begins(q)
  <2>1. i \in 1 .. Len(q) BY <1>3, <1>5
  <2>2. q[i - 1] = "/"
    <3>1. p[i - 1] = q[i - 1] BY <1>4 DEF SameUpto
    <3> QED BY <1>1, <3>1
  <2>3. q[i] # "/"
    <3>1. CASE i = j BY <3>1, ResolvedFacts
    <3>2. CASE i # j
      <4>1. i \in 2 .. Len(q) BY <1>3, <2>1
      <4> QED BY <2>2, <4>1 DEF Resolved
    <3> QED BY <3>1, <3>2
  <2> QED BY <1>1, <2>1, <2>2, <2>3 DEF Begins
<1>7. Rank(q, i) = Rank(p, i)
  <2>1. Upto(p, i) = Upto(p, i - 1) \cup {i}
    BY <1>1, <1>3 DEF Upto
  <2>2. Upto(q, i) = Upto(q, i - 1) \cup {i}
    BY <1>1, <1>3, <1>6 DEF Upto
  <2>3. Upto(p, i - 1) = Upto(q, i - 1)
    <3>1. \A k \in 1 .. i - 1 : k \in Begins(p) <=> k \in Begins(q)
      BY <1>4, SameNames
    <3>2. \A k \in Begins(p) \cup Begins(q) : k <= i - 1 => k \in 1 .. i - 1
      BY <1>1, <1>3
    <3> QED BY <3>1, <3>2 DEF Upto
  <2> QED BY <2>1, <2>2, <2>3 DEF Rank
<1>8. j = i BY <1>2, <1>6, <1>7, RankTells
<1>9. PICK d, e : d = Stop(q, i) /\ e = Stop(p, i) OBVIOUS
<1>10. NameTo(p, i, e) /\ NameTo(q, i, d) BY <1>6, <1>9, NameEnds
<1>11. /\ e \in i .. Len(p) /\ d \in i .. Len(q)
       /\ e \in Int /\ d \in Int /\ i \in Int
  <2>1. e \in i .. Len(p) /\ e \in Nat BY <1>10, NameToFacts
  <2>2. d \in i .. Len(q) /\ d \in Nat BY <1>6, <1>10, NameToFacts
  <2> QED BY <1>3, <2>1, <2>2
<1>12. SubSeq(q, i, d) = SubSeq(p, i, e) BY <1>2, <1>8, <1>9
<1>13. d = e /\ \A k \in i .. e : q[k] = p[k]
  <2>1. i <= d /\ i <= e /\ 1 <= i /\ d <= Len(q) /\ e <= Len(p)
    BY <1>3, <1>11
  <2>2. p \in Seq(Char) /\ q \in Seq(Char) BY DEF Resolved
  <2>3. e \in Int /\ d \in Int /\ i \in Int BY <1>11
  <2> QED BY <1>12, <2>1, <2>2, <2>3, SliceTells
<1>14. SameUpto(p, q, e)
  <2>1. \A k \in 1 .. e : k \in 1 .. i - 1 \/ k \in i .. e BY <1>3, <1>11
  <2>2. e <= Len(p) /\ e <= Len(q) BY <1>11, <1>13
  <2> QED BY <1>13, <2>1, <2>2 DEF SameUpto
<1> QED BY <1>6, <1>9, <1>13, <1>14

(* A path that has the names of a directory is inside of it. *)
LEMMA NamesAreInside ==
    ASSUME NEW p, NEW q, Resolved(p), Resolved(q), Names(p) \subseteq Names(q)
    PROVE  Inside(p, q)
<1>1. /\ Len(p) \in Nat /\ DOMAIN p = 1 .. Len(p) /\ Len(p) >= 1
      /\ Len(q) \in Nat /\ DOMAIN q = 1 .. Len(q) /\ Len(q) >= 1
      /\ Begins(p) \subseteq 2 .. Len(p)
      /\ p[1] = "/" /\ q[1] = "/"
  BY ResolvedFacts
<1> DEFINE T == {i \in 1 .. Len(p) : ~(i <= Len(q) /\ p[i] = q[i])}
<1>2. T = {}
  <2>1. SUFFICES ASSUME T # {} PROVE FALSE OBVIOUS
  <2>2. PICK i \in T : \A j \in T : i <= j
    <3>1. T \subseteq Nat OBVIOUS
    <3> HIDE DEF T
    <3> QED BY <2>1, <3>1, Least
  <2>3. i \in 1 .. Len(p) /\ ~(i <= Len(q) /\ p[i] = q[i]) OBVIOUS
  <2>4. i >= 2 BY <1>1, <2>3
  <2>5. ASSUME NEW j \in 1 .. i - 1 PROVE j <= Len(q) /\ p[j] = q[j]
    <3>1. j \in 1 .. Len(p) /\ ~(i <= j) BY <2>3
    <3>2. j \notin T BY <2>2, <3>1
    <3> QED BY <3>1, <3>2
  <2> HIDE DEF T
  <2>6. SameUpto(p, q, i - 1) /\ i - 1 \in 1 .. i - 1
    <3>1. i - 1 \in 1 .. i - 1 BY <2>3, <2>4
    <3>2. i - 1 <= Len(q) /\ i - 1 <= Len(p) BY <1>1, <2>3, <2>5, <3>1
    <3> QED BY <2>5, <3>1, <3>2 DEF SameUpto
  <2>7. CASE p[i - 1] = "/"
    <3>1. p[i] # "/"
      <4>1. i \in 2 .. Len(p) BY <2>3, <2>4
      <4> QED BY <2>7, <4>1 DEF Resolved
    <3>2. i \in Begins(p) BY <1>1, <2>3, <2>7, <3>1 DEF Begins
    <3>3. SameUpto(p, q, Stop(p, i)) BY <2>6, <3>2, NameFound
    <3>4. Stop(p, i) \in i .. Len(p) BY <3>2, NameEnds DEF NameTo
    <3>5. i \in 1 .. Stop(p, i) BY <2>3, <3>4
    <3>6. i <= Len(q) BY <1>1, <2>3, <3>3, <3>4 DEF SameUpto
    <3> QED BY <2>3, <3>3, <3>5, <3>6 DEF SameUpto
  <2>8. CASE p[i - 1] # "/"
    <3>1. i - 1 \in 1 .. Len(p) BY <2>3, <2>4
    <3>2. PICK b \in Begins(p) : b <= i - 1 /\ \A x \in b .. i - 1 : p[x] # "/"
      BY <2>8, <3>1, NameAround
    <3>3. b \in Nat /\ b >= 2 BY <1>1, <3>2
    <3>4. SameUpto(p, q, b - 1)
      <4>1. \A j \in 1 .. b - 1 : j \in 1 .. i - 1 BY <2>3, <3>2, <3>3
      <4>2. b - 1 <= Len(p) /\ b - 1 <= Len(q)
        BY <1>1, <2>3, <2>6, <3>2, <3>3 DEF SameUpto
      <4> QED BY <2>6, <4>1, <4>2 DEF SameUpto
    <3>5. PICK e : e = Stop(p, b) OBVIOUS
    <3>6. /\ b \in Begins(q) /\ Stop(q, b) = e /\ SameUpto(p, q, e)
          /\ NameTo(p, b, e) /\ NameTo(q, b, e)
      BY <3>2, <3>4, <3>5, NameFound, NameEnds
    <3>7. /\ e \in b .. Len(p) /\ e \in b .. Len(q) /\ e \in Nat
          /\ e # Len(p) => p[e + 1] = "/"
          /\ e # Len(q) => e + 1 \in 1 .. Len(q) /\ q[e + 1] = "/"
      <4>1. b \in Begins(q) /\ NameTo(q, b, e) BY <3>6
      <4>2. NameTo(p, b, e) BY <3>6
      <4> QED BY <4>1, <4>2, NameToFacts
    <3>8. CASE e >= i
      <4>i. i \in Nat /\ 1 <= i BY <2>3
      <4>e. e \in Nat BY <3>7
      <4>n. Len(q) \in Nat BY <1>1
      <4>q. e <= Len(q) BY <3>3, <3>7, <4>e, <4>n
      <4>1. i \in 1 .. e /\ i <= Len(q)
        BY <3>8, <4>i, <4>e, <4>n, <4>q
      <4> QED BY <2>3, <3>6, <4>1 DEF SameUpto
    <3>9. CASE e < i
      <4>1. e = i - 1
        <5>1. CASE e < i - 1
          <6>i. i \in Nat /\ i <= Len(p) BY <2>3
          <6>e. e \in Nat /\ b <= e BY <3>7
          <6>n. Len(p) \in Nat BY <1>1
          <6>2. e + 1 \in b .. i - 1 /\ e # Len(p)
            BY <3>3, <5>1, <6>i, <6>e, <6>n
          <6> QED BY <3>2, <3>7, <6>2
        <5> QED BY <2>3, <3>7, <3>9, <5>1
      <4>2. e + 1 = i BY <2>3, <4>1
      <4>3. p[i] = "/"
        <5>i. i \in Nat /\ i <= Len(p) BY <2>3
        <5>e. e \in Nat /\ Len(p) \in Nat BY <1>1, <3>7
        <5>1. e # Len(p) BY <3>9, <5>i, <5>e
        <5> QED BY <3>7, <4>2, <5>1
      <4>4. q[i] # "/" \/ ~(i <= Len(q)) BY <2>3, <4>3
      <4>5. e = Len(q)
        <5> SUFFICES ASSUME e # Len(q) PROVE FALSE OBVIOUS
        <5>1. i \in 1 .. Len(q) /\ q[i] = "/" BY <3>7, <4>2
        <5> QED BY <1>1, <4>4, <5>1
      <4>6. i \in 2 .. Len(p) BY <2>3, <2>4
      <4>7. i # Len(p) BY <4>3, <4>6 DEF Resolved
      <4>8. PICK h : h = i + 1 OBVIOUS
      <4>9. h \in 2 .. Len(p) /\ h - 1 = i
        <5>1. i \in Nat /\ 2 <= i /\ i <= Len(p) BY <4>6
        <5>2. Len(p) \in Nat BY <1>1
        <5>3. i < Len(p) BY <4>7, <5>1, <5>2
        <5> QED BY <4>8, <5>1, <5>2, <5>3
      <4>10. h \in Begins(p)
        <5>1. p[h] # "/" BY <4>3, <4>9 DEF Resolved
        <5>2. h \in DOMAIN p BY <1>1, <4>9
        <5> QED BY <4>3, <4>9, <5>1, <5>2 DEF Begins
      <4>11. PICK j \in Begins(q) : Rank(q, j) = Rank(p, h)
        <5>1. <<Rank(p, h), SubSeq(p, h, Stop(p, h))>> \in Names(q)
          BY <4>10, NamesAre
        <5> QED BY <5>1, NamesAre
      <4>12. j \in 1 .. e
        <5>1. Begins(q) \subseteq 2 .. Len(q) BY ResolvedFacts
        <5> QED BY <4>5, <4>11, <5>1
      <4>13. j \in Begins(p) /\ Rank(p, j) = Rank(q, j)
        BY <3>6, <3>7, <4>11, <4>12, SameNames
      <4>14. j = h BY <4>10, <4>11, <4>13, RankTells
      <4> QED BY <2>3, <3>7, <4>2, <4>8, <4>12, <4>14
    <3> QED BY <2>3, <3>7, <3>8, <3>9
  <2> QED BY <2>7, <2>8
<1>3. SameUpto(p, q, Len(p))
  <2>1. \A i \in 1 .. Len(p) : i <= Len(q) /\ p[i] = q[i] BY <1>2
  <2>2. Len(p) \in 1 .. Len(p) BY <1>1
  <2> QED BY <1>1, <2>1, <2>2 DEF SameUpto
<1> HIDE DEF T
<1>4. SubSeq(q, 1, Len(p)) = p
  <2>1. p \in Seq(Char) /\ q \in Seq(Char) BY DEF Resolved
  <2>2. SubSeq(q, 1, Len(p)) = SubSeq(p, 1, Len(p))
    BY <1>1, <1>3, SliceEqual DEF SameUpto
  <2>3. SubSeq(p, 1, Len(p)) = p BY <1>1, <2>1
  <2> QED BY <2>2, <2>3
<1>5. CASE p[Len(p)] = "/"
  BY <1>3, <1>4, <1>5 DEF Inside, Separator, SameUpto
<1>6. CASE p[Len(p)] # "/"
  <2>1. Len(p) \in 1 .. Len(p) BY <1>1
  <2>2. PICK b \in Begins(p) :
          b <= Len(p) /\ \A x \in b .. Len(p) : p[x] # "/"
    BY <1>6, <2>1, NameAround
  <2>3. b \in Nat /\ b >= 2 BY <1>1, <2>2
  <2>4. NameTo(p, b, Len(p)) BY <1>1, <2>2, <2>3 DEF NameTo
  <2>5. Stop(p, b) = Len(p) BY <2>2, <2>4, StopIs
  <2>6. SameUpto(p, q, b - 1)
    <3>1. \A j \in 1 .. b - 1 : j \in 1 .. Len(p) BY <1>1, <2>2, <2>3
    <3>2. b - 1 <= Len(p) /\ b - 1 <= Len(q)
      BY <1>1, <1>3, <2>2, <2>3 DEF SameUpto
    <3> QED BY <1>3, <3>1, <3>2 DEF SameUpto
  <2>7. NameTo(q, b, Len(p)) BY <2>2, <2>5, <2>6, NameFound, NameEnds
  <2>8. Len(p) = Len(q) \/ q[Len(p) + 1] = "/" BY <2>7 DEF NameTo
  <2> QED BY <1>3, <1>4, <2>8 DEF Inside, Separator, SameUpto
<1> QED BY <1>5, <1>6

(* The check of a path, as cco_sandbox_check_path makes it, is that of the  *)
(* names on the way to it, but for backslashes.                             *)
LEMMA InsideIsOnTheWay ==
    ASSUME NEW base \in Path, NEW path \in Path
    PROVE  /\ Names(base) \subseteq Names(path) => Inside(base, path)
           /\ Inside(base, path) =>
                Names(base) \subseteq Names(path) \/ Blurred(base, path)
<1>1. Resolved(base) /\ Resolved(path) BY PathAssumption
<1> QED BY <1>1, InsideHasNames, NamesAreInside

(* A verdict is right for the options it was given under. *)
VerdictRight(call, o) ==
    NoPath \notin {o.base, call.path} /\ o.restrict =>
        /\ Names(o.base) \subseteq Names(call.path) => call.status = OK
        /\ call.status = OK => \/ Names(o.base) \subseteq Names(call.path)
                               \/ Blurred(o.base, call.path)

(* The options of a thread do not change while its last verdict stands. *)
SandboxInv ==
    /\ DOMAIN last = Thread
    /\ opts \in [Thread -> Options]
    /\ \A t \in Thread : VerdictRight(last[t], opts[t])

LEMMA EndKeepsVerdict ==
    ASSUME SandboxInv, NEW t \in Thread, NEW call, Ends(t, call),
           UNCHANGED opts, VerdictRight(call, opts[t])
    PROVE  SandboxInv'
<1>1. /\ DOMAIN last' = Thread /\ last'[t] = call
      /\ \A s \in Thread : s # t => last'[s] = last[s]
  BY DEF SandboxInv, Ends
<1>2. opts' = opts OBVIOUS
<1>3. ASSUME NEW s \in Thread PROVE VerdictRight(last'[s], opts'[s])
  <2>1. CASE s = t BY <1>1, <1>2, <2>1
  <2>2. CASE s # t BY <1>1, <1>2, <2>2 DEF SandboxInv
  <2> QED BY <2>1, <2>2
<1> QED BY <1>1, <1>2, <1>3 DEF SandboxInv, VerdictRight

LEMMA NoPathIsRight ==
    ASSUME NEW call, NEW o, call.path = NoPath PROVE VerdictRight(call, o)
BY DEF VerdictRight

LEMMA CheckVerdict ==
    ASSUME SandboxInv, NEW t \in Thread, NEW path \in Path \cup {NoPath},
           CheckPath(t, path)
    PROVE  SandboxInv'
<1>1. UNCHANGED opts BY DEF CheckPath, Idle, Same
<1>2. CASE Answers(t, "invalid")
  <2>1. PICK call : call = [Nothing EXCEPT !.status = "invalid"] OBVIOUS
  <2>2. call.path = NoPath BY <2>1 DEF Nothing
  <2> QED BY <1>1, <1>2, <2>1, <2>2, NoPathIsRight, EndKeepsVerdict
      DEF Answers, EndsWith
<1> DEFINE base == opts[t].base
           passes == opts[t].restrict =>
                       NoPath \notin {base, path} /\ Inside(base, path)
           code == IF passes THEN OK ELSE Forbidden
<1>3. CASE Ends(t, [Nothing EXCEPT !.path = path, !.status = code])
  <2>1. PICK call : call = [Nothing EXCEPT !.path = path, !.status = code]
    OBVIOUS
  <2>2. call.path = path /\ call.status = code BY <2>1 DEF Nothing
  <2>3. OK # Forbidden BY CodesAssumption
  <2>4. base \in Path \cup {NoPath} BY OptionsAssumption DEF SandboxInv
  <2>5. ASSUME path # NoPath, base # NoPath
        PROVE  /\ Names(base) \subseteq Names(path) => Inside(base, path)
               /\ Inside(base, path) =>
                    Names(base) \subseteq Names(path) \/ Blurred(base, path)
    BY <2>4, <2>5, InsideIsOnTheWay
  <2>6. VerdictRight(call, opts[t])
    <3> SUFFICES ASSUME path # NoPath, base # NoPath, opts[t].restrict
                 PROVE  /\ Names(base) \subseteq Names(path) => code = OK
                        /\ code = OK => \/ Names(base) \subseteq Names(path)
                                        \/ Blurred(base, path)
      BY <2>2 DEF VerdictRight
    <3>1. code = OK <=> passes BY <2>3
    <3>2. passes <=> Inside(base, path) OBVIOUS
    <3> QED BY <2>5, <3>1, <3>2
  <2> QED BY <1>1, <1>3, <2>1, <2>6, EndKeepsVerdict
<1> QED BY <1>2, <1>3 DEF CheckPath

LEMMA CallVerdict ==
    ASSUME SandboxInv, NEW t \in Thread, EvalStep(t) PROVE SandboxInv'
<1>1. ASSUME UNCHANGED <<last, opts>> PROVE SandboxInv'
  BY <1>1 DEF SandboxInv, VerdictRight
<1>2. ASSUME NEW call, Ends(t, call), UNCHANGED opts, call.path = NoPath
      PROVE  SandboxInv'
  BY <1>2, NoPathIsRight, EndKeepsVerdict
<1>3. /\ Nothing.path = NoPath
      /\ \A y : [Nothing EXCEPT !.status = y].path = NoPath
      /\ \A x, y, z : [Nothing EXCEPT !.args = x, !.items = y,
                                      !.short = z].path = NoPath
  BY DEF Nothing
<1>4. ASSUME UNCHANGED opts, NEW y, EndsWith(t, y) PROVE SandboxInv'
  BY <1>2, <1>3, <1>4 DEF EndsWith
<1>5. ASSUME UNCHANGED opts, NEW f, Gated(t, f) PROVE SandboxInv'
  BY <1>4, <1>5 DEF Gated, Refuses
<1>6. ASSUME UNCHANGED opts, NEW y, Answers(t, y) PROVE SandboxInv'
  BY <1>4, <1>6 DEF Answers
<1>7. ASSUME UNCHANGED opts, Builds(t) PROVE SandboxInv'
  BY <1>4, <1>6, <1>7 DEF Builds, Refuses
<1>8. ASSUME NEW f, MakesOne(t, f) PROVE SandboxInv'
  BY <1>5, <1>6, <1>8 DEF MakesOne, Idle, Same
<1>9. CASE Instantiate(t) BY <1>7, <1>9 DEF Instantiate, Idle, Same
<1>10. CASE InstantiateCustom(t)
  BY <1>5, <1>7, <1>10 DEF InstantiateCustom, Idle, Same
<1>11. CASE \E args \in Args : CallStatic(t, args)
  <2>1. PICK args \in Args : CallStatic(t, args) BY <1>11
  <2>2. UNCHANGED opts BY <2>1 DEF CallStatic, Idle, Same
  <2>3. CASE Gated(t, "calls") \/ \E y \in {"invalid", "nomem"} : Answers(t, y)
    BY <1>5, <1>6, <2>2, <2>3
  <2>4. CASE \E fails \in SUBSET DOMAIN args :
               Ends(t, [Nothing EXCEPT !.args = args,
                          !.items = Kept(args, fails),
                          !.short = fails # {}])
    <3>1. PICK fails \in SUBSET DOMAIN args :
            Ends(t, [Nothing EXCEPT !.args = args,
                       !.items = Kept(args, fails),
                       !.short = fails # {}])
      BY <2>4
    <3>2. PICK call : call = [Nothing EXCEPT !.args = args,
                                !.items = Kept(args, fails),
                                !.short = fails # {}]
      OBVIOUS
    <3>3. call.path = NoPath BY <3>2 DEF Nothing
    <3> QED BY <1>2, <2>2, <3>1, <3>2, <3>3
  <2> QED BY <2>1, <2>3, <2>4 DEF CallStatic
<1>12. CASE CallColon(t) \/ EvalExpression(t) \/ BuiltinFormat(t) \/ BuiltinEnv(t)
  BY <1>8, <1>12 DEF CallColon, EvalExpression, BuiltinFormat, BuiltinEnv
<1>13. CASE \E path \in Path \cup {NoPath} : CheckPath(t, path)
  BY <1>13, CheckVerdict
<1>14. CASE NewContext(t)
  <2>1. PICK o \in Options : opts' = [opts EXCEPT ![t] = o]
    BY <1>14 DEF NewContext
  <2>2. last' = [last EXCEPT ![t] = Nothing] BY <1>14 DEF NewContext
  <2>3. opts' \in [Thread -> Options] /\ DOMAIN last' = Thread
    BY <2>1, <2>2 DEF SandboxInv
  <2>4. ASSUME NEW s \in Thread PROVE VerdictRight(last'[s], opts'[s])
    <3>1. CASE s = t
      <4>1. last'[s] = Nothing BY <2>2, <3>1 DEF SandboxInv
      <4> QED BY <1>3, <4>1, NoPathIsRight
    <3>2. CASE s # t
      <4>1. last'[s] = last[s] /\ opts'[s] = opts[s]
        BY <2>1, <2>2, <3>2 DEF SandboxInv
      <4> QED BY <4>1 DEF SandboxInv
    <3> QED BY <3>1, <3>2
  <2> QED BY <2>3, <2>4 DEF SandboxInv, VerdictRight
<1>15. CASE ParseBegins(t) \/ ClearDiagnostics(t)
  BY <1>2, <1>3, <1>15 DEF ParseBegins, ClearDiagnostics, Idle, Same
<1>16. CASE ParseNull(t) BY <1>6, <1>16 DEF ParseNull, Idle, Same
<1>17. CASE ParseEnds(t) \/ \E code \in Code : ParseRecords(t, code)
  BY <1>1, <1>17 DEF ParseEnds, ParseRecords, evalVars
<1> QED
  BY <1>9, <1>10, <1>11, <1>12, <1>13, <1>14, <1>15, <1>16, <1>17
     DEF EvalStep

(* A context restricted to a base directory lets every path pass that has   *)
(* it on its way, and no other but one whose name has a backslash where the *)
(* base ends: for resolved paths of any names and any length, and whatever  *)
(* the thread did before.                                                   *)
THEOREM SandboxDecides == EvalSpec => []SandboxExact
<1>1. EvalInit => SandboxInv
  <2> SUFFICES ASSUME EvalInit PROVE SandboxInv OBVIOUS
  <2>1. Nothing.path = NoPath BY DEF Nothing
  <2>2. \A o : VerdictRight(Nothing, o) BY <2>1, NoPathIsRight
  <2>3. last = [t \in Thread |-> Nothing] /\ opts \in [Thread -> Options]
    BY DEF EvalInit
  <2> QED BY <2>2, <2>3 DEF SandboxInv
<1>2. ASSUME SandboxInv, [EvalNext]_allVars PROVE SandboxInv'
  <2>1. CASE EvalNext BY <1>2, <2>1, CallVerdict DEF EvalNext
  <2>2. CASE UNCHANGED allVars
    BY <1>2, <2>2 DEF SandboxInv, VerdictRight, allVars, evalVars
  <2> QED BY <1>2, <2>1, <2>2
<1>3. SandboxInv => SandboxExact
  BY DEF SandboxInv, VerdictRight, SandboxExact
<1> QED BY <1>1, <1>2, <1>3, PTL DEF EvalSpec
=============================================================================
