------------------------------ MODULE CcoSymtab ------------------------------
(***************************************************************************)
(* The symbol table (internal/symtab.c): names of typedefs, enums and      *)
(* templates in three intern tables.  The registering functions look at    *)
(* nothing cco_intern_string returns: they say CCO_OK when it had no       *)
(* memory.  What a name stands for is not stored, and the only cycles that *)
(* are refused are those of length one.                                    *)
(***************************************************************************)
EXTENDS CcoIntern

CONSTANT NoStr   \* the parent of a template that has none
ASSUME TableAssumption == Table = {"aliases", "enums", "templates"}
ASSUME NoStrAssumption == NoStr \notin Str

VARIABLES
    want,   \* the table and the name of the registration that is running
    kept    \* the names registered in each table for which there was memory

symtabVars == <<internVars, want, kept>>

SymtabTypeOK == /\ TypeOK
                /\ pc # "idle" => want \in Table \X Str
                /\ kept \in [Table -> SUBSET Str]

(* cco_symtab_init *)
SymtabInit == Init /\ want = NoCall /\ kept = [t \in Table |-> {}]

(* Mutant: the name of a typedef goes to the next table. *)
AddTypedef_misplaced(name, target) ==
    /\ name # target
    /\ Begin("enums", name)
    /\ want' = <<"aliases", name>>
    /\ UNCHANGED kept

(* cco_symtab_add_typedef; a refusal is a diagnostic and no step here. *)
AddTypedef(name, target) ==
    /\ name # target
    /\ Begin("aliases", name)
    /\ want' = <<"aliases", name>>
    /\ UNCHANGED kept

(* cco_symtab_add_enum *)
AddEnum(name) ==
    /\ Begin("enums", name)
    /\ want' = <<"enums", name>>
    /\ UNCHANGED kept

(* cco_symtab_add_template *)
AddTemplate(name, parent) ==
    /\ name # parent
    /\ Begin("templates", name)
    /\ want' = <<"templates", name>>
    /\ UNCHANGED kept

(* A registration says CCO_OK whatever cco_intern_string returns. *)
Registers ==
    /\ Running
    /\ IF pc' # "idle"
         THEN UNCHANGED <<want, kept>>
         ELSE /\ want' = NoCall
              /\ kept' = IF answer' = Null THEN kept
                         ELSE [kept EXCEPT ![want[1]] = @ \cup {want[2]}]

SymtabDestroy(t) ==
    /\ Destroy(t)
    /\ kept' = [kept EXCEPT ![t] = {}]
    /\ UNCHANGED want

SymtabNext ==
    \/ \E name, target \in Str : AddTypedef(name, target)
    \/ \E name \in Str : AddEnum(name)
    \/ \E name \in Str, parent \in Str \cup {NoStr} : AddTemplate(name, parent)
    \/ Registers
    \/ \E t \in Table : SymtabDestroy(t)

SymtabSpec == SymtabInit /\ [][SymtabNext]_symtabVars

-----------------------------------------------------------------------------
(* Properties *)

(* When no call is running a table has exactly the names registered in it  *)
(* for which there was memory: none is lost by a growth, by a name that    *)
(* collides with it, by a failed allocation or by another table.           *)
NamesKept ==
    pc = "idle" =>
        \A t \in Table : kept[t] = {copies[a] : a \in Known(t)}
=============================================================================
