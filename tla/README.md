# libcco in TLA+

Models, model-checking runs and proofs for libcco, a C library that parses CCO
documents into a tree of reference-counted objects. Paths below are relative to
the repository.

Run a check with `tlc -config Object.cfg MCCcoObject.tla`, a proof with
`tlapm CcoObject_proof.tla`.

## 1. The system

`cco_parse_string` builds an arena, a lexer and a parser on the stack, lets the
parser pull tokens from the lexer and build objects, and destroys all but the
objects. The caller reads the tree through getters that return borrowed
pointers, keeps parts of it with `cco_object_retain`, and gives it up with
`cco_object_release`. Everything runs on the caller's thread; diagnostics are
thread-local; reference counts are not atomic.

| Component | State | Operations | Talks to |
|---|---|---|---|
| object heap `internal/object.c` | per object: type, refcount, for containers count, capacity, items/values, keys | create, retain, release (recursive), array append, map insert, clone, equals | malloc; every other component |
| parser `internal/parser.c` | current and next token, depth, step count, last error | init, document, value, map, array, advance_token | lexer, object heap, diagnostics |
| lexer `internal/lexer.c` | position, line, column, one scratch buffer | next, and its helpers | string buffer, diagnostics |
| public API `internal/cco.c` | none of its own | parse, serialize, getters, last error | all of the above |
| diagnostics `internal/diag.c` | per thread: 64 entries, their count, the first error | clear, record, get | called by all |
| arena `internal/arena.c` | list of blocks, total, limit | init, alloc, destroy | malloc |
| string buffer `internal/strbuf.c` | data, length, capacity | init, append, appendf | arena |
| intern table `internal/hash.c` | open-addressing table of strings | init, intern, resize, destroy | arena, malloc |
| symbol table `internal/symtab.c` | three intern tables | add typedef, enum, template | intern table, diagnostics |
| inst/call/eval `internal/inst.c`, `call.c`, `eval.c` | count of instantiations | instantiate, call, evaluate behind option gates | object heap, diagnostics |
| serializer `internal/serializer.c` | indentation | serialize (recursive) | string buffer |
| sandbox `internal/sandbox.c` | none | check a path | realpath, diagnostics |
| C++ wrapper `include/cnt/cco.hpp` | one owned pointer | construct, copy, assign, destroy, type, serialize; parse | public API |

What is hard to get right, and hard to test:

* **Ownership over long sequences of calls.** Containers share items; a release
  is recursive; replacing a map entry releases the old value *before* it keeps
  the new one; an append retains, and the parser then gives its own reference up.
* **Failures between two steps.** Any allocation can fail: after one of two
  reallocs, after a growth and before the key is copied, deep inside a nested
  value whose callers see only NULL, in the middle of a string.
* **Order of detection.** The parser is one token ahead of itself: limits are
  noticed at places other than where they are passed, a lexical error is found
  before the token it follows is used, and the decoded text of the lookahead is
  written where the current text is.
* **Arithmetic.** Sizes are `size_t`; arena and buffer add before they compare.
* **Bounded tables.** 64 diagnostics, a limit of bytes, a load of three
  quarters.

What makes each component correct: counts equal references and nothing dangles
or leaks (heap); every object and key buffer has one owner on every path, the
depth is what is open, an error is final, the call returns (parser); extents are
apart and within the limit (arena); the text is what was appended (buffer); the
first error survives (diagnostics); one address per string and a search that
ends (intern table); tokens cover the text and carry its positions (lexer); what
is written reads back or is refused (serializer); the budget bounds what is made
and a refusal is told (instantiation, calls, sandbox).

## 2. The modules

| Module | Models | About |
|---|---|---|
| `CcoObject` | `object.c`, getters that hand out items | the heap, its callers' handles, the stack of a recursive release |
| `CcoClone` | clone and equals of `object.c` | extends `CcoObject` with the frames of a clone in progress |
| `CcoHandle` | `cco.hpp` | the C++ wrapper over `CcoClone`; refines it |
| `CcoObject_proof`, `CcoHandle_proof` | | inductive invariants, the wrapper's refinement |
| `CcoParser`, `CcoParser_proof` | `parser.c`, `cco_parse_string`, the lexer as the parser sees it | recursive descent with explicit frames; its inductive invariant |
| `TokenSource` | | what `CcoParser` takes for granted of the lexer |
| `CcoLexer`, `CcoLexer_proof` | `lexer.c` | a text character by character; implements `TokenSource` |
| `CcoText`, `CcoText_proof` | `serializer.c`, `cco_serialize_to_string` | trees written, and any text read, by `CcoLexer` |
| `Allocator`, `Buffer`, `Interner` | | abstract specifications of an arena, a string buffer, a set of intern tables |
| `CcoArena` | `arena.c` | implements `Allocator` |
| `CcoStrbuf`, `CcoStrbuf_proof` | `strbuf.c` over `CcoArena` | a client of the arena; implements `Buffer`; the theorems of both |
| `CcoIntern` | `hash.c` | open addressing; implements `Interner` |
| `CcoSymtab`, `CcoSymtab_proof` | `symtab.c` over `CcoIntern` | registrations; inductive invariant, refinement |
| `CcoDiag` | `diag.c` | per-thread diagnostics |
| `CcoEval`, `CcoEval_proof` | `inst.c`, `call.c`, `eval.c`, `sandbox.c`, the entry and exit of `cco_parse_string` | all that records diagnostics, over `CcoDiag`; the theorems of both |
| `MCCco*` | | constants and symmetry for TLC |

How they compose: `CcoHandle` extends `CcoClone` extends `CcoObject`; `CcoText`
extends `CcoLexer`; `CcoStrbuf` extends `CcoArena`; `CcoSymtab` extends
`CcoIntern`; `CcoEval` extends `CcoDiag`. The parser and the lexer meet in
`TokenSource`, the parser and the object heap in the rule that a caller owns
what it passes.

An operator whose name has a suffix after `_` (`PutLast_unretained`) and whose
comment says *Mutant* is a bug the code does not have: it is not part of the
specification, and stands before the definition it would replace. Every checked
property fails under at least one of them.

### CcoObject

A state is the heap (`status`, `kind`, `rc`, `count`, `capacity`, `value`,
`key`), the caller's pointer variables (`handle`) and the call in progress: the
frames of the recursive release (`stack`, with the loop index of each in
`cursor`) and a map replacement whose release has not returned yet (`pend`).
Calls that do not recurse are one step. `ReleaseItem` is one turn of the loop in
`cco_object_release`, `Free` its end; `MapReplace` and `MapReplaced` are the two
halves of `cco_map_insert` on a key that exists, with a whole release between
them. `MapInsertNoKey` and `MapInsertHalfGrown` are its two failures that change
the heap; a failed call that changes nothing is a stuttering step. A first growth
that fails halfway is one: the array it got is lost, and the map keeps its NULLs.
The search for a key hands a NULL key, which a clone may have, to `strcmp`
(`object.c:268`): a behaviour ends where that would happen (`FirstMatch`,
`Missing`). Freed addresses are reused.

`MayHold` is the caller's discipline: no container below itself. `AllowCycles`
lifts it; the code has nothing that enforces it. `PartialGrow` lets one of the
two reallocs in `cco_map_insert` fail alone; from then on the map holds a freed
pointer (`torn`), and a behaviour ends where the code would read it. In the
parser a map insert that fails leaves the map as it was (`ItemNotStored`): what
a torn map does to the release that follows is in `object_torn`. The caller of
`cco_array_append` and `cco_map_insert` owns a reference to both arguments, as
the parser does (`parser.c:90-92`, `136-137`). A template instance is destroyed
like a map and is one here.

### CcoParser

`stack` holds a frame per active `parse_value`, `parse_map`, `parse_array`, with
a program counter at each place the function calls another one; `ret` is the
last return value, `ctx` the parser context with the lexer inside. Objects are
counted (`live`), and a tree is its size and height; `keys` counts key buffers.
The document is not chosen beforehand: `Lex` offers every token the lexer could
produce next, an error of each kind, or the end. From `lexer.c` it keeps what
the parser can feel: a failed `cco_lexer_next` leaves the type the token had;
an uninitialised token has any type (`Primed`); decoding a string takes the
scratch buffer from the one before (`own`); a `$` is an identifier of no
characters that is never consumed (`stuck`). `last_error` is `ctx.err`, the
thread's first recorded error `ctx.diag`.

### CcoClone, CcoHandle

A clone is one step per item, with a stack of frames. The clone of an item may
find no memory, and so may the copy of a key: the copy keeps a NULL there and is
returned all the same (`object.c:127`, `143-144`, `162-165`). `Copy` takes all
keys of a container at once, as no step between them looks at one. The arrays
and the text of a copy are written to without a check (`object.c:114`,
`123-128`, `137-144`); where one of those cannot be allocated the behaviour is
undefined and ends. Nobody else runs on the objects while a clone does, and it
is made of trees (clone, equals and serialize do not end on a cycle). `lost`
says that an item or a key is missing; `EqualsTells` that comparing copy and
original reveals it, unless the copy has a NULL key, which the comparison hands
to `strcmp` if it gets there (`object.c:215`, `228`; `Keyless`). A copy has the
capacity of its original.

The wrapper is a handle. Copy construction is `Retain`, destruction `Release`.
`operator=` is two steps with a whole recursive release between them, during
which `m_handle` still holds the pointer it no longer owns; the new value is
read from the other wrapper after it. Outside the assignment, a wrapper's
program is a C program, which is what `WrapperIsHeap` says: `HandleSpec`
implements `CloneSpec`.

### CcoLexer, CcoText, TokenSource

`CcoLexer` is the state of `cco_lexer_t` (`at` is pos, line and col) and the
loop that is running (`mode`): blank, comment, string, word, number. A call of
`cco_lexer_next` is one step per round of those loops and one for its result,
which `reads` collects with the range of the text it took and the position it
told. An append to the scratch buffer may fail unnoticed (`Keeps`): `TextExact`
says how far the text of a string can be trusted then, `StringsWhole` what
options.md promises, which `text_lost` refutes. `FF` stands for the byte 0xFF,
which is -1 as a signed char and therefore the end of the text; letters are
ASCII (`isalpha` of other negative values is undefined). `LexSpec` is the lexer
on the texts of `Source`; `TextSpec` of `CcoText` runs the same actions on these
texts and on those the serializer writes.

`TokenSource` is the other side of `CcoParser!Lex`: a call takes something off
the text, or it is at the end, or at a `$`, of which it takes nothing; after an
unterminated string only the end is left. `CcoLexer` implements it for every
text.

`CcoText` writes a tree with an agenda, `todo`, that stands for the stack of
`serialize_recursive`: its first step is an append, a call for an object or a
round of the loop over the items. A call puts the appends of the object and its
loop there (`CallBegins`), or is refused for NULL (`CallRefused`); a round puts
the call for one item there and the next round (`LoopGoesOn`). Any append may
fail: where the code looks at the result the writing ends (`PieceFails`),
elsewhere the piece is missing and nobody is told (`LooseFails`). All appends of
a string are looked at, so a string is one append. `Height` says that trees are
finite.

`Meaning` gives the tokens that say a tree in the language, with the entries of
maps, the fields of instances and floats as floats, whatever the serializer
makes of them. Of three of these the code does not write what the tree means:
the entries of a map (`serializer.c:126-129`), the fields of an instance
(`140`), and a float, for which the lexer has no token. Maps with entries,
instances with fields and floats are among the trees of the run, and what is
said of positions and cover holds of their texts; `WrittenReads` is about the
trees `Meaning` has none of these for (`Kept`), and says that the text is read
as exactly those tokens. It speaks of tokens, not of what `parse_value` makes of
them: see *Differences*. Numbers are given as the digits that are printed; a
float with an exponent, which the lexer would split in several tokens, is not
among the trees (`Numeral`), nor are `inf` and `nan`.

### CcoIntern, CcoSymtab

A table is an array of addresses (places in the arena shared by the tables). A
call is one step for the check of the load, one per entry that a growth moves,
one for the probe and the insertion. The hash is a constant, any function, so
collisions are as bad as they can be. A failed growth returns NULL before the
string is looked up (`hash.c:78-84`), also for a string the table has; a failed
copy leaves the table grown. `CcoSymtab` adds the registrations, which look at
nothing `cco_intern_string` returns; `kept` collects the names that there was
memory for. `Interner` is what `hash.h:26-29` promises; the refinement maps each
table to the set of its strings with their addresses.

### CcoEval

Per thread: the options of the context, whether a parse is running, the count of
instantiations, and the last call with its answer. Every call is one step that
passes or fails its gates in the order of the code, records at most one
diagnostic, and may find no memory. A path is what `realpath` makes of it:
`PathAssumption` says that it begins at the root and has no empty name on it. A
name may have a backslash, which `sandbox.c:68` takes for a separator on every
system, so a path may pass that is only a neighbour of the base (`Blurred`);
`SandboxExact` says that this is the only way. A parse is `ParseBegins` (clear),
any number of records, `ParseEnds`; `ParseNull` returns before the clear.

### CcoArena, CcoStrbuf

Sizes are numbers below `SizeMax + 1` and sums that the code does not check are
taken modulo that (`Wrap`). `given` records what was handed out. malloc is taken
to serve no object over half of `SIZE_MAX`, which is what C libraries do
(`PTRDIFF_MAX`). Any size may be asked for. Without a limit nothing compares
`used + aligned_n` before it is made (arena.c:59, 70), so for a request of over
half of `SIZE_MAX` it may wrap and an extent is handed out that is not there.
`Modest` says that this cannot have happened: there is a limit, or nothing over
half of `SIZE_MAX` has been granted. `ExtentsApart` and `Allocates` hold for as
long as the arena is modest, and TLC finds counterexamples without that.

`CcoStrbuf` keeps the bytes of the current extent (`cells`, initially junk).
`Reset` is the lexer starting another string, `Restart` the end of the call and
a new arena. `OtherTakes` is anybody else who has a pointer to the arena, as the
parser has (`parser.c:35`): it takes an extent of its own, and once the arena is
not modest that may lie over the buffer's. Formatting is left out of `appendf`,
which appends its output. A piece is a lone NUL or has none: `snprintf` would
stop at one in the middle, and no caller appends such a piece. Its length is any
`size_t`, and is printed with a precision of `(int)len` (strbuf.c:81):
`Precision` keeps the lowest bits, `Printed` is what snprintf then writes, which
of a piece longer than `INT_MAX` may be less than `length` grows by. `Inside`
holds whatever the piece, `HoldsText` of pieces an int can tell (`Tellable`).

### CcoDiag

The array, the count and the first error of each thread, and a history `log` of
all that was recorded since the last clear, which the properties compare them
with; `CcoEval` runs it.

## 3. The runs

| Run | Shows | Bounds, and why they are enough |
|---|---|---|
| `object_heap` (`Object.cfg`) | counts exact, nothing dangles, replacement safe, no leak; clones exact and apart, equality tells a failed clone; the wrapper implements the C heap | 5 objects, 2 handles, 1 key, 2 items, first capacity 1: two levels of nesting with sharing, every append and insert grows, replacement and assignment whose release frees a subtree, a tree of two objects and its whole copy, clones of two levels that run out of objects, every key that cannot be copied; keys that differ are in `object_cycles` |
| `object_cycles` (`ObjectCycles.cfg`) | the proof's invariant `IInv`, well-formed containers and that a release ends, with cycles and half-failed growth | 2 objects, 3 handles, 2 keys, up to 3 items: self-containment and cycles of two, full maps that grow. Deadlock is allowed: a run stops at a read of a freed array |
| `object_torn` (violation) | the map that keeps a freed array | 2 objects |
| `parser` (`Parser.cfg`) | ownership, depth, height, step budget, errors; the call returns | documents of up to 7 tokens, each allocation may fail; a depth of 2 without a limit of steps, 3 steps without a limit of depth, both 1, neither, document too big; both bracket modes; `$` |
| `parser_error_null`, `parser_null_diagnostic`, `parser_text` (violations) | see *Findings* | 4 or 5 tokens |
| `strbuf` (`Strbuf.cfg`) | extents apart; refinement of `Allocator`; the buffer inside its extent; refinement of `Buffer` | sizes below 24, units of 2, limits none, 8 and 23, the maximum; first capacity 2, pieces of 1 to 7 characters where an int goes to 2; others ask for 9 and 21: growth by doubling, by need, refused by limit, by half of the maximum and by the arena, requests that hit the limit, pass it, wrap, need a block of their own, and sums that wrap without a limit |
| `symtab` (`Symtab.cfg`) | probes end, keys are found, names are kept; refinement of `Interner` | three tables, first capacity 2, at most 8, an arena with room for three copies: growths from empty and once more with keys in the table, a string that is the beginning of another, two that collide at the end of every array, a third where the probe wraps, every failing allocation |
| `text` (`Text.cfg`) | positions, cover, decoding, reading back what was written; refinement of `TokenSource` | all texts of up to 4 of 14 characters (each class of the lexer has one), longer ones with comments, escapes and keywords; 82 trees of up to three levels, among them maps with entries, instances with fields and floats, plain and pretty; each append may fail |
| `text_lost` (violation) | see *Findings* | the same texts |
| `eval` (`Eval.cfg`) | budget, refusals, arguments in order, sandbox; first error and list of diagnostics | one thread (threads share nothing, and the theorems are for any number), a list of 2 entries and up to 3 records, so that it overflows; budgets 0, 1 and 2; base directories `/`, `/a`, `/a\` and none; paths below, at, above and beside them, and with a backslash in a name |

`CHECK_DEADLOCK` is off only in `object_cycles` and where a violation run may
stop. Symmetry over objects, handles and keys is used where the properties are
invariants of interchangeable values.

Fairness: `FairSpec` of `CcoObject` is weak fairness of the steps of a call that
has begun, `FairSpec` of `CcoParser` weak fairness of the next step. A call runs
on the caller's thread and waits for nothing, so it takes its next step; the
caller is never made to make a call. Termination needs no limit to be set: the
run has options without any.

### Findings

Each is a run that TLC ends with a counterexample to what the repository says.

* `object_torn`: `object.c:280-284` assigns the results of two reallocs only if
  both succeed.
* `parser_error_null`: errors of the lexer are dropped (`parser.c:12`); `(@1)`
  parses.
* `parser_null_diagnostic`: `parser.c:64`, `80`, `107`, `152` set an error the
  caller cannot ask for.
* `parser_text`: two strings next to each other share one buffer (`lexer.c:97`);
  the first is stored with the text of the second.
* `text_lost`: the appends of `lexer.c:106-114` and `125` are not looked at, so at
  the limit of the arena a string token lacks characters and the parse goes on.

Differences from the documentation that are in the models and have no run:

* An object that cannot be allocated ends the array or map around it, which is
  returned as the result (`parser.c:134`, `85`; `cco.h:26-27`).
* The size limit is checked after two tokens have been read (`ParserInit` before
  `DocumentTooBig`; options.md:44-46), and the parse goes on for a few tokens
  past its step budget (`StepsBounded` says how many; options.md:62-64).
* Failed instantiations use up the budget (`Builds`; options.md:57 counts each
  successful build).
* `cco_intern_string` returns NULL for a string it has when the growth it tries
  first fails (`GrowFails`; hash.h:26-28).
* "Type alias registration with cycle detection" (symtab.h:35) is of cycles of
  length one; a name there is no memory for is registered with `CCO_OK`.
* A clone that ran out of memory below its root is returned, with NULL for an item
  (`CloneNothing`) or a key (`Copy`; api.md:162).
* With `base_dir` unset every path is refused (`CheckPath`, sandbox.c:28-33);
  options.md:91-92 and api.md:394-396 let the working directory and all below it pass.
* A path or base that cannot be resolved is refused with `CCO_ERR_FORBIDDEN`
  (sandbox.c:42-54) and not with `CCO_ERR_IO` (options.md:98, api.md:393).
* A name with a backslash where the base ends passes: `/base\x` is a neighbour of
  `/base` on POSIX (`Blurred`, sandbox.c:68).
* Without a limit, a request of over half of `SIZE_MAX` may be granted memory that
  is not there (`Modest`, arena.c:70).
* A piece longer than `INT_MAX` is cut short, or printed as if there was no
  precision, while the length grows by all of it (`Printed`, strbuf.c:81).
* The entries of a map and the fields of an instance are not written (`CallBegins`,
  serializer.c:126-129, 140; cco.h:31, quick-start.md:585-586, api.md:270-271).
* Of the tokens that are written and read back, `parse_value` takes some for
  another object: `()` is always a map, an empty array too (parser.c:254-257), a
  float is an integer (the lexer never makes the `CCO_TOK_FLOAT` of lexer.h:46),
  and a minus or a `#` is an unexpected token (parser.c:305-310).
* With `preserve_comments` the `/` of a comment is returned as a token
  (`CommentAhead`; feature-flags.md says tokens are unchanged).
* Control characters are written as `\xNN` (api.md:269-270), which the lexer
  refuses; `WrittenReads` says that it always tells.
* `max_string_length` (options.md:36-40) is looked at nowhere.
* After `cco_parse_string(NULL, ...)` the last error is that of an earlier parse
  (`ParseNull`; cco.h:84-86).

## 4. The proofs

| Theorem | For every |
|---|---|
| `CcoObject_proof!HeapInvariant`, `TypeCorrect`, `CountsExact`, `NothingDangles`, `ReplacementSafe`, `ContainersFit` | number of objects, handles and keys, size of containers, with and without cycles and half-failed growth |
| `CcoObject_proof!NothingLeaks` | as above, without cycles |
| `CcoHandle_proof!CloneInvariant`, `WrapperRefines`, `WrapperSafe`, `WrapperCounts`, `WrapperTyped`, `WrapperFits`, `WrapperReplaces`, `WrapperReclaims` (without cycles) | as for the heap, for C programs that clone and for C++ programs |
| `CcoHandle_proof!WrapperClones`, `WrapperTells`, `WrapperParts` | tree, of any size and depth, and allocation of an item or a key that fails |
| `CcoParser_proof!Typing`, `Ownership`, `NothingIsLeft`, `DepthIsExact`, `HeightIsBounded`, `StepsAreBounded`, `NullIsExplained`, `ErrorsAreFinal` | document of any length and nesting, limits, failing allocations |
| `CcoLexer_proof!LinesAreCounted`, `LexerFeedsParser`, `TokensCover`, `TextIsExact` | text, of any characters and length, appends that fail |
| `CcoText_proof!TextReadsBack` | tree without entries, fields and floats, of any size and depth, plain and pretty, indentation, appends that fail, in the writing and in the reading |
| `CcoText_proof!TextLinesCounted`, `TextCovered`, `TextToldExactly`, `TextFeedsParser` | text as above, given or written |
| `CcoStrbuf_proof!ArenaInvariant`, `ArenaApart`, `ArenaAllocates` | word size, alignment, block size, limit and request, as long as the arena is modest |
| `CcoStrbuf_proof!BufferIsClient`, `BufferApart`, `BufferTyped`, `BufferInside`, `BufferHolds` | as for the arena, first capacity, what others take, pieces (`BufferHolds`: that an int can tell) |
| `CcoSymtab_proof!TablesRight`, `ProbesRight`, `NamesAreFound`, `TablesIntern`, `RegistrationTyped`, `RegistrationInterns`, `NamesAreKept` | hash function, set of strings, capacity, number of copies |
| `CcoEval_proof!DiagInvariant`, `FirstErrorNeverLost`, `ListNeverWrong` | number of threads, codes, length of the list |
| `CcoEval_proof!CallsRefineDiag`, `CallsKeepDiagnostics`, `BudgetNeverExceeded`, `RefusalsToldAlways`, `ArgumentsEchoed`, `SandboxDecides` | number of threads, options, build, arguments, paths |

They rest on the ASSUMEs of the modules, which TLC evaluates in the runs:

* heap: finite sets of objects and handles, NULL outside them; `NothingLeaks` and
  `WrapperReclaims` also that the program puts no container below itself;
* arena and buffer: a block header no smaller than the alignment; pieces shorter
  than `SIZE_MAX` that are a lone NUL or have none; a first capacity of at most
  half of `SIZE_MAX` (`PieceAssumption`, `CapacityAssumption`);
* tables: a hash that is a number, a first capacity of at least two;
* calls: error codes that differ from `CCO_OK`, arguments in a finite order,
  resolved paths (`ArgsAssumption`, `PathAssumption`);
* lexer: `isalpha` and `isdigit` are false of white space, `"`, `\`, `$`, `_`,
  `-`, `/`, `*`, of 0xFF and at the end; a text is a sequence of characters
  (`ClassAssumption`, `SourceAssumption`);
* written texts: letters, digits and control characters are apart, and none of
  them is a character the lexer or the serializer gives a meaning; the keywords
  are of letters (`TextAssumption`); trees are of finite height, their numbers
  are as they are printed, without exponent, their instances have names the lexer
  reads and that are no keywords, or none (`TreeAssumption`);
* parser: limits are numbers.

*Induction.* No theorem of the library can be used that takes a predicate, so
where a proof is by induction it takes a least counterexample of a set of
numbers (`Least` in `CcoParser_proof`) or of a well-founded set, and what a
recursive function is comes from the existence of a function that solves its
equation (`SumsExist`, `MaxHeightIs`).

*Heap.* `RefCountExact` counts slots, so a step that reads a slot must know what
is in it. The invariant `IInv` adds: an object is live exactly when its count is
positive; the frames of a release are distinct dying objects; only a dying
object's cursor has moved; a held slot has an object; the caller of
`cco_map_insert` keeps both its references while the old value is released. From
these, whoever is referred to has a positive count and is live, so a release
never finds a count of zero, and never enters an object twice: cycles are kept
alive by their own slots. Each action adds or removes exactly one reference and
changes one count by one (`CountsAgree`).

*No leak.* `LeakInv` says that among any objects there is one that none of them
holds, that every dying object is on the stack of a release, and that the map of
a replacement in progress is not below its new value. Were there unreachable
objects when nothing runs, the counts of all of them, which are positive, would
be of slots in unreachable objects, and one of them would be in no such slot
(`AcyclicReclaims`).

*Clone and wrapper.* `CloneInv` adds `FramesRight` to `IInv`: the original and
the copy of a frame are live and have as many items, the copy's slots from the
frame's index on are NULL, no two frames fill the same copy, and no release or
replacement is under way while a clone runs. So storing a fresh copy overwrites
nothing and turns its one reference into a slot. `AssignRight` adds what holds
between the halves of an assignment: the target is empty and is not the source,
and nothing else is pending. The wrapper's steps are then steps of `CloneSpec`:
the first half of an assignment releases its handle, the second retains into an
empty one or, if there is nothing to retain, stutters.

*What a clone is.* `CopyInv` parts the live objects in three: what the clone
found, the containers being filled, and what is done. What is done is held once
and holds only what is done; each frame has copied the items it is through with,
as deep as there are objects left (`Filled`); if an item or a key is missing,
some frame tells (`Tells`): its keys differ, or an item behind. A comparison of
two objects depends only on what lies below them, so the steps of the clone,
which write to the innermost container alone, leave every comparison of what is
done as it is. When the outermost frame is through, `CloneExact`, `EqualsTells`
and `CloneApart` follow.

*Parser.* `IInv` of `CcoParser_proof` says of each phase what is owned, open and
taken. While a parse runs: the frames alternate (a container is called by a
value, a value by a container); `live` is the sum of the weights of the frames
and of what is being returned, `keys` the number of frames with a key; `depth`
is the number of values whose container is open; a tree in a frame is no higher
than what the limit leaves below that frame; after the limit of steps only so
many tokens are taken as the program counters of the frames allow (`Budget`); a
NULL that is returned has its error. An action changes the top frame or pushes or
pops one, so each is reduced to what it does to a sum over the stack
(`SumAppend`, `SumExcept`, `StackPushed`).

*Lexer.* A place is `Good` if its line is one more than the line breaks before it
and its column the distance to the last of them; `advance` keeps that
(`StepGoes`), and every place the lexer has, or reports, is one `advance` made.
For `FeedsParser`, what has been taken so far is mapped to the count and the end
of `TokenSource`; the invariant says that a string that failed has gone to the
end of the text, and that nothing is taken from a `$`.

For `Covers`, the invariant `CInv` says what the loops have passed since the last
token: in white space, something that may be skipped; in a comment, its opening
and no end of it; in a token, that it began at what is not blank. `Skipped` goes
from the left, one blank or comment after the other, and the lexer adds on the
right: `SkipFurther` puts two parts together, where only the last may be a
comment that ends with the text. For `TextExact`, the invariant `TInv` says the
same of the string that is being read as the property does of one that is done.
`Decoded` goes from the left too, and the lexer appends: `DecodesMore` shows that
one character or escape more in the literal is one more in what it stands for,
provided the literal is not cut within an escape (`Whole`), which is part of the
invariant. Both follow a recursive function backwards from the end of the text,
by the last place where the claim would fail (`SkipsExist`, `DecodesExist`).

*Written texts.* A text is `Laid` out as a list of tokens if each of them is
spelt, in order, at a place of its own, with nothing but blanks between them,
and what could run on (a word, a number) is followed by something that closes it
(`Sound`). The first half of the argument is the serializer's: `WritingInv` says
that what has been written is laid out as the first of the tokens `Shown`, and
that the steps on the agenda write the rest, whichever of the loose appends
fail. `Shown` is what the code writes of any tree, entries left out, and serves
the induction only; of the trees the theorem is about it is the `Meaning`
(`ShownMeans`), and that is what the theorem states. What an agenda leaves to be
written is defined by what each of its steps stands for (`Leaves`), so that a
call may be replaced by its appends (`BeginLeaves`) and a round by an item and
the next round (`RoundLeaves`). The second half is the lexer's: `ReadingInv`
says of every place it can be at how many of the tokens have been read, each
with its type and text, and which one it is in, up to where in it; or that it
has told an error, which happens only in a literal with a character that cannot
be read again. That an escape is read as the character it was written for is
counted along the literal, where each character of the string has its place
(`Literal`). `Meaning` and `Shown` are recursive functions over trees, as is
`FlattenSeq` over lists; that there is a function that solves the equation is
shown by a least counterexample, of `Height` and of the length (`SaysExists`,
`MeaningIs`, `ShownIs`).

The theorems about the lexer are about `LexSpec`, and hold of `TextSpec` as well:
the steps of the lexer are the same, and the one step where the text changes,
`Returned`, is taken before anything was read. To the parser that step is
`TokenSource!Written`.

*Arena.* Every sum that decides is shown not to wrap. With a limit, what a block
has used is at most the total, and total plus request has been compared with the
limit; without one, a block is at most half of `SIZE_MAX` and so is the request,
as long as the arena is modest, which it never becomes again before it is
destroyed (`ModestBefore`). The types and what bounds the blocks hold of any
arena (`AllocWraps`). Then the new extent starts where the head block's used
part ends, which lies behind all extents given in it. The refinement theorem
maps each allocation to `Allocator!Give` and destruction to `TakeBack`.

*String buffer.* Its capacity is at most half of `SIZE_MAX` and its text, with a
NUL, at most its capacity, so its sums do not wrap and its requests are requests
like any other's: every step is a step of the arena or none (`BufferIsClient`),
and what is proved of the arena holds below it (`BufferApart`). The text is the
first `length` characters of the extent. An append writes behind them; if the
piece is one an int can tell, the precision is its length, so all of it is there
(`BufferHolds`).

*Intern tables.* `TableRight` says that from a key's home to its place no slot is
free, that no key is there twice, and that `count` is the number of slots in use
and at most three quarters of them. `FreshRight` says the first two of the array
a table is moved to, whose keys are those of the entries moved so far. A table is
strictly below three quarters when it is probed, and the new array has twice the
slots of the old, so a free slot is left: the pigeonhole `RoomLeft`, on the
cardinality of the slots in use. Interning then follows: a probe that comes to a
free slot has passed every place the string could be in.

*Diagnostics and calls.* The three properties of `CcoDiag` are inductive
together. Every call of `CcoEval` records once, clears or leaves the diagnostics
alone, so `EvalSpec` implements `CcoDiag!Spec` and inherits them. `RefusedTold`
needs that no refused call is still the last one while a parse records.
`EchoInOrder`: the items kept of a list of arguments are echoed by the map from
their places to the places of the arguments, which grows with each that is kept.

*Sandbox.* The code compares characters, `SandboxExact` the names on the two
paths with their ranks. That the comparison accepts what is below the base is
direct: the base is a beginning of the path, and ends where a name ends. For the
other direction take the first place where the two differ. The name it is in has
on both paths the same rank, because the paths are equal before it; so the names
of that rank are equal, and so are the places up to their ends. What the
comparison accepts is below the base, except where it took a backslash for the
end of a name (`InsideHasNames`).

Only model-checked: the liveness properties `ReleaseEnds` and `Terminates`
(outside the prover), and the runs that end in violations. Every safety
invariant, action property and refinement that a passing run checks is a theorem.

## 5. Not modelled

* Values of scalars, their conversion (`strtoll`, `%g`) and their comparison (a
  NaN differs from its own clone; the lexer makes no floats), messages and
  positions inside diagnostics, the defaults of the options, the getters that
  only copy a field.
* Bytes above 0x7F other than 0xFF in texts, NULs inside strings that are
  interned, floats written with an exponent or as `inf` and `nan`.
* The unchecked allocations of `cco_object_clone` (arrays and texts) when they fail,
  comparisons and insertions that come to a NULL key, and clone, equals and serialize
  on cycles: undefined behaviour and endless recursion.
* `cco_parse_declarations` is empty in the code; `inst.c`, `call.c`, `eval.c`,
  `symtab.c` and `sandbox.c` have no caller in the library, so they are modelled
  for any sequence of calls and not as part of a parse. A template instance keeps
  a name it does not own (`inst.c:38`); who interns it is not in the code yet.
* Two threads that update one count are outside the library's contract
  (`docs/api.md:19-21`).
* Examples, tests, benchmarks and documentation.

## 6. Plan

1. Floats, once the lexer has a token for them: `Meaning` has it, and they are trees
   of the run; those with an exponent (`1e+20` is read as a number, a word and what
   follows) need another `Numeral`.
2. The entries of maps and the fields of instances, once `serializer.c:126-140` writes
   them: then `Kept` goes, as `Meaning` says what they are. Declarations, once
   `cco_parse_declarations` reads them: the modules of the intern and symbol
   tables are ready to be composed with the parser.
3. The parser over the tokens of `CcoLexer` in one run, instead of through
   `TokenSource`, to follow the text of a string into the tree.
