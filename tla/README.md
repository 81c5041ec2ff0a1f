# A verification project for tinyCompile

tinyCompile reads C-like source files, compiles them in memory to x86-64 and
runs the result. This directory holds TLA+ modules for the parts of it that
decide whether the program it runs is the program that was written, the TLC
configurations that check them on small instances, and TLAPS proofs of the
properties that hold for every instance. `PROJECT.json` lists components, runs,
mutants, theorems, hazards, findings, and, definition by definition, the source
lines a definition translates. Paths below are relative to `src/`.

    tlc -workers 2 -config Jit.cfg MCJit         # a run; see "Runs"
    tlapm RegAlloc_proofs.tla                    # a proof

## 1. The system

The process has one thread. Nothing is concurrent inside it; the file system
outside may change between two system calls. What is hard is therefore not
interleaving but long legal sequences, fixed-size tables, failures in the
middle of a phase, and facts that are computed in one place and relied upon in
another (frame sizes, label positions, lengths of code, scopes).

    main.c -> compile.c: load -> parse -> declare -> analyze
                           |       |        |         |
                        cleanup  lexer   semantic.c (global table, bodies)
                         utils   parser
    main.c -> jit_compile_pass: per function  ir_gen -> two passes of encoders
    main.c -> jit_link_all -> arena_set_prot -> execute -> cleanup label

| component | state | operations | depends on | what makes it correct |
|---|---|---|---|---|
| driver (`srcs/main.c`) | phase, exit code, three arenas | `main` | everything below | every goto to the cleanup label releases everything; the exit code tells the truth |
| compilation context (`srcs/compile`) | units, count, capacity | `compile_ctx_init`, `compile_ctx_add_file`, `compile_parse_all`, `compile_analyze_all` | tracker, parser, analyzer | a failure in one file is not lost when the next succeeds |
| resource tracker (`srcs/cleanup`) | array of mappings | track, untrack, cleanup | AST arena | room for every file; nothing leaks |
| error handler (`srcs/error_handler`) | list of errors, counts | `error_add`, `error_print_all` | AST arena | what is recorded is printed; a reported failure is a failure |
| validation, utilities | none | `validate_source_file`, `map_input` | file system | outcome per call only |
| global function table (`srcs/semantic`) | array of signatures | declare, lookup, check of a call | all units | one definition per name over all files; calls match |
| analysis of bodies (`srcs/semantic`) | scopes, types of nodes | `analyze_*` | function table | a name resolves to the variable the generator will use; a loss of bits it can see is warned about |
| lexer (`srcs/lexer`) | cursor, line, column | `lexer_next` | source text | every character belongs to one token, blank or comment; longest match |
| parser (`srcs/parser`) | two tokens, `panic_mode`, depth, call stack | `parse_*`, `parser_synchronize` | lexer, errors | it returns; trees respect precedence; what is missing is reported |
| IR symbol table (`srcs/ir/ir_symboltable.c`) | hash table with linear probing, undo list | lookup, add, restore | IR generator | behaves as a lexically scoped map |
| IR generator (`srcs/ir/ir_gen.c`) | instructions, counters of registers, labels, slots | `gen_*` | symbol table | the IR does what the AST says |
| register allocator and frame (`srcs/jit/jit.c`) | `vreg_map`, `phys_regs`, `stack_base` | `reset_state`, `get_location`, frame size | encoders | two values never share a place; aligned frame |
| encoders (`srcs/jit/encoders.c`, `emit.c`, `helpers.c`) | buffer position, pending arguments | one per opcode | allocator | scratch registers and pushes destroy no live value |
| code generation and linking (`srcs/jit/jit.c`) | labels, patches, call sites, registry | two passes, link | encoders, executable arena | passes agree to the byte; every jump and call reaches its target |
| arena (`incs/memarena.h`, `sv_to_int64` in `incs/string_view.h`) | chain of blocks, offsets, protection | alloc, temporaries, protect, free | mmap, mprotect | live objects are apart, mapped, and never handed out twice; nothing is left mapped |
| IR printer, bounds, build scripts | none | output, tooling | | not modelled |

Hard behaviours, each listed with its line under `hazards`:

* **sequences of legal calls**: undoing scopes in a table without deletion
  markers; watermarks kept over nested blocks; the forward-jump patch list;
  prologue and epilogue that must mirror each other for every frame size;
* **state carried over**: one JIT context for both passes and all functions;
  arena memory that is not zeroed (`stack_count`, `ir_gen.c:450`);
* **limits**: symbol table, call sites, labels, registry, function table,
  tracker, pending arguments, instructions, statements, parameters;
* **two views of one thing**: analyzer and generator resolve names separately;
  a load takes its width from the analyzer and the store from the declaration;
  lines are counted in two places of the lexer;
* **partial failure**: five exits while loading a file, recovered syntax
  errors, operands that are missing in a kept tree, an allocation that fails
  between the passes, `mprotect` half-way, ends of the process that skip the
  cleanup label;
* **numeric edges**: frame size and slot offsets from three formulas, parity of
  the stack, the pad of an odd number of stack arguments.

## 2. Modules

    Lexer                                text -> tokens
    Parser                               tokens -> trees, errors
    Semantic <- IRGen <- Lowering        tree -> types -> IR -> result
    ScopedMap <--implements-- SymbolTable
    Frame <- RegAlloc
    Frame <- Encoders <- Machine         executed against the IR
                      <- Jit             two passes, labels, linking
    Pool <--implements-- Arena
    Driver                               all phases by outcome

`X <- Y` means that Y extends X. What one module takes for granted another
checks: Machine and Jit run any IR of the shape that `IrAsJitExpects` of
Lowering establishes for `ir_gen`; IRGen uses nested scopes as ScopedMap has
them, which SymbolTable implements; Driver takes every phase by its outcome.

**Lexer** is `lexer_next` with blanks, `//`, `#` and block comments, keywords and the
counters of line and column. A file is a sequence of characters. The parser asks for a
token, every round of the loops of `lexer_skip_whitespace` and `is_comment` is a
step (`at` says in which of the two the lexer is), and making the token is one more.
The reference for what is code and what is comment, `Modes`, reads one character at
a time with one of lookahead; it shares nothing with the loops.

**Parser** is every `parse_*` function. `todo` is the call stack as the list of
steps still to take, `vals` what the finished calls returned. The text is chosen
token by token, when `parser_advance` asks for it, so that one run covers all
texts of a pattern. Nodes keep their type, span and precedence, and whether
something is missing in them.

**Semantic** has `analyze_expression`, `analyze_statement`, scopes, conversion
checks and constant folding as operators on trees; **IRGen** has the `gen_*`
functions as operators from an annotated tree and a state of the `IRFunction` to
the next one, with the two limits. **Lowering** is the state machine: `Analyze`,
`Generate`, `Run`. It executes the IR and evaluates the tree directly (`Meaning`),
and compares. `Meaning` follows C and not the analyzer: operands narrower than `int`
are promoted, of two operands the wider type wins and at one width the unsigned one. All
types of `types.def` occur: parameters and results may have any of them, locals are
`int`, `char` or `void` (the tokens that start a declaration). The sizes of `char`,
`int16`, `int` and the machine word are scaled to 2, 3, 4 and 6 bits, which keeps every conversion and sign
extension and makes the values few. Where the code and C part, `Meaning` says how in `bad`
(section 4).

**Pool** is the abstract specification of an arena: aligned objects that never
overlap, all live until it is freed, sealed at most once. **Arena** is
`memarena.h`: the chain of blocks, growth in place when the kernel maps where it
was hinted, temporaries as `sv_to_int64` uses them, `arena_set_prot` and
`arena_free`. `mmap` and `mprotect` are external: every answer they may give is
one outcome of the operation.

**ScopedMap** is the abstract specification of the symbol table: `env` maps names
to bindings, `Enter` saves it, `Bind` rebinds one name, to any binding: which index a
name should get is judged by `SameMeaning`. `Leave` restores.

**SymbolTable** models `ir_symboltable.c` as `ir_gen.c` drives it. `entries`
and `changes` are the struct's arrays; a `ScopeChange *` is its depth in the
list. `watermarks` holds the local variable of each open `gen_block`. `home` is
the hash of every name, any function in `Hashes`: the hash itself is abstracted. `AddParam`
and `AddLocal` are the loop of `ir_gen` and `gen_var_decl` (with its second
lookup), `Overflow` and `OutOfMemory` the two `exit(1)`, of a full table and of a
failed `arena_alloc`, `StartRestore`, `UndoChange` and
`RestoreDone` the loop of `symbol_table_restore`, one iteration a step.
`stack_count` starts with any value because `ir_gen` never sets it.

**Frame** has the layout: registers in the order of allocation, `get_location`,
`get_local_offset`, `calculate_aligned_stack_size`. **RegAlloc** drives
`get_location` and `reset_state` in any order of requests.

**Encoders** translates each IR opcode to the machine instructions its encoder
emits, with their operands and lengths in bytes. The bytes are abstracted; the
length of an encoding (REX prefixes, 8- or 32-bit displacements) is kept, since
the two passes and the jumps depend on it.

**Machine** executes that code on a model of the processor next to an interpreter
of the IR. Values are terms, so equality of two values means that the same
computation produced them, for all inputs. The callee of a call is its System V
contract, an external definition: it may overwrite every caller-saved register
and everything below rsp.

**Jit** is `jit_compile_pass`, `jit_compile_function` and `jit_link_all`: pass 1
without a buffer (`SizeInst`), the allocation (`Allocate`, `AllocateFails`),
pass 2 (an action per kind of instruction), the registration, and the link, one
call site a step. Code memory is kept at the addresses of displacements and
immediates, the only bytes written a second time. The list of patches is a set:
a label takes out all of its own, in whatever order they are. `trace`, `jumps` and
`calls` are history variables of the properties.

**Driver** is `main` with the compilation context, tracker, error list, global
function table, and the order of phases. System calls may fail at each call.
Bodies are abstracted to the calls they contain, and for each call whether
`analyze_expression` reaches it. `code_calls` are the calls in the code,
`call_sites` those that `encode_call` had room to record. The process ends in one of four
ways: it returns from `main` (`exit`); it reads through a NULL (`crashed`), in
`parse_assignment` or `parse_call`, or where the analyzer or the generator meets a missing
operand of a kept tree (`holes`); it calls `exit(1)` in `symbol_table_add`
(`exited`); or no memory or stack is left (`starved`, from any phase that allocates).
The last three skip the cleanup label.

The **MC** modules give constants their values. MCMachine and MCJit give a set
of *loads*: which opcodes, parameters, locals and lengths a program has; Init picks
one, so that one run covers programs of several kinds.
The theorems are in modules of their own: `SymbolTable_proofs`, `RegAlloc_proofs`,
`Machine_proofs`, `Jit_proofs`, `Arena_proofs`, `Lexer_proofs`, `Parser_proofs` and
`Driver_proofs`.
Definitions whose name has a suffix and whose comment starts with "Wrong:" are
mutants: plausible mistakes in the code, each of which makes TLC report the
property `PROJECT.json` names for it.

## 3. Runs

| run | bounds | checks |
|---|---|---|
| `lexer` | files of up to 4 of 11 pieces, and of every two symbols | `TokensExact`, `PlacesExact`, `Finishes` |
| `parser` | seven patterns of up to 31 tokens; depth 5, two statements, parameters and functions | `PrecedenceRespected`, `ErrorsExact`, `StatementsStartClean`, `LimitsKept`, `Terminates` |
| `parser_params` | the same with one slot for parameters | violates `ParamsKept` |
| `lowering` | bodies of up to four statements with nested blocks, branches, loops and calls; expressions of up to two operators over `char`, `int`, `int64`, `uint8`, `uint32` | `SameMeaning`, `LossWarned`, `GeneratorErrorsExplained`, `IrAsJitExpects` |
| `greater` | the same with the operator `>` | violates `SameMeaning` |
| `symbol_table` | 4 names, 3 slots, every hash, 1 parameter, 3 declarations, 2 nested blocks | `ChainsUnbroken`, `WatermarksOnList`, `OverflowOnlyWhenFull`, `ImplementsScopedMap`, `RestoreTerminates` |
| `reg_alloc` | 8 virtual registers (5 machine registers: up to two spills), 2 locals | `NoSharing`, `SpillsClear`, `OnlyLastSlotBelowRsp`, `BodyAligned`, `LocationsStable` |
| `machine` | one opcode of each class in two instructions, three widths; 0, 5, 8 parameters with 2, 7, 8 arguments in three | `RunsAsIR`, `ConventionKept` |
| `jit` | two functions with two labels and four instructions; with three callees, one of them missing; one function with 0 or 6 parameters | `PassesAgree`, `NeverAborts`, `LinkedExactly` |
| `arena` | 3 objects of 0, 1, 4 or 17 bytes in 7 pages of 8 bytes, alignment 2 or 4 | `ObjectsApart`, `MappedExactly`, `WriteXorExecute`, `ScratchReturned`, `ImplementsPool` |
| `driver` | 0 to 3 files with a limit of 2, 3 declarations, function table of 2, one call site | `TablesSuffice`, `NothingLeaks`, `OneDefinition`, `CallsMatch`, `HonestExit`, `Terminates` |
| `driver_errors` | the same | violates `ErrorsFail` |

Several of these are conjunctions of named parts: `TokensExact` is `TokensCover` and
`LongestMatch`; `ErrorsExact` is `ValidAccepted` and `HolesReported`; `RunsAsIR` is
`ValuesKept` and `BranchesOnCondition`; `ConventionKept` is `CallsAligned`,
`StackBalanced` and `ReturnsClean`; `LinkedExactly` is `JumpsLand`, `OnlyFieldsPatched` and
`CallsResolved`; `TablesSuffice` is `RoomForFiles` and `RegistryFits`. Each part has a
mutant of its own. The symbol table and the allocator, which have proofs, also check
their type invariants.

*Why the bounds are enough.*

* `lexer`: the pieces are the marks that combine in misleading ways (`/`, `*`, `/*`,
  `#`, `=`, `<`, newline) and one of each kind of word; four of them make `/*/`,
  `//*`, an open comment at the end of a file and an operator cut by a blank.
* `parser`: three patterns leave five to seven tokens free, so that every short
  expression, statement and list of declarations occurs, valid or not, up to the
  end of the file at each place; one meets the limit of functions, three are valid
  programs with free operators. Each limit is below what some text asks for.
* `lowering`: `x` is declared outside and shadowed with another type inside a
  block, a branch or a loop; calls are nested in both arguments; literals fit, and
  do not fit, the narrower type. A second family of bodies combines a parameter, a result, two
  locals and the arguments of a call over five types with `-`, `<`, `>>`, `&`, `~`
  and negation; the kinds of trouble that `bad` names occur in it.
  A scope holds three names, 10 registers and 18 instructions are exceeded by
  the longest bodies.
* `symbol_table`: three slots hold a chain that wraps and a slot freed in its middle; the
  fourth name overflows. Hash functions are taken up to renaming of names
  and rotation of slots, under which the table is symmetric.
* `reg_alloc`, `machine`, `jit`: eight virtual registers exceed the machine registers by
  enough to spill twice. A function with six parameters fills the registers, so
  that its temporaries are spilled and the encoders take their scratch paths;
  seven and eight arguments are the odd and even cases of the pad. Two labels give
  every shape of two crossing or nested jumps, and the second function meets what
  the first left in the context. The opcodes of one class (`ArithOps`, `CmpOps`,
  `ShiftOps`, ...) share one encoder with another byte; a run takes one of them.
* `arena`: a page of 8 and a header of 6 leave little of a first block, so that
  objects need padding, extend a block in place, or start another that is mapped
  above or below; 17 bytes take more than the default size.
* `driver`: its limits (files, table, parameters, call sites) are each below what the inputs ask
  for, so that both sides of each check are reached.

*Deadlock* is not checked in runs of systems that stop: a function ends, a process
exits, a bound on steps is reached. `reg_alloc` does check it.

*Fairness.* `symbol_table_restore` is a loop that nothing interrupts: its steps are
weakly fair, opening and closing blocks is not. The parser takes its steps, and
asks the lexer for tokens, until it returns: both are weakly fair, one thread
executes them and no step waits. So are the steps of the driver; the compiled
program (`MainReturns`) is not, it may run for ever.

## 4. What the violations show

* `ErrorsFail`: a unit with recovered syntax errors counts as parsed, errors of
  `ir_gen` are ignored; the program runs and "Compilation failed" is printed
  after it.
* `SameMeaning` with `>`: `AST_GREATER` is missing from `analyze_expression`, so
  its operands are never visited. They keep the type void, are loaded with the
  whole word although the variable was stored with four bytes, and a comparison of
  a negative `int` goes wrong. Calls under `>` are not checked either, and the
  result of `>` cannot initialize a variable.
* `ParamsKept`: `parse_function` has room for 16 parameters, the limit that is
  reported is 32, and it is tested after parsing.

Some properties are worded around what the code does, which a reader should know:

* `OnlyLastSlotBelowRsp`: `calculate_aligned_stack_size` counts a word per local and
  virtual register, `get_location` and `get_local_offset` start a pad below the
  saved registers, so for an odd sum the last slot lies below rsp. `ValuesKept`
  shows that nothing is lost: the last virtual register of a function is not live across a push.
* `CallsResolved` speaks of the calls below `MAX_CALL_SITES`: beyond it `encode_call` compiles
  the call and does not record it, the link reports success and the code jumps to
  the placeholder. The run has one call more than the limit. `CallsMatch` says the same of
  whole programs: a call beyond the limit may name a prototype that is never defined, and the program runs.
* `NothingLeaks` and `HonestExit` speak of a return from `main`. A process that dies on
  a NULL, calls `exit(1)` in `symbol_table_add` (`ir_symboltable.c:54`, `:68`) or finds no memory leaves
  files and arenas to the system and prints none of the errors it recorded: for
  `int x = 1 + ;` the syntax error is recorded, `analyze_expression` reads the type of the missing operand
  (`semantic.c:333`), and the user sees the signal alone. What does hold is that a NULL is read only after
  an error was recorded, and that none of these ends has exit code 0.
* `OverflowOnlyWhenFull` speaks of the `exit(1)` that reports an overflow, not of the one for
  want of memory.
* `LossWarned` has two exceptions, which `check_type_compatibility` cannot see. The
  analyzer takes the larger of two operand types and does not promote (`semantic.c:336`), and the left one
  for `&`, `|`, `^`: in `char f(char a, char b) { return a + b; }` the sum is a `char` to it, and bits
  are lost unwarned ("unpromoted"). A constant is tested against the signed range of the size
  (`semantic.c:217`), so `uint8 f() { return 0 - 1; }` is accepted silently (one case of "sign"). A
  conversion between types of one size, or from a negative value to a wider
  unsigned type, cuts nothing off and is never warned about (the other cases).
* `SameMeaning` leaves out what `bad` marks. Besides signed overflow, which C leaves open, these are
  differences from C: unsigned arithmetic is done on the 64-bit word and does not wrap at the width of its
  type ("wraps"); a negative operand next to an unsigned one stays negative, and
  `>>` is a logical shift of the 64-bit word when the analyzer's type of the left operand is
  unsigned, also if C promotes it to `int`, as in `(-q) >> 1` with a `uint8 q` ("sign"); and no conversion is
  carried out on a result or an argument, which stay whole words.
* `PlacesExact`: the column of a token is the one the code computes: lines after the
  first count from 2, and the column is taken behind the token.

Other behaviour that the models have and no property judges: characters that start no
token, and comments that are not closed, are skipped without an error; a function
without a `return`, or with an empty one, gets no RET; a missing operand
(`int x = 1 + ;`) is a NULL that `parse_assignment` or a later phase dereferences
(`outcome = "crashed"` in Parser); `int x = x;` in an inner block is checked against
the outer variable and reads the inner one.

## 5. Proofs

All theorems hold for every value of the constants that satisfies the `ASSUME`s of
the modules, which TLC evaluates in the runs:

| module | assumption |
|---|---|
| SymbolTable | the table has a slot, hash values are slots, the bounds are natural numbers |
| RegAlloc | the bounds are natural numbers |
| Machine | the numbers of parameters, arguments, locals and virtual registers of a load are natural numbers (`LoadsAssumption`) |
| Jit | names are strings, counts of parameters natural numbers, the labels of a function `0 .. n - 1`; limits are natural numbers (`LoadsAssumption`, `LimitsAssumption`) |
| Arena | page and header are multiples of the default alignment, as `sizeof` and `sysconf` make them; sizes are natural numbers, alignments positive (`PageAssumption`, `HeaderAssumption`, `SizeAssumption`, `MaxObjectsAssumption`) |
| Lexer | a file is a sequence of characters; letters, digits and the marks of the language are different characters; keywords have tokens of their own (`TextsAssumption`, `LettersAssumption`, `KeywordsAssumption`) |
| Parser | a text is a sequence of choices of tokens; limits are natural numbers (`TextsAssumption`, `LimitsAssumption`) |
| Driver | a declaration is a prototype or not and has finitely many calls; limits are natural numbers, that of the function table positive (`DeclsAssumption`, `DriverAssumption`) |

**Induction.** The induction theorems of the library take a predicate, which the
provers cannot instantiate. `Least` and `Induction` take a *set* of natural numbers
instead: a property is used as the set of the numbers that have it. With them what
a recursive function computes is proved as well (`SizesOf`, `FlatCode`, `ModesOf`, `Run`): first a
function that satisfies the recursion exists, by induction, then the one that
`CHOOSE` picks satisfies it.

**SymbolTable_proofs.** `Inv` is `TypeOK`, `WatermarksOnList`, `ChainsUnbroken` and
`HasOldest`. "Every name is reachable" is not inductive: undoing a change frees a
slot, and nothing in the present table says that no other name was inserted
through it. `ChainsUnbroken` therefore speaks of the present table *and* of every
table the undo list brings back (`TableAt`); an addition leaves the tables of
smaller depths as they are and adds one, an undo drops the newest.
`HasOldest` says that a slot changed above some depth of the list has an oldest
change there, so that the table at each depth is defined. From `Inv` follow
`Typing`, `ChainsNeverBreak`, `RestoreStaysOnList`, and the refinement
`TableIsScopedMap`: `env` is what a lookup finds, `saved` what it would find in the table
at each watermark, and a running restore counts as finished from its first step.
`OnlyFullOverflows` counts: a scan that finds neither the name nor a free slot has
visited all slots, for the probes of a name reach each of them; all are occupied,
and by `ChainsUnbroken` two slots never hold one name, so slots and names in scope
correspond one to one.

**RegAlloc_proofs.** `NoSharing` is not inductive since the allocator looks at busy
flags and not at other locations. `Inv` adds: the register of a located virtual
register is marked busy (`BusyMarked`), a spill's offset is determined by the number of
the virtual register and `stack_base` (`SpillsNumbered`), registers are distinct.
`NeverShared`, `SpillsAlwaysClear`, `BelowRspIsLast`, `AlwaysAligned` and
`AlwaysStable` follow by arithmetic on the two layout formulas.

**Machine_proofs.** A property of all code the encoders return, in four layers.

1. Each machine instruction has a lemma with the part of the machine it changes
   (`RunMov`, `RunPush`, ...), and `Run` of a concatenation is the one `Run` after the
   other (`RunTwo`).
2. Each encoder has a lemma that composes these, by the kinds of its operands
   (`MulCode`, `DivCode`, `CallCode`, ...): the destination then has the value of the IR operation on what the
   operands had *before*, and every other allocatable register and word of the frame in use,
   and rsp, is what it was (`Effect`). This is where an encoder that used
   a scratch register too early, or overwrote an operand that is also the
   destination, would be found. A call keeps rsp a multiple of 16 by the parity of the saved
   registers and of the words pushed.
3. What `get_location` promises over the requests of an instruction: every operand has a
   location, no earlier one moves, no two virtual registers share one (`AllocOk`,
   `Later`, `LocateRun`), and spills, local slots and saved words are apart.
4. `IInv`. `ValuesKept` alone is not inductive: the epilogue needs the saved words, a call
   needs rsp to lie below all that is live, and the next virtual register must be
   one that nothing has yet. `IInv` therefore describes the whole frame between two IR
   instructions (`BodyOk`): the return address, rbp and the five saved registers in their words
   (`SavedWords`), rsp where the frame puts it, values and locals in place, and what is
   defined is `1 .. k` with `k` below `vreg_count` (`Numbered`). The last of these is why
   the slot below rsp is harmless: only virtual register `vreg_count - 1` can lie there,
   and a call comes before it is defined, since the call itself needs a new one.

`IInv` was checked with TLC in the states of the run `machine` before it was proved; from it follow `CompiledRunsAsIR` and
`ConventionAlwaysKept`.

**Jit_proofs.** Three layers.

1. The code. Every encoder returns machine instructions with a length each (`IsCode`);
   the MOV of a callee's address is ten bytes long, occurs in the code of a call, and
   its immediate lies inside it; the code of a jump ends with its displacement. So
   an instruction takes up at least what its field needs (`InstructionSize`).
2. `Inv`: `trace` is what `Encode` produces from the instructions of the function,
   pass 1 stands at its end, and pass 2 stands at its entry `pos` with the context and
   size noted there. It needs `reset_state` to give both passes the same start, and
   that the encoders use nothing else of the context. `PassesAlwaysAgree` and
   `NeverMismatched` follow.
3. `LinkInv`. `JumpsLand` speaks of finished functions only and is not inductive.
   `CodeInv` describes the function at hand: offsets never decrease, fields lie inside
   their instructions, a label is placed once and is below `MAX_LABELS`. `PassInv`
   describes pass 2: the labels passed are the known ones with their addresses, every
   jump emitted holds the displacement to its label or waits among the patches, and
   what waits there waits for a label still to come. `MemOk` says that memory has
   the fields of finished functions, all below the buffer, and those emitted, and
   nothing else; `SitesOk` that the call sites are the first calls, in the order of
   their addresses, and all of them while there is room; `LinkedTo` that the sites
   passed by the link hold an address of their callee.

   `NeverAborted`: what pass 2 writes stays below the size of pass 1, since offsets
   never decrease. `LinkedAlways`: when the last instruction was emitted every label
   a jump goes to is known, so that nothing waits; fields of different instructions are
   apart, so that no write destroys another; and a call that is no site has
   `MAX_CALL_SITES` sites before it.

**Arena_proofs.** The invariant says that the blocks of the chain are disjoint and
page-aligned, with the header below the offset and the offset within the block
(`BlocksOk`), that the mapped memory is exactly their union, that it is writable
while the arena fills and executable when it was sealed, and that of two live objects one
ends before the other begins, each inside a block between header and offset.
`ObjectsSafe`, `NothingLost`, `WriteOrExecute`, `ScratchGivesBack` and the refinement
`ArenaImplementsPool` follow. The arithmetic rests on page and header being multiples of the
default alignment: otherwise a block could start with an object that is not aligned.

**Parser_proofs.** The state is a stack of calls to come, so the invariant gives each
step on the stack what has to lie below it (`StackInv` with the heights of `vals`), and
bounds the depth by the expressions that are open. `PanicInv` says where panic mode
can be on, `HoleInv` that a NULL among the values, or in a tree made from it, was
preceded by an error. `RecoveredBeforeStatements`, `LimitsHold` and `HolesAreReported`
follow; the last is the half of `ErrorsExact` that a caller relies on.

For `PrecedenceHolds` the steps on the stack form a chain (`PrecInv`). `PrecedenceRespected`
speaks of nodes when they are built; when the parser has descended into a right
operand, its left one waits in `vals` and the operator in a step further down. The
chain says, for every step, which value it will complete, at which token that value
starts, and what it is handed to: the operand of an operator must bind more tightly
than it, the operand on the left must end where the operator stands and bind at
least as tightly, an argument starts behind a comma or the parenthesis. It is stated
for texts without an error so far: recovery may leave any values behind.

**Lexer_proofs.** `SearchInv` ties the cursor to the reference: in the loop over blanks it is
outside comments, or at the newline behind one; in the loop of a block comment the mode
before it is `block`; and nothing from `gap` to the cursor is code. The counters are those of the
newlines before the cursor (`Placed`), wherever they were counted, so `PlacesAlwaysExact`
follows. For `TokensAlwaysExact` each way to make a token is one lemma: a run of letters or
digits stops where its class ends, a pair is preferred to its first character, no
symbol has three, and since letters, digits and marks are apart none of them can be
lengthened to a token of another kind.

**Driver_proofs.** One invariant for each promise: `FilesInv` (a descriptor or mapping
that is open is the one at hand or is tracked) for `NoLeak`; `ExitInv` (what was recorded
and printed, per phase) and `HoleInv` (a tree with a missing operand was preceded by an error) for `ExitHonest`; `TableInv` (the entries of the function
table come from declarations that passed the checks, in the order of files) for
`DefinitionsUnique` and `TablesLargeEnough`; `CallInv`, and `SiteInv` (a call of the code is
among the call sites unless these are full), for `CallsAgree`.

Only model-checked:

* liveness under fairness: `RestoreTerminates`, `Finishes`, and `Terminates` of Parser and
  Driver;
* Semantic, IRGen and Lowering, whose operators are recursive over programs and
  declared RECURSIVE, a form the provers do not take; `SameMeaning`, `LossWarned`,
  `GeneratorErrorsExplained` and `IrAsJitExpects` would need an induction over trees;
* of Parser `ValidAccepted`, the other half of `ErrorsExact`: that a text is valid is a label
  of the patterns, which only TLC enumerates.

## 6. Not modelled

* Bytes of encodings, values of immediates, 64-bit arithmetic of the compiled program
  (Lowering has it on scaled words).
* Texts of messages and positions in them; the slots of the analyzer's hash
  tables (a scope is a map with a capacity); chunks of instructions (a sequence).
* The IR printer, which only writes, `bounds.h`, which only reads, and the build and
  test scripts.
* The compiled program once it runs: it may return, go on for ever, or die (a division by
  zero, a call through the placeholder), which Driver's state `running` covers without telling them apart.
* In Lowering the sizes of `uint64` beyond the range of the signed word: its values
  there would be read as negative by every operator. The run takes `uint8` and `uint32`.
* Functions without a caller: `resource_track_fd`, `resource_track_file`,
  `resource_untrack_fd`, the validators of identifiers and literals, `arena_reset`,
  `arena_alloc_zeroed`, `arena_sprintf` and the statistics of the arena.
* Bodies that C itself leaves without a meaning: a declaration as an unbraced branch,
  an initializer that mentions its own variable, an overflow of the wider type.

## 7. Plan

1. **Lowering** with recursive functions instead of RECURSIVE operators, as far as that
   leaves it readable.
