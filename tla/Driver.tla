-------------------------------- MODULE Driver --------------------------------
(***************************************************************************)
(* The driver (srcs/main.c, compile/compile.c, cleanup/cleanup.c,          *)
(* error_handler/error_handler.c, validation/validation.c, map_input of    *)
(* utils.c) and what crosses files: the global function table              *)
(* (semantic.c), the compile pass and the link (jit.c).                    *)
(*                                                                         *)
(* A declaration is the name, return type and parameter count of a         *)
(* function, whether it is a prototype, and the calls in its body.  A call *)
(* is the name, the number of arguments and whether analyze_expression     *)
(* visits it; two calls of a body that agree in these need a further field *)
(* to be two.  The rest of a body is abstracted to the outcomes of the     *)
(* parser, the analyzer, the IR generator and the JIT; the state of the    *)
(* file system is abstracted to the outcomes of the system calls, which    *)
(* may differ from one call to the next.                                   *)
(*                                                                         *)
(* Three endings skip the cleanup label of main: a read through a NULL     *)
(* operand of a recovered tree, exit(1) in symbol_table_add, and an        *)
(* arena_alloc (or a recursion) for which no memory is left.               *)
(***************************************************************************)
EXTENDS Integers, FiniteSets, SequencesExt

CONSTANTS FileCounts,            \* the values of argc - 1 considered
          Decls,                 \* the declarations considered
          MaxDecls,              \* bound: declarations of the whole program
          MAX_SOURCE_FILES,
          MAX_FUNCTION_COUNT,
          MAX_PARAMS_PER_FUNCTION,
          MAX_CALL_SITES

\* A declaration is a record; its names and types are not restricted.
ASSUME DeclsAssumption ==
    \A d \in Decls : d.is_prototype \in BOOLEAN /\ IsFiniteSet(d.calls)

ASSUME DriverAssumption == /\ FileCounts \subseteq Nat
                           /\ MaxDecls \in Nat
                           /\ MAX_SOURCE_FILES \in Nat
                           /\ MAX_FUNCTION_COUNT \in Nat \ {0}
                           /\ MAX_PARAMS_PER_FUNCTION \in Nat
                           /\ MAX_CALL_SITES \in Nat

VARIABLES pc,
          argc,
          next,                  \* the loop counter of the phase
          all_ok,                \* the all_ok of the phase
          count, capacity,       \* of the CompilationContext
          decls,                 \* the ASTs: declarations of the parsed units
          holes,                 \* the units whose AST lacks an operand
          global,                \* ctx->global.functions
          registry,              \* names in jit_ctx.registry
          code_calls,            \* the calls in the code, with their function
          call_sites,            \* those of them in jit_ctx.call_sites
          recorded,              \* the levels present in the ErrorContext
          reported,              \* the levels error_print_all has printed
          fds, maps,             \* what the process holds open and mapped
          tracker,               \* ResourceTracker
          arenas,                \* arenas not yet freed
          ran, exit_code

files == <<fds, maps, tracker, count, capacity>>
code == <<registry, code_calls, call_sites>>
program == <<decls, holes, global, code>>
outcome == <<ran, exit_code, reported, arenas>>
vars == <<pc, argc, next, all_ok, files, program, recorded, outcome>>

Levels == {"warning", "error", "fatal"}

\* Calls of error_add; only the levels that are present are kept.
error_add(levels) == recorded' = recorded \cup levels

\* Wrong: one entry less than there are files.
resource_tracker_init_Short(n) == [capacity |-> n - 2, tracked |-> <<>>]

\* main up to compile_ctx_init: the tracker is sized by argc, which also counts
\* the program's own name.
resource_tracker_init(n) == [capacity |-> n, tracked |-> <<>>]

Init ==
    /\ pc = "init"
    /\ argc \in {n + 1 : n \in FileCounts}
    /\ next = 1
    /\ all_ok = TRUE
    /\ count = 0
    /\ capacity = 0
    /\ decls = <<>>
    /\ global = <<>>
    /\ registry = <<>>
    /\ holes = {}
    /\ code_calls = {}
    /\ call_sites = {}
    /\ recorded = {}
    /\ reported = {}
    /\ fds = {}
    /\ maps = {}
    /\ tracker = resource_tracker_init(argc)
    /\ arenas = {"ast", "jit_data", "jit_exec"}
    /\ ran = FALSE
    /\ exit_code = 1

\* Entering a phase restarts its counter and its all_ok.
Goto(phase) == pc' = phase /\ next' = 1 /\ all_ok' = TRUE

Fail(levels) == error_add(levels) /\ Goto("cleanup")

\* The process ends here and now, without reaching the cleanup label.
Die(how, levels) == pc' = how /\ error_add(levels) /\ UNCHANGED <<next, all_ok>>

\* compile_ctx_init.
CtxInit ==
    /\ pc = "init"
    /\ \/ /\ argc - 1 \in 1 .. MAX_SOURCE_FILES
          /\ capacity' = argc - 1
          /\ Goto("validate")
          /\ UNCHANGED recorded
       \/ \* no file, too many files, or no memory for the units
          Fail({"fatal"}) /\ UNCHANGED capacity
    /\ UNCHANGED <<argc, count, fds, maps, tracker, program, outcome>>

\* ---- compile_ctx_add_file, for argv[next] ----

\* The unit limit, then validate_source_file: an empty file is only a warning,
\* whether or not its name is accepted.
ValidateFile ==
    /\ pc = "validate"
    /\ next < argc
    /\ \E empty \in SUBSET {"warning"} :
          \/ /\ count < capacity
             /\ pc' = "open"
             /\ error_add(empty)
             /\ UNCHANGED <<next, all_ok>>
          \/ Fail({"fatal"} \cup empty)
    /\ UNCHANGED <<argc, files, program, outcome>>

OpenFile ==
    /\ pc = "open"
    /\ \/ /\ fds' = fds \cup {next}
          /\ pc' = "map"
          /\ UNCHANGED <<next, all_ok, recorded>>
       \/ Fail({"fatal"}) /\ UNCHANGED fds
    /\ UNCHANGED <<argc, maps, tracker, count, capacity, program, outcome>>

\* Wrong: the descriptor is closed only after a successful mmap.
MapFile_LeavesOpen ==
    /\ pc = "map"
    /\ \/ /\ maps' = maps \cup {next}
          /\ fds' = fds \ {next}
          /\ pc' = "track"
          /\ UNCHANGED <<next, all_ok, recorded>>
       \/ Fail({"fatal"}) /\ UNCHANGED <<maps, fds>>
    /\ UNCHANGED <<argc, tracker, count, capacity, program, outcome>>

\* map_input: the descriptor is closed whether or not fstat and mmap succeed.
MapFile ==
    /\ pc = "map"
    /\ fds' = fds \ {next}
    /\ \/ /\ maps' = maps \cup {next}
          /\ pc' = "track"
          /\ UNCHANGED <<next, all_ok, recorded>>
       \/ Fail({"fatal"}) /\ UNCHANGED maps
    /\ UNCHANGED <<argc, tracker, count, capacity, program, outcome>>

TrackerFull == Len(tracker.tracked) >= tracker.capacity

\* resource_track_mmap, which unmaps what it cannot track, and the new unit.
TrackFile ==
    /\ pc = "track"
    /\ IF TrackerFull
       THEN Fail({"fatal"}) /\ maps' = maps \ {next} /\ UNCHANGED <<tracker, count>>
       ELSE /\ tracker' = [tracker EXCEPT !.tracked = Append(@, next)]
            /\ count' = count + 1
            /\ next' = next + 1
            /\ pc' = "validate"
            /\ UNCHANGED <<maps, recorded, all_ok>>
    /\ UNCHANGED <<argc, fds, capacity, program, outcome>>

AllLoaded ==
    /\ pc = "validate"
    /\ next >= argc
    /\ Goto("parse")
    /\ UNCHANGED <<argc, files, program, recorded, outcome>>

\* ---- compile_parse_all ----

\* The AST_FUNCTION of d in the AST of unit u.
InUnit(u, d) == [unit |-> u, name |-> d.name, ret |-> d.ret, params |-> d.params,
                 is_prototype |-> d.is_prototype, calls |-> d.calls]

\* parser_parse of one unit.  Syntax errors inside a function are recorded and
\* recovered from, and may leave a tree that lacks an operand; it gives up (NULL)
\* only outside functions, with an error.  parse_assignment and parse_call read
\* through a left side that a recorded error has made NULL.
ParseUnit ==
    /\ pc = "parse"
    /\ next <= count
    /\ \/ \E ds \in BoundedSeq(Decls, MaxDecls - Len(decls)) :
             /\ Len(ds) <= MAX_FUNCTION_COUNT
             /\ decls' = decls \o [k \in DOMAIN ds |-> InUnit(next, ds[k])]
             /\ \/ UNCHANGED <<recorded, holes>>
                \/ error_add({"error"}) /\ holes' \in {holes, holes \cup {next}}
             /\ next' = next + 1
             /\ UNCHANGED <<pc, all_ok>>
       \/ /\ error_add({"error"})
          /\ next' = next + 1
          /\ all_ok' = FALSE
          /\ UNCHANGED <<pc, decls, holes>>
       \/ Die("crashed", {"error"}) /\ UNCHANGED <<decls, holes>>
    /\ UNCHANGED <<argc, files, global, code, outcome>>

\* Wrong: waits for an element after the last one.
EndLoop_PastEnd(phase, following, n) ==
    /\ pc = phase
    /\ next > n + 1
    /\ Goto(IF all_ok THEN following ELSE "cleanup")
    /\ UNCHANGED <<argc, files, program, recorded, outcome>>

\* A phase whose loop is over: on to the next one, or to cleanup.
EndLoop(phase, following, n) ==
    /\ pc = phase
    /\ next > n
    /\ Goto(IF all_ok THEN following ELSE "cleanup")
    /\ UNCHANGED <<argc, files, program, recorded, outcome>>

ParseDone == EndLoop("parse", "declare", count)

\* ---- compile_analyze_all ----

Entry(name) == CHOOSE k \in DOMAIN global : global[k].name = name

Known(name) == \E k \in DOMAIN global : global[k].name = name

\* Does the declaration have the type of the entry?
SameType(e, d) == e.ret = d.ret /\ e.params = d.params

\* Wrong: a second definition is taken for a redeclaration.
Acceptable_Redefinition(d) ==
    /\ d.params <= MAX_PARAMS_PER_FUNCTION
    /\ IF Known(d.name) THEN SameType(global[Entry(d.name)], d) ELSE Len(global) < MAX_FUNCTION_COUNT

\* Wrong: the table has no limit.
Acceptable_NoLimit(d) ==
    /\ d.params <= MAX_PARAMS_PER_FUNCTION
    /\ Known(d.name) => /\ SameType(global[Entry(d.name)], d)
                        /\ global[Entry(d.name)].is_prototype \/ d.is_prototype

\* semantic_global_declare_function: may the declaration join the table?
Acceptable(d) ==
    /\ d.params <= MAX_PARAMS_PER_FUNCTION
    /\ IF Known(d.name)
       THEN LET e == global[Entry(d.name)] IN
            /\ SameType(e, d)
            /\ e.is_prototype \/ d.is_prototype
       ELSE Len(global) < MAX_FUNCTION_COUNT

\* ... and the table afterwards: a definition completes a prototype.
Declared(d) ==
    IF ~Known(d.name)
    THEN Append(global, [name |-> d.name, ret |-> d.ret, params |-> d.params,
                         is_prototype |-> d.is_prototype])
    ELSE [global EXCEPT ![Entry(d.name)].is_prototype = @ /\ d.is_prototype]

DeclareFunction ==
    LET d == decls[next] IN
    /\ pc = "declare"
    /\ next <= Len(decls)
    /\ next' = next + 1
    /\ IF Acceptable(d)
       THEN global' = Declared(d) /\ UNCHANGED <<all_ok, recorded>>
       ELSE error_add({"error"}) /\ all_ok' = FALSE /\ UNCHANGED global
    /\ UNCHANGED <<pc, argc, files, decls, holes, code, outcome>>

DeclareDone == EndLoop("declare", "analyze", Len(decls))

VisibleIn(u) == {decls[k].name : k \in {j \in DOMAIN decls : decls[j].unit = u}}

\* Wrong: the arguments are not counted.
CallOk_AnyCount(u, c) == c.func \in VisibleIn(u) /\ Known(c.func)

\* The AST_CALL case of analyze_expression, for the calls of unit u.
CallOk(u, c) ==
    /\ c.func \in VisibleIn(u)
    /\ Known(c.func)
    /\ global[Entry(c.func)].params = c.args

\* analyze_expression takes an AST_GREATER for a leaf (its default case): the
\* calls among its operands are not visited.
CallsOk(u) == \A k \in DOMAIN decls :
    decls[k].unit = u => \A c \in decls[k].calls : c.visited => CallOk(u, c)

\* semantic_analyze of one unit: it fails exactly when it records an error.
\* analyze_expression accepts a missing operand and then reads its type, after
\* whatever it has recorded in the rest of the unit.
AnalyzeUnit ==
    /\ pc = "analyze"
    /\ next <= count
    /\ \E narrowing \in SUBSET {"warning"} :
          \/ /\ CallsOk(next)
             /\ error_add(narrowing)
             /\ next' = next + 1
             /\ UNCHANGED <<pc, all_ok>>
          \/ /\ error_add({"error"} \cup narrowing)
             /\ next' = next + 1
             /\ all_ok' = FALSE
             /\ UNCHANGED pc
          \/ /\ next \in holes
             /\ \E wrong \in SUBSET {"error"} : Die("crashed", wrong \cup narrowing)
    /\ UNCHANGED <<argc, files, program, outcome>>

AnalyzeDone == EndLoop("analyze", "jit", count)

\* ---- jit_compile_pass, jit_link_all, arena_set_prot ----

\* Wrong: a function whose calls do not all fit records none of them.
EncodeCalls_AllOrNothing(new) ==
    /\ code_calls' = code_calls \cup new
    /\ call_sites' = IF Cardinality(call_sites \cup new) <= MAX_CALL_SITES
                     THEN call_sites \cup new
                     ELSE call_sites

\* encode_call for the calls of one function: all of them are in the code, but
\* call_sites takes no more than its capacity, and nothing is said of the rest.
EncodeCalls(new) ==
    /\ code_calls' = code_calls \cup new
    /\ \E kept \in SUBSET new :
          /\ call_sites' = call_sites \cup kept
          /\ \/ kept = new /\ Cardinality(call_sites') <= MAX_CALL_SITES
             \/ Cardinality(call_sites') = MAX_CALL_SITES

\* ir_gen leaves out what it cannot translate, after an error of its own or of
\* the parser, and still returns a function; jit_compile_function fails for want
\* of labels, or when the registry is full.  gen_if and gen_while read the type
\* of a condition that may be missing; symbol_table_add calls exit(1) when its
\* table is full.
CompileFunction ==
    LET d == decls[next] IN
    /\ pc = "jit"
    /\ next <= Len(decls)
    /\ \/ /\ d.is_prototype
          /\ next' = next + 1
          /\ UNCHANGED <<pc, all_ok, code, recorded>>
       \/ /\ ~d.is_prototype
          /\ Len(registry) < MAX_FUNCTION_COUNT
          /\ registry' = Append(registry, d.name)
          /\ next' = next + 1
          /\ \E dropped \in SUBSET {"error"} : error_add(dropped)
          /\ \E emitted \in SUBSET d.calls :
                /\ emitted # d.calls => "error" \in recorded'
                /\ EncodeCalls({[from |-> next, call |-> c] : c \in emitted})
          /\ UNCHANGED <<pc, all_ok>>
       \/ /\ ~d.is_prototype
          /\ \E dropped \in SUBSET {"error"} :
                \/ Fail({"fatal"} \cup dropped)
                \/ Die("exited", dropped)
                \/ d.unit \in holes /\ Die("crashed", dropped)
          /\ UNCHANGED code
    /\ UNCHANGED <<argc, files, decls, holes, global, outcome>>

CompileDone == EndLoop("jit", "link", Len(decls))

\* jit_link_all.
Link ==
    /\ pc = "link"
    /\ IF \A s \in call_sites : s.call.func \in Range(registry)
       THEN Goto("protect") /\ UNCHANGED recorded
       ELSE Fail({"error"})
    /\ UNCHANGED <<argc, files, program, outcome>>

\* arena_set_prot; a failure is only printed, nothing is recorded.
SetProt ==
    /\ pc = "protect"
    /\ \/ Goto("execute")
       \/ Goto("cleanup")
    /\ UNCHANGED <<argc, files, program, recorded, outcome>>

\* ---- execution and cleanup ----

Execute ==
    /\ pc = "execute"
    /\ IF "main" \in Range(registry)
       THEN pc' = "running" /\ ran' = TRUE /\ UNCHANGED <<next, all_ok, recorded>>
       ELSE Fail({"fatal"}) /\ UNCHANGED ran
    /\ UNCHANGED <<argc, files, program, exit_code, reported, arenas>>

\* The value main returned is printed; it is not the exit code.
MainReturns ==
    /\ pc = "running"
    /\ exit_code' = 0
    /\ Goto("cleanup")
    /\ UNCHANGED <<argc, files, program, recorded, ran, reported, arenas>>

\* Wrong: a list that holds only warnings is not printed.
PrintErrors_NoWarnings ==
    /\ pc = "cleanup"
    /\ reported' = IF recorded \subseteq {"warning"} THEN {} ELSE recorded
    /\ Goto("release")
    /\ UNCHANGED <<argc, files, program, recorded, ran, exit_code, arenas>>

\* error_print_all reads nodes in the ast arena.
PrintErrors ==
    /\ pc = "cleanup"
    /\ reported' = IF "ast" \in arenas THEN recorded ELSE {}
    /\ Goto("release")
    /\ UNCHANGED <<argc, files, program, recorded, ran, exit_code, arenas>>

\* resource_cleanup_all; the tracker's entries are in the ast arena too.
ReleaseFiles ==
    /\ pc = "release"
    /\ maps' = IF "ast" \in arenas THEN maps \ Range(tracker.tracked) ELSE maps
    /\ tracker' = [tracker EXCEPT !.tracked = <<>>]
    /\ Goto("free")
    /\ UNCHANGED <<argc, fds, count, capacity, program, recorded, outcome>>

FreeArenas ==
    /\ pc = "free"
    /\ arenas' = {}
    /\ Goto("exit")
    /\ UNCHANGED <<argc, files, program, recorded, ran, exit_code, reported>>

Load == CtxInit \/ ValidateFile \/ OpenFile \/ MapFile \/ TrackFile \/ AllLoaded

Compile == \/ ParseUnit \/ ParseDone \/ DeclareFunction \/ DeclareDone
           \/ AnalyzeUnit \/ AnalyzeDone \/ CompileFunction \/ CompileDone \/ Link \/ SetProt

Finish == Execute \/ PrintErrors \/ ReleaseFiles \/ FreeArenas

\* The phases that allocate: the arenas grow by mmap, the recursive phases by the
\* stack.
Allocating == {"init", "validate", "open", "map", "track", "parse", "declare", "analyze",
               "jit", "link", "execute"}

\* No memory is left: most callers of arena_alloc, error_add among them, write
\* through the NULL it returns; symbol_table_add calls exit(1).
OutOfMemory ==
    /\ pc \in Allocating
    /\ Die("starved", {})
    /\ UNCHANGED <<argc, files, program, outcome>>

\* Everything but the program that was compiled, which need not return.
Progress == Load \/ Compile \/ Finish

Next == Progress \/ MainReturns \/ OutOfMemory

\* One thread, no waiting: a step of the driver that can be taken is taken.
Spec == Init /\ [][Next]_vars /\ WF_vars(Progress)

-----------------------------------------------------------------------------
(* Properties *)

\* "resource tracker full" and "compilation unit overflow" are unreachable:
\* there is room for every file on the command line.
RoomForFiles ==
    /\ pc = "track" => ~TrackerFull
    /\ pc = "validate" /\ next < argc => count < capacity

\* When main returns, through whichever of its many gotos and wherever a system
\* call failed, no descriptor is open, nothing is mapped and no arena is left.
\* (The endings that skip the cleanup label leave all of it to the system.)
NothingLeaks == pc = "exit" => fds = {} /\ maps = {} /\ arenas = {}

AfterDeclare == {"analyze", "jit", "link", "protect", "execute", "running"}

\* Once the table is built, however the declarations of a name were spread over
\* the files, they agree, and at most one of them is a definition: the first
\* match jit_link_all takes is the only one.
OneDefinition ==
    pc \in AfterDeclare =>
        \A i, j \in DOMAIN decls :
            decls[i].name = decls[j].name =>
                /\ decls[i].ret = decls[j].ret /\ decls[i].params = decls[j].params
                /\ ~decls[i].is_prototype /\ ~decls[j].is_prototype => i = j

\* The table is never overrun, and since one definition of each name passes it,
\* the JIT registry, which has the same limit, is never too small for them.
RegistryFits ==
    /\ Len(global) <= MAX_FUNCTION_COUNT
    /\ pc = "jit" =>
        Cardinality({k \in DOMAIN decls : ~decls[k].is_prototype}) <= MAX_FUNCTION_COUNT

\* Each table is as large as what the phase before it lets through.
TablesSuffice == RoomForFiles /\ RegistryFits

\* c passes the arguments that a declaration of its callee expects.
Passes(c, k) == decls[k].name = c.func /\ decls[k].params = c.args

\* The program runs only when every call in its code that the analyzer visited
\* passes the arguments its callee is declared with, in whichever file and in
\* whichever order it was declared, and when every call that was recorded for
\* the link has a compiled callee.  A call goes unrecorded only after
\* MAX_CALL_SITES others: it may then have no callee, and is never patched.
CallsMatch ==
    pc \in {"execute", "running"} =>
        \A s \in code_calls :
            /\ s.call.visited => \E k \in DOMAIN decls : Passes(s.call, k)
            /\ \/ /\ s \in call_sites
                  /\ s.call.func \in Range(registry)
                  /\ s.call.visited =>
                        \E k \in DOMAIN decls : Passes(s.call, k) /\ ~decls[k].is_prototype
               \/ s \notin call_sites /\ Cardinality(call_sites) = MAX_CALL_SITES

\* Every level that was recorded has been printed when main returns, and exit
\* code 0 means that the compiled main returned and nothing fatal happened.  A
\* NULL is read only after an error was recorded, which is then never printed.
HonestExit ==
    /\ pc = "exit" => reported = recorded
    /\ exit_code = 0 => ran /\ "fatal" \notin recorded
    /\ pc = "crashed" => "error" \in recorded

\* The driver returns from main, or dies, unless the compiled program keeps
\* running.
Terminates == <>(pc \in {"exit", "running", "crashed", "exited", "starved"})

\* What error_print_all tells the user: a compilation with errors has failed.
ErrorsFail == ran => "error" \notin recorded
===============================================================================
