----------------------------- MODULE Driver_proofs -----------------------------
(***************************************************************************)
(* Proofs about the driver, for every number of files, every program and   *)
(* every limit.                                                            *)
(***************************************************************************)
EXTENDS Driver, FiniteSetTheorems, TLAPS

Loading == {"validate", "open", "map", "track"}

Ending == {"cleanup", "release", "free", "exit"}

\* The endings that skip the cleanup label.
Dead == {"crashed", "exited", "starved"}

Phases == {"init", "parse", "declare"} \cup Loading \cup AfterDeclare \cup Ending \cup Dead

\* The declarations as ParseUnit leaves them in the units.
Parsed == {InUnit(u, d) : u \in Nat, d \in Decls}

\* The entries that declarations leave in the table.
Entries == {[name |-> p.name, ret |-> p.ret, params |-> p.params, is_prototype |-> b] :
                p \in Parsed, b \in BOOLEAN}

Names == {p.name : p \in Parsed}

TypeInv ==
    /\ pc \in Phases
    /\ argc \in Nat \ {0}
    /\ next \in Nat \ {0}
    /\ count \in Nat
    /\ capacity \in Nat
    /\ decls \in Seq(Parsed)
    /\ global \in Seq(Entries)
    /\ registry \in Seq(Names)
    /\ tracker \in [capacity : Nat, tracked : Seq(Nat)]
    /\ exit_code \in {0, 1}

\* What ParseUnit adds to a declaration is its unit, and only that.
LEMMA ParsedFields ==
    ASSUME NEW u \in Nat, NEW d \in Decls
    PROVE  LET p == InUnit(u, d)
           IN  /\ p.unit = u
               /\ p.is_prototype \in BOOLEAN
               /\ IsFiniteSet(p.calls)
  BY DeclsAssumption DEF InUnit

\* A parsed declaration is a prototype or it is not, and its calls can be counted.
LEMMA ParsedType ==
    ASSUME NEW p \in Parsed
    PROVE  p.is_prototype \in BOOLEAN /\ IsFiniteSet(p.calls)
  BY ParsedFields DEF Parsed

\* The declarations of one more unit.
LEMMA ParsedUnit ==
    ASSUME TypeInv, NEW n \in Int, NEW ds \in BoundedSeq(Decls, n)
    PROVE  LET new == [k \in DOMAIN ds |-> InUnit(next, ds[k])]
               all == decls \o new
           IN  /\ all \in Seq(Parsed)
               /\ \A k \in DOMAIN all :
                     \/ k \in DOMAIN decls /\ all[k] = decls[k]
                     \/ all[k].unit = next
<1> DEFINE new == [k \in DOMAIN ds |-> InUnit(next, ds[k])]
<1>1. PICK m \in Nat : ds \in [1 .. m -> Decls]
  BY DEF BoundedSeq, SeqOf
<1>2. DOMAIN new = 1 .. m
  BY <1>1
<1>3. \A k \in 1 .. m : new[k] \in Parsed /\ new[k].unit = next
  <2> TAKE k \in 1 .. m
  <2>1. new[k] = InUnit(next, ds[k]) /\ ds[k] \in Decls
    BY <1>1
  <2> HIDE DEF new
  <2> QED BY <2>1, ParsedFields DEF Parsed, TypeInv
<1> HIDE DEF new
<1>4. new \in Seq(Parsed) /\ Len(new) = m
  <2>1. new \in [1 .. m -> Parsed]
    <3>1. new = [k \in 1 .. m |-> new[k]]
      BY <1>1 DEF new
    <3> QED BY <1>3, <3>1
  <2> QED BY <2>1, <1>2
<1>5. \A k \in DOMAIN (decls \o new) :
         \/ k \in DOMAIN decls /\ (decls \o new)[k] = decls[k]
         \/ \E j \in 1 .. m : (decls \o new)[k] = new[j]
  BY <1>4 DEF TypeInv
<1> QED BY <1>3, <1>4, <1>5 DEF TypeInv, new

\* A declaration keeps the table a table of entries.
LEMMA DeclaredType ==
    ASSUME NEW d \in Parsed, global \in Seq(Entries)
    PROVE  Declared(d) \in Seq(Entries)
<1>1. CASE ~Known(d.name)
  <2>1. [name |-> d.name, ret |-> d.ret, params |-> d.params,
         is_prototype |-> d.is_prototype] \in Entries
    BY ParsedType DEF Entries
  <2> QED BY <1>1, <2>1 DEF Declared
<1>2. CASE Known(d.name)
  <2> DEFINE i == Entry(d.name)
             e == [global[i] EXCEPT !.is_prototype = @ /\ d.is_prototype]
  <2>1. i \in 1 .. Len(global)
    BY <1>2 DEF Known, Entry
  <2> HIDE DEF i
  <2>2. PICK p \in Parsed, b \in BOOLEAN :
           global[i] = [name |-> p.name, ret |-> p.ret, params |-> p.params, is_prototype |-> b]
    BY <2>1 DEF Entries
  <2>3. e = [name |-> p.name, ret |-> p.ret, params |-> p.params,
             is_prototype |-> b /\ d.is_prototype]
    BY <2>2
  <2>4. PICK c \in BOOLEAN :
           e = [name |-> p.name, ret |-> p.ret, params |-> p.params, is_prototype |-> c]
    <3>1. CASE b /\ d.is_prototype
      BY <2>3, <3>1
    <3>2. CASE ~(b /\ d.is_prototype)
      BY <2>3, <3>2
    <3> QED BY <3>1, <3>2
  <2> HIDE DEF e
  <2>5. e \in Entries
    BY <2>4 DEF Entries
  <2>6. Declared(d) = [global EXCEPT ![i] = e]
    BY <1>2, <2>1 DEF Declared, i, e
  <2> QED BY <2>1, <2>5, <2>6
<1> QED BY <1>1, <1>2

\* The types of the driver's state are kept by every step.
LEMMA TypeStep == TypeInv /\ [Next]_vars => TypeInv'
<1> SUFFICES ASSUME TypeInv, [Next]_vars PROVE TypeInv'
  OBVIOUS
<1> USE DEF TypeInv, Goto, Fail
<1>1. CASE CtxInit
  BY <1>1, DriverAssumption DEF CtxInit, program, code, outcome, Phases, Loading, Ending
<1>2. CASE ValidateFile
  BY <1>2 DEF ValidateFile, files, program, code, outcome, Phases, Loading, Ending
<1>3. CASE OpenFile
  BY <1>3 DEF OpenFile, program, code, outcome, Phases, Loading, Ending
<1>4. CASE MapFile
  BY <1>4 DEF MapFile, program, code, outcome, Phases, Loading, Ending
<1>5. CASE TrackFile
  <2>1. CASE TrackerFull
    BY <1>5, <2>1 DEF TrackFile, program, code, outcome, Phases, Loading, Ending
  <2>2. CASE ~TrackerFull
    <3>1. tracker' = [tracker EXCEPT !.tracked = Append(tracker.tracked, next)]
      BY <1>5, <2>2 DEF TrackFile
    <3>2. Append(tracker.tracked, next) \in Seq(Nat)
      OBVIOUS
    <3>3. tracker' \in [capacity : Nat, tracked : Seq(Nat)]
      BY <3>1, <3>2
    <3>4. /\ pc' = "validate" /\ next' = next + 1 /\ count' = count + 1
          /\ UNCHANGED <<argc, capacity, program, outcome>>
      BY <1>5, <2>2 DEF TrackFile
    <3> QED BY <3>3, <3>4 DEF program, code, outcome, Phases, Loading
  <2> QED BY <2>1, <2>2
<1>6. CASE AllLoaded
  BY <1>6 DEF AllLoaded, files, program, code, outcome, Phases, Loading, Ending
<1>7. CASE ParseUnit
  <2>1. MaxDecls - Len(decls) \in Int
    BY DriverAssumption
  <2>2. \/ UNCHANGED decls
        \/ \E ds \in BoundedSeq(Decls, MaxDecls - Len(decls)) :
              decls' = decls \o [k \in DOMAIN ds |-> InUnit(next, ds[k])]
    BY <1>7, Zenon DEF ParseUnit
  <2>3. decls' \in Seq(Parsed)
    BY <2>1, <2>2, ParsedUnit
  <2>4. pc' \in {pc, "crashed"} /\ next' \in {next, next + 1}
    BY <1>7, Zenon DEF ParseUnit, Die
  <2>5. UNCHANGED <<argc, files, global, code, outcome>>
    BY <1>7 DEF ParseUnit
  <2> QED BY <2>3, <2>4, <2>5 DEF files, code, outcome, Phases, Dead
<1>8. ASSUME NEW phase, NEW following \in {"declare", "analyze", "jit", "link"}, NEW n,
             EndLoop(phase, following, n)
      PROVE  TypeInv'
  BY <1>8 DEF EndLoop, files, program, code, outcome, Phases, Loading, AfterDeclare, Ending
<1>9. CASE DeclareFunction
  <2>1. decls[next] \in Parsed
    BY <1>9 DEF DeclareFunction
  <2>2. global' \in Seq(Entries)
    BY <1>9, <2>1, DeclaredType DEF DeclareFunction
  <2> QED BY <1>9, <2>2 DEF DeclareFunction, files, code, outcome
<1>10. CASE AnalyzeUnit
  <2>1. pc' \in {pc, "crashed"} /\ next' \in {next, next + 1}
    BY <1>10, Zenon DEF AnalyzeUnit, Die
  <2> QED BY <1>10, <2>1 DEF AnalyzeUnit, files, program, code, outcome, Phases, Dead
<1>11. CASE CompileFunction
  <2>1. decls[next].name \in Names
    BY <1>11 DEF CompileFunction, Names
  <2>2. UNCHANGED registry \/ registry' = Append(registry, decls[next].name)
    BY <1>11, Zenon DEF CompileFunction, code
  <2>3. registry' \in Seq(Names)
    <3>1. registry \in Seq(Names)
      OBVIOUS
    <3> QED BY ONLY <2>1, <2>2, <3>1
  <2>4. pc' \in {pc, "cleanup", "exited", "crashed"} /\ next' \in {next, next + 1, 1}
    BY <1>11, Zenon DEF CompileFunction, Die
  <2> QED BY <1>11, <2>3, <2>4 DEF CompileFunction, files, outcome, Phases, Ending, Dead
<1>12. CASE Link
  BY <1>12 DEF Link, files, program, code, outcome, Phases, AfterDeclare, Ending
<1>13. CASE SetProt
  BY <1>13 DEF SetProt, files, program, code, outcome, Phases, AfterDeclare, Ending
<1>14. CASE Execute
  BY <1>14 DEF Execute, files, program, code, Phases, AfterDeclare, Ending
<1>15. CASE MainReturns
  BY <1>15 DEF MainReturns, files, program, code, Phases, Ending
<1>16. CASE PrintErrors
  BY <1>16 DEF PrintErrors, files, program, code, Phases, Ending
<1>17. CASE ReleaseFiles
  <2>1. tracker' = [tracker EXCEPT !.tracked = <<>>] /\ <<>> \in Seq(Nat)
    BY <1>17 DEF ReleaseFiles
  <2>2. tracker' \in [capacity : Nat, tracked : Seq(Nat)]
    BY <2>1
  <2> QED BY <1>17, <2>2 DEF ReleaseFiles, program, code, outcome, Phases, Ending
<1>18. CASE FreeArenas
  BY <1>18 DEF FreeArenas, files, program, code, Phases, Ending
<1>19. CASE UNCHANGED vars
  BY <1>19 DEF vars, files, program, code, outcome
<1>20. CASE OutOfMemory
  BY <1>20 DEF OutOfMemory, Die, files, program, code, outcome, Phases, Dead
<1> QED
  BY <1>1, <1>2, <1>3, <1>4, <1>5, <1>6, <1>7, <1>8, <1>9, <1>10, <1>11, <1>12, <1>13, <1>14,
     <1>15, <1>16, <1>17, <1>18, <1>19, <1>20
  DEF Next, Progress, Load, Compile, Finish, ParseDone, DeclareDone, AnalyzeDone, CompileDone

\* The driver's state has its types throughout a run.
LEMMA Types == Spec => []TypeInv
<1>1. Init => TypeInv
  BY DriverAssumption DEF Init, TypeInv, Phases, resource_tracker_init
<1> QED BY <1>1, TypeStep, PTL DEF Spec

-----------------------------------------------------------------------------
(* Resources *)

\* A unit per file loaded so far; a descriptor is open only between open and
\* map_input, and what is mapped is tracked, or is about to be.
FilesInv ==
    /\ tracker.capacity = argc
    /\ pc = "init" => count = 0 /\ tracker.tracked = <<>>
    /\ pc \in Loading => /\ capacity = argc - 1
                         /\ count = next - 1
                         /\ Len(tracker.tracked) = count
    /\ pc \in {"open", "map", "track"} => next < argc
    /\ fds \subseteq {next} /\ (pc \notin {"map", "starved"} => fds = {})
    /\ maps \subseteq Range(tracker.tracked) \cup
                    (IF pc \in {"track", "starved"} THEN {next} ELSE {})
    /\ pc \in {"free", "exit"} => maps = {}
    /\ arenas = IF pc = "exit" THEN {} ELSE {"ast", "jit_data", "jit_exec"}

\* Appending to a sequence adds one element to its range.
LEMMA RangeAppend ==
    ASSUME NEW S, NEW s \in Seq(S), NEW e \in S
    PROVE  Range(Append(s, e)) = Range(s) \cup {e}
<1>1. /\ DOMAIN Append(s, e) = 1 .. Len(s) + 1
      /\ DOMAIN s = 1 .. Len(s)
      /\ Append(s, e)[Len(s) + 1] = e
      /\ \A k \in 1 .. Len(s) : Append(s, e)[k] = s[k]
  OBVIOUS
<1> QED BY <1>1 DEF Range

\* The steps that touch neither files nor arenas leave their bookkeeping alone.
LEMMA FilesFrame ==
    ASSUME TypeInv, FilesInv,
           UNCHANGED <<argc, files, arenas>>,
           pc \notin {"map", "track", "free", "exit", "starved"},
           pc' \notin Loading \cup {"init", "free", "exit"}
    PROVE  FilesInv'
  BY DEF FilesInv, files, Loading

\* Every step keeps the bookkeeping.
LEMMA FilesStep == TypeInv /\ FilesInv /\ [Next]_vars => FilesInv'
<1> SUFFICES ASSUME TypeInv, FilesInv, [Next]_vars PROVE FilesInv'
  OBVIOUS
<1> USE DEF Goto, Fail
<1>1. CASE CtxInit
  BY <1>1 DEF CtxInit, TypeInv, FilesInv, outcome, Loading
<1>2. CASE ValidateFile
  BY <1>2 DEF ValidateFile, TypeInv, FilesInv, files, outcome, Loading
<1>3. CASE OpenFile
  BY <1>3 DEF OpenFile, TypeInv, FilesInv, outcome, Loading
<1>4. CASE MapFile
  BY <1>4 DEF MapFile, TypeInv, FilesInv, outcome, Loading
<1>5. CASE TrackFile
  <2>1. ~TrackerFull
    BY <1>5 DEF TrackFile, TrackerFull, TypeInv, FilesInv, Loading
  <2>2. /\ tracker' = [tracker EXCEPT !.tracked = Append(tracker.tracked, next)]
        /\ count' = count + 1
        /\ next' = next + 1
        /\ pc = "track" /\ pc' = "validate"
        /\ UNCHANGED <<argc, maps, fds, capacity, arenas>>
    BY <1>5, <2>1 DEF TrackFile, outcome
  <2>3. /\ tracker'.capacity = tracker.capacity
        /\ tracker'.tracked = Append(tracker.tracked, next)
    BY <2>2 DEF TypeInv
  <2>4. /\ Range(tracker'.tracked) = Range(tracker.tracked) \cup {next}
        /\ Len(tracker'.tracked) = Len(tracker.tracked) + 1
    BY <2>3, RangeAppend DEF TypeInv
  <2> QED BY <2>2, <2>3, <2>4 DEF TypeInv, FilesInv, Loading
<1>6. CASE AllLoaded
  BY <1>6, FilesFrame DEF AllLoaded, outcome, Loading
<1>7. CASE ParseUnit
  BY <1>7, FilesFrame DEF ParseUnit, Die, outcome, Loading
<1>8. ASSUME NEW phase \in {"parse", "declare", "analyze", "jit"},
             NEW following \in {"declare", "analyze", "jit", "link"}, NEW n,
             EndLoop(phase, following, n)
      PROVE  FilesInv'
  BY <1>8, FilesFrame DEF EndLoop, outcome, Loading
<1>9. CASE DeclareFunction
  BY <1>9, FilesFrame DEF DeclareFunction, outcome, Loading
<1>10. CASE AnalyzeUnit
  BY <1>10, FilesFrame DEF AnalyzeUnit, Die, outcome, Loading
<1>11. CASE CompileFunction
  <2>1. /\ pc = "jit" /\ pc' \in {"jit", "cleanup", "exited", "crashed"}
        /\ UNCHANGED <<argc, files, arenas>>
    BY <1>11 DEF CompileFunction, Die, outcome
  <2> QED BY <2>1, FilesFrame DEF Loading
<1>12. CASE Link
  BY <1>12, FilesFrame DEF Link, outcome, Loading
<1>13. CASE SetProt
  BY <1>13, FilesFrame DEF SetProt, outcome, Loading
<1>14. CASE Execute
  BY <1>14, FilesFrame DEF Execute, Loading
<1>15. CASE MainReturns
  BY <1>15, FilesFrame DEF MainReturns, Loading
<1>16. CASE PrintErrors
  BY <1>16, FilesFrame DEF PrintErrors, Loading
<1>17. CASE ReleaseFiles
  <2>1. tracker'.capacity = tracker.capacity
    BY <1>17 DEF ReleaseFiles, TypeInv
  <2>2. maps' = {}
    BY <1>17 DEF ReleaseFiles, FilesInv
  <2> QED BY <1>17, <2>1, <2>2 DEF ReleaseFiles, FilesInv, outcome, Loading
<1>18. CASE FreeArenas
  BY <1>18 DEF FreeArenas, FilesInv, files, Loading
<1>19. CASE UNCHANGED vars
  BY <1>19 DEF FilesInv, vars, files, outcome
<1>20. CASE OutOfMemory
  BY <1>20 DEF OutOfMemory, Die, Allocating, FilesInv, files, outcome, Loading
<1> QED
  BY <1>1, <1>2, <1>3, <1>4, <1>5, <1>6, <1>7, <1>8, <1>9, <1>10, <1>11, <1>12, <1>13, <1>14,
     <1>15, <1>16, <1>17, <1>18, <1>19, <1>20
  DEF Next, Progress, Load, Compile, Finish, ParseDone, DeclareDone, AnalyzeDone, CompileDone

\* The bookkeeping is right throughout a run.
LEMMA FilesKept == Spec => []FilesInv
<1>1. Init => FilesInv
  BY DEF Init, FilesInv, Loading, resource_tracker_init
<1> QED BY <1>1, FilesStep, Types, PTL DEF Spec

\* Whatever fails on the way, and on whichever file, once main returns no
\* descriptor is open, nothing is mapped and no arena is left.
THEOREM NoLeak == Spec => []NothingLeaks
<1>1. FilesInv => NothingLeaks
  BY DEF FilesInv, NothingLeaks
<1> QED BY <1>1, FilesKept, PTL

-----------------------------------------------------------------------------
(* The exit code *)

\* Something fatal ends the compilation before the program runs; exit code 0 is
\* set only when it has returned; the list is printed before the arenas go.
ExitInv ==
    /\ "fatal" \in recorded => pc \in Ending /\ ran = FALSE
    /\ pc \notin Ending \cup {"running"} => ran = FALSE
    /\ pc = "running" => ran = TRUE
    /\ exit_code = 0 => pc \in Ending /\ ran = TRUE
    /\ pc \in {"release", "free", "exit"} => reported = recorded

\* A tree lacks an operand only after an error was recorded, and only such a tree
\* is read through a NULL.
HoleInv == holes # {} \/ pc = "crashed" => "error" \in recorded

\* A step of an earlier phase that records nothing fatal, or fails, keeps it.
LEMMA ExitFrame ==
    ASSUME ExitInv, UNCHANGED outcome,
           pc \notin Ending \cup {"running"},
           \/ pc' \notin Ending \cup {"running"} /\ ("fatal" \in recorded' => "fatal" \in recorded)
           \/ pc' = "cleanup"
    PROVE  ExitInv'
  BY DEF ExitInv, outcome, Ending

\* Every step keeps it.
LEMMA ExitStep == TypeInv /\ FilesInv /\ ExitInv /\ [Next]_vars => ExitInv'
<1> SUFFICES ASSUME TypeInv, FilesInv, ExitInv, [Next]_vars PROVE ExitInv'
  OBVIOUS
<1> USE DEF Goto, Fail, error_add
<1>1. CASE CtxInit
  BY <1>1, ExitFrame DEF CtxInit, Ending
<1>2. CASE ValidateFile
  BY <1>2, ExitFrame DEF ValidateFile, Ending
<1>3. CASE OpenFile
  BY <1>3, ExitFrame DEF OpenFile, Ending
<1>4. CASE MapFile
  BY <1>4, ExitFrame DEF MapFile, Ending
<1>5. CASE TrackFile
  BY <1>5, ExitFrame DEF TrackFile, Ending
<1>6. CASE AllLoaded
  BY <1>6, ExitFrame DEF AllLoaded, Ending
<1>7. CASE ParseUnit
  <2>1. pc = "parse" /\ pc' \in {"parse", "crashed"} /\ UNCHANGED outcome
    BY <1>7 DEF ParseUnit, Die
  <2>2. \/ UNCHANGED recorded
        \/ recorded' = recorded \cup {"error"}
    BY <1>7, Zenon DEF ParseUnit, Die
  <2> QED BY <2>1, <2>2, ExitFrame DEF Ending
<1>8. ASSUME NEW phase \in {"parse", "declare", "analyze", "jit"},
             NEW following \in {"declare", "analyze", "jit", "link"}, NEW n,
             EndLoop(phase, following, n)
      PROVE  ExitInv'
  BY <1>8, ExitFrame DEF EndLoop, Ending
<1>9. CASE DeclareFunction
  BY <1>9, ExitFrame DEF DeclareFunction, Ending
<1>10. CASE AnalyzeUnit
  BY <1>10, ExitFrame DEF AnalyzeUnit, Die, Ending
<1>11. CASE CompileFunction
  <2>1. pc = "jit" /\ UNCHANGED outcome
    BY <1>11 DEF CompileFunction
  <2>2. \/ pc' = "cleanup"
        \/ pc' = pc /\ UNCHANGED recorded
        \/ /\ pc' \in {pc, "exited", "crashed"}
           /\ \E levels \in SUBSET {"error"} : recorded' = recorded \cup levels
    BY <1>11, Zenon DEF CompileFunction, Die
  <2> QED BY <2>1, <2>2, ExitFrame DEF Ending
<1>12. CASE Link
  BY <1>12, ExitFrame DEF Link, Ending
<1>13. CASE SetProt
  BY <1>13, ExitFrame DEF SetProt, Ending
<1>14. CASE Execute
  BY <1>14 DEF Execute, ExitInv, Ending
<1>15. CASE MainReturns
  BY <1>15 DEF MainReturns, ExitInv, Ending
<1>16. CASE PrintErrors
  BY <1>16 DEF PrintErrors, ExitInv, FilesInv, Ending
<1>17. CASE ReleaseFiles
  BY <1>17 DEF ReleaseFiles, ExitInv, outcome, Ending
<1>18. CASE FreeArenas
  BY <1>18 DEF FreeArenas, ExitInv, Ending
<1>19. CASE UNCHANGED vars
  BY <1>19 DEF ExitInv, vars, outcome
<1>20. CASE OutOfMemory
  BY <1>20, ExitFrame DEF OutOfMemory, Die, Allocating, Ending
<1> QED
  BY <1>1, <1>2, <1>3, <1>4, <1>5, <1>6, <1>7, <1>8, <1>9, <1>10, <1>11, <1>12, <1>13, <1>14,
     <1>15, <1>16, <1>17, <1>18, <1>19, <1>20
  DEF Next, Progress, Load, Compile, Finish, ParseDone, DeclareDone, AnalyzeDone, CompileDone

\* Every step keeps what is said of incomplete trees.
LEMMA HoleStep == HoleInv /\ [Next]_vars => HoleInv'
<1> SUFFICES ASSUME HoleInv, [Next]_vars PROVE HoleInv'
  OBVIOUS
<1> USE DEF Goto, Fail, error_add
<1>1. CASE ParseUnit
  <2>1. \/ UNCHANGED <<holes, recorded, pc>>
        \/ recorded' = recorded \cup {"error"}
    BY <1>1, Zenon DEF ParseUnit, Die
  <2> QED BY <2>1 DEF HoleInv
<1>2. CASE AnalyzeUnit
  <2>1. /\ UNCHANGED holes
        /\ \E levels : recorded' = recorded \cup levels
        /\ pc' = "crashed" => holes # {}
    BY <1>2 DEF AnalyzeUnit, Die, program
  <2> QED BY <2>1 DEF HoleInv
<1>3. CASE CompileFunction
  <2>1. pc = "jit" /\ UNCHANGED holes
    BY <1>3 DEF CompileFunction
  <2>2. \/ UNCHANGED recorded
        \/ \E levels : recorded' = recorded \cup levels
    BY <1>3, Zenon DEF CompileFunction, Die
  <2>3. pc' = "crashed" => holes # {}
    BY <1>3, <2>1 DEF CompileFunction, Die
  <2> QED BY <2>1, <2>2, <2>3 DEF HoleInv
<1>4. CASE Load \/ DeclareFunction \/ Link
  <2>1. /\ UNCHANGED holes
        /\ pc' # "crashed"
        /\ UNCHANGED recorded \/ \E levels : recorded' = recorded \cup levels
    BY <1>4 DEF Load, CtxInit, ValidateFile, OpenFile, MapFile, TrackFile, AllLoaded,
               DeclareFunction, Link, program
  <2> QED BY <2>1 DEF HoleInv
<1>5. CASE ParseDone \/ DeclareDone \/ AnalyzeDone \/ CompileDone
  BY <1>5 DEF ParseDone, DeclareDone, AnalyzeDone, CompileDone, EndLoop, HoleInv, program
<1>6. CASE SetProt \/ Finish \/ MainReturns
  BY <1>6 DEF SetProt, Finish, Execute, PrintErrors, ReleaseFiles, FreeArenas, MainReturns,
             HoleInv, program
<1>7. CASE OutOfMemory
  BY <1>7 DEF OutOfMemory, Die, HoleInv, program
<1>8. CASE UNCHANGED vars
  BY <1>8 DEF HoleInv, vars, program
<1> QED
  BY <1>1, <1>2, <1>3, <1>4, <1>5, <1>6, <1>7, <1>8 DEF Next, Progress, Compile

\* Everything recorded is printed before main returns, exit code 0 means that the
\* compiled main returned and nothing fatal happened, and the compiler reads
\* through a NULL only after it has recorded an error.
THEOREM ExitHonest == Spec => []HonestExit
<1>1. Init => ExitInv /\ HoleInv
  BY DEF Init, ExitInv, HoleInv, Ending
<1>2. ExitInv /\ HoleInv => HonestExit
  BY DEF ExitInv, HoleInv, HonestExit
<1> QED BY <1>1, <1>2, ExitStep, HoleStep, Types, FilesKept, PTL DEF Spec

-----------------------------------------------------------------------------
(* The global function table *)

\* The entry e stands for the declaration d; once d is a definition, so is e.
Agrees(d, e) ==
    /\ e.name = d.name
    /\ SameType(e, d)
    /\ e.is_prototype => d.is_prototype

\* The first n declarations are in the table,
InTable(n) == \A k \in 1 .. n : \E i \in DOMAIN global : Agrees(decls[k], global[i])

\* and no two of them define the same name.
DefinedOnce(n) == \A i, j \in 1 .. n :
    decls[i].name = decls[j].name /\ ~decls[i].is_prototype /\ ~decls[j].is_prototype => i = j

NamesDistinct == \A i, j \in DOMAIN global : global[i].name = global[j].name => i = j

TableInv ==
    /\ NamesDistinct
    /\ Len(global) <= MAX_FUNCTION_COUNT
    /\ pc = "declare" => /\ next <= Len(decls) + 1
                         /\ all_ok => InTable(next - 1) /\ DefinedOnce(next - 1)
    /\ pc \in AfterDeclare => InTable(Len(decls)) /\ DefinedOnce(Len(decls))

\* The entry of a known name is in the table, under that name.
LEMMA EntryOf ==
    ASSUME NEW name, Known(name)
    PROVE  Entry(name) \in DOMAIN global /\ global[Entry(name)].name = name
  BY DEF Known, Entry

\* What an accepted declaration of a new name does to the table.
LEMMA NewEntry ==
    ASSUME TypeInv, NEW d \in Parsed, ~Known(d.name)
    PROVE  /\ Len(Declared(d)) = Len(global) + 1
           /\ DOMAIN Declared(d) = 1 .. Len(global) + 1
           /\ \A i \in DOMAIN global : Declared(d)[i] = global[i]
           /\ Agrees(d, Declared(d)[Len(global) + 1])
<1> DEFINE e == [name |-> d.name, ret |-> d.ret, params |-> d.params,
                 is_prototype |-> d.is_prototype]
<1>1. e \in Entries
  BY ParsedType DEF Entries
<1>2. Agrees(d, e)
  BY DEF Agrees, SameType
<1>3. Declared(d) = Append(global, e)
  BY DEF Declared
<1> HIDE DEF e
<1> QED BY <1>1, <1>2, <1>3 DEF TypeInv

\* What a declaration of a known name does to the table.
LEMMA OldEntry ==
    ASSUME TypeInv, NEW d \in Parsed, Known(d.name)
    PROVE  /\ Len(Declared(d)) = Len(global)
           /\ DOMAIN Declared(d) = DOMAIN global
           /\ \A i \in DOMAIN global :
                 /\ Declared(d)[i].name = global[i].name
                 /\ Declared(d)[i].ret = global[i].ret
                 /\ Declared(d)[i].params = global[i].params
                 /\ Declared(d)[i].is_prototype => global[i].is_prototype
           /\ Declared(d)[Entry(d.name)].is_prototype => d.is_prototype
<1> DEFINE i == Entry(d.name)
           e == [global[i] EXCEPT !.is_prototype = @ /\ d.is_prototype]
<1>1. i \in DOMAIN global
  BY EntryOf
<1>2. Declared(d) = [global EXCEPT ![i] = e]
  BY <1>1 DEF Declared
<1>3. PICK p \in Parsed, b \in BOOLEAN :
         global[i] = [name |-> p.name, ret |-> p.ret, params |-> p.params, is_prototype |-> b]
  <2> HIDE DEF i
  <2>1. global[i] \in Entries
    BY <1>1 DEF TypeInv
  <2> QED BY <2>1 DEF Entries
<1>4. /\ e.name = global[i].name
      /\ e.ret = global[i].ret
      /\ e.params = global[i].params
      /\ e.is_prototype => global[i].is_prototype
      /\ e.is_prototype => d.is_prototype
  BY <1>3
<1> HIDE DEF e, i
<1>5. /\ DOMAIN Declared(d) = DOMAIN global
      /\ Declared(d)[i] = e
      /\ \A j \in DOMAIN global : j # i => Declared(d)[j] = global[j]
  BY <1>1, <1>2
<1>6. Len(Declared(d)) = Len(global)
  BY <1>2 DEF TypeInv
<1> QED BY <1>1, <1>4, <1>5, <1>6 DEF i

\* An accepted declaration joins the table, those before it stay in it, and it is
\* not a definition if one of them was a definition of its name.
LEMMA Joins ==
    ASSUME TypeInv, TableInv, NEW d \in Parsed, Acceptable(d), global' = Declared(d)
    PROVE  /\ NamesDistinct'
           /\ Len(global') <= MAX_FUNCTION_COUNT
           /\ \E i \in DOMAIN global' : Agrees(d, global'[i])
           /\ \A p : \A i \in DOMAIN global : Agrees(p, global[i]) =>
                 /\ \E j \in DOMAIN global' : Agrees(p, global'[j])
                 /\ p.name = d.name /\ ~p.is_prototype => d.is_prototype
<1>1. CASE Known(d.name)
  <2> DEFINE e == Entry(d.name)
  <2>1. e \in DOMAIN global /\ global[e].name = d.name
    BY <1>1, EntryOf
  <2>2. SameType(global[e], d) /\ (global[e].is_prototype \/ d.is_prototype)
    BY <1>1 DEF Acceptable
  <2>3. /\ Len(global') = Len(global)
        /\ DOMAIN global' = DOMAIN global
        /\ \A i \in DOMAIN global :
              /\ global'[i].name = global[i].name
              /\ global'[i].ret = global[i].ret
              /\ global'[i].params = global[i].params
              /\ global'[i].is_prototype => global[i].is_prototype
        /\ global'[e].is_prototype => d.is_prototype
    BY <1>1, OldEntry
  <2> HIDE DEF e
  <2>4. NamesDistinct' /\ Len(global') <= MAX_FUNCTION_COUNT
    BY <2>3 DEF NamesDistinct, TableInv
  <2>5. Agrees(d, global'[e])
    BY <2>1, <2>2, <2>3 DEF Agrees, SameType
  <2>6. ASSUME NEW p, NEW i \in DOMAIN global, Agrees(p, global[i])
        PROVE  /\ Agrees(p, global'[i])
               /\ p.name = d.name /\ ~p.is_prototype => d.is_prototype
    <3>1. Agrees(p, global'[i])
      BY <2>3, <2>6 DEF Agrees, SameType
    <3>2. p.name = d.name => i = e
      BY <2>1, <2>6 DEF Agrees, TableInv, NamesDistinct
    <3> QED BY <2>2, <2>6, <3>1, <3>2 DEF Agrees
  <2> QED BY <2>1, <2>3, <2>4, <2>5, <2>6
<1>2. CASE ~Known(d.name)
  <2>1. Len(global) < MAX_FUNCTION_COUNT
    BY <1>2 DEF Acceptable
  <2> DEFINE n == Len(global) + 1
  <2>2. /\ Len(global') = n
        /\ DOMAIN global' = 1 .. n
        /\ \A i \in DOMAIN global : global'[i] = global[i]
        /\ Agrees(d, global'[n])
    BY <1>2, NewEntry
  <2>3. DOMAIN global = 1 .. Len(global) /\ Len(global) \in Nat
    BY DEF TypeInv
  <2>4. \A i \in DOMAIN global : global[i].name # d.name
    BY <1>2 DEF Known
  <2>5. NamesDistinct'
    BY <2>2, <2>3, <2>4 DEF TableInv, NamesDistinct, Agrees
  <2>6. ASSUME NEW p, NEW i \in DOMAIN global, Agrees(p, global[i])
        PROVE  Agrees(p, global'[i]) /\ p.name # d.name
    BY <2>2, <2>4, <2>6 DEF Agrees
  <2>7. Len(global') <= MAX_FUNCTION_COUNT
    BY <2>1, <2>2, <2>3, DriverAssumption
  <2> QED BY <2>2, <2>3, <2>5, <2>6, <2>7
<1> QED BY <1>1, <1>2

\* Steps that leave the table alone and do not enter its phases.
LEMMA TableFrame ==
    ASSUME TableInv, UNCHANGED global,
           \/ pc' \notin AfterDeclare \cup {"declare"}
           \/ pc \in AfterDeclare /\ pc' \in AfterDeclare /\ UNCHANGED decls
    PROVE  TableInv'
<1>1. CASE pc' \notin AfterDeclare \cup {"declare"}
  BY <1>1 DEF TableInv, NamesDistinct
<1>2. CASE pc \in AfterDeclare /\ pc' \in AfterDeclare /\ UNCHANGED decls
  <2>1. "declare" \notin AfterDeclare
    BY DEF AfterDeclare
  <2> QED BY <1>2, <2>1 DEF TableInv, NamesDistinct, InTable, DefinedOnce
<1> QED BY <1>1, <1>2

\* Every step keeps the table as it should be.
LEMMA TableStep == TypeInv /\ TableInv /\ [Next]_vars => TableInv'
<1> SUFFICES ASSUME TypeInv, TableInv, [Next]_vars PROVE TableInv'
  OBVIOUS
<1> USE DEF Goto, Fail, AfterDeclare
<1>1. CASE CtxInit
  BY <1>1, TableFrame DEF CtxInit, program
<1>2. CASE ValidateFile
  BY <1>2, TableFrame DEF ValidateFile, program
<1>3. CASE OpenFile
  BY <1>3, TableFrame DEF OpenFile, program
<1>4. CASE MapFile
  BY <1>4, TableFrame DEF MapFile, program
<1>5. CASE TrackFile
  BY <1>5, TableFrame DEF TrackFile, program
<1>6. CASE AllLoaded
  BY <1>6, TableFrame DEF AllLoaded, program
<1>7. CASE ParseUnit
  BY <1>7, TableFrame DEF ParseUnit, Die
<1>8. CASE ParseDone
  <2>1. UNCHANGED <<decls, global>> /\ next' = 1 /\ pc' \in {"declare", "cleanup"}
    BY <1>8 DEF ParseDone, EndLoop, program
  <2> QED BY <2>1 DEF TableInv, NamesDistinct, InTable, DefinedOnce, TypeInv
<1>9. CASE DeclareFunction
  <2> DEFINE d == decls[next]
  <2>1. d \in Parsed /\ next \in 1 .. Len(decls) /\ pc = "declare"
    BY <1>9 DEF DeclareFunction, TypeInv
  <2>2. UNCHANGED <<pc, decls>> /\ next' = next + 1
    BY <1>9 DEF DeclareFunction
  <2>3. CASE ~Acceptable(d)
    <3>1. UNCHANGED global /\ all_ok' = FALSE
      BY <1>9, <2>3 DEF DeclareFunction
    <3> QED BY <2>1, <2>2, <3>1 DEF TableInv, NamesDistinct, TypeInv
  <2>4. CASE Acceptable(d)
    <3>1. global' = Declared(d) /\ UNCHANGED all_ok
      BY <1>9, <2>4 DEF DeclareFunction
    <3>2. /\ NamesDistinct'
          /\ Len(global') <= MAX_FUNCTION_COUNT
          /\ \E i \in DOMAIN global' : Agrees(d, global'[i])
          /\ \A p : \A i \in DOMAIN global : Agrees(p, global[i]) =>
                /\ \E j \in DOMAIN global' : Agrees(p, global'[j])
                /\ p.name = d.name /\ ~p.is_prototype => d.is_prototype
      BY <2>1, <2>4, <3>1, Joins
    <3>3. ASSUME all_ok PROVE InTable(next - 1)' /\ DefinedOnce(next - 1)'
      <4>1. InTable(next - 1) /\ DefinedOnce(next - 1)
        BY <2>1, <3>3 DEF TableInv
      <4>2. \A k \in 1 .. next : k \in 1 .. next - 1 \/ k = next
        BY DEF TypeInv
      <4>3. next' - 1 = next
        BY <2>2 DEF TypeInv
      <4>4. InTable(next - 1)'
        <5>1. \A k \in 1 .. next : \E i \in DOMAIN global' : Agrees(decls[k], global'[i])
          BY <3>2, <4>1, <4>2 DEF InTable
        <5> QED BY <2>2, <4>3, <5>1 DEF InTable
      <4>5. DefinedOnce(next - 1)'
        <5>1. ASSUME NEW k \in 1 .. next - 1, decls[k].name = d.name, ~decls[k].is_prototype
              PROVE  d.is_prototype
          BY <3>2, <4>1, <5>1 DEF InTable
        <5>2. DefinedOnce(next)
          BY <4>1, <4>2, <5>1 DEF DefinedOnce
        <5> QED BY <2>2, <4>3, <5>2 DEF DefinedOnce
      <4> QED BY <4>4, <4>5
    <3> QED BY <2>1, <2>2, <3>1, <3>2, <3>3 DEF TableInv, TypeInv
  <2> QED BY <2>3, <2>4
<1>10. CASE DeclareDone
  <2>1. UNCHANGED <<decls, global>> /\ pc' \in {"analyze", "cleanup"} /\ pc = "declare"
    BY <1>10 DEF DeclareDone, EndLoop, program
  <2>2. pc' = "analyze" => all_ok /\ next > Len(decls)
    BY <1>10 DEF DeclareDone, EndLoop
  <2>3. next - 1 = Len(decls) \/ pc' = "cleanup"
    BY <2>1, <2>2 DEF TableInv, TypeInv
  <2> QED BY <2>1, <2>2, <2>3 DEF TableInv, NamesDistinct, InTable, DefinedOnce
<1>11. CASE AnalyzeUnit
  BY <1>11, TableFrame DEF AnalyzeUnit, Die, program
<1>12. CASE AnalyzeDone \/ CompileDone
  BY <1>12, TableFrame DEF AnalyzeDone, CompileDone, EndLoop, program
<1>13. CASE CompileFunction
  <2>1. pc = "jit" /\ pc' \in {"jit", "cleanup", "exited", "crashed"} /\ UNCHANGED <<decls, global>>
    BY <1>13 DEF CompileFunction, Die
  <2> QED BY <2>1, TableFrame
<1>14. CASE Link
  BY <1>14, TableFrame DEF Link, program
<1>15. CASE SetProt
  BY <1>15, TableFrame DEF SetProt, program
<1>16. CASE Execute
  BY <1>16, TableFrame DEF Execute, program
<1>17. CASE MainReturns
  BY <1>17, TableFrame DEF MainReturns, program
<1>18. CASE PrintErrors \/ ReleaseFiles \/ FreeArenas
  BY <1>18, TableFrame DEF PrintErrors, ReleaseFiles, FreeArenas, program
<1>19. CASE UNCHANGED vars
  BY <1>19 DEF TableInv, NamesDistinct, InTable, DefinedOnce, vars, program
<1>20. CASE OutOfMemory
  BY <1>20, TableFrame DEF OutOfMemory, Die, program
<1> QED
  BY <1>1, <1>2, <1>3, <1>4, <1>5, <1>6, <1>7, <1>8, <1>9, <1>10, <1>11, <1>12, <1>13, <1>14,
     <1>15, <1>16, <1>17, <1>18, <1>19, <1>20
  DEF Next, Progress, Load, Compile, Finish

\* The table is as it should be throughout a run.
LEMMA TableKept == Spec => []TableInv
<1>1. Init => TableInv
  BY DriverAssumption DEF Init, TableInv, NamesDistinct, AfterDeclare
<1> QED BY <1>1, TableStep, Types, PTL DEF Spec

\* Once the table is built, the declarations of a name agree, in whichever files
\* they are, and at most one of them is a definition.
THEOREM DefinitionsUnique == Spec => []OneDefinition
<1>1. TypeInv /\ TableInv => OneDefinition
  <2> SUFFICES ASSUME TypeInv, TableInv, pc \in AfterDeclare,
                      NEW i \in DOMAIN decls, NEW j \in DOMAIN decls,
                      decls[i].name = decls[j].name
               PROVE  /\ decls[i].ret = decls[j].ret /\ decls[i].params = decls[j].params
                      /\ ~decls[i].is_prototype /\ ~decls[j].is_prototype => i = j
    BY DEF OneDefinition
  <2>1. DOMAIN decls = 1 .. Len(decls)
    BY DEF TypeInv
  <2>2. PICK a \in DOMAIN global : Agrees(decls[i], global[a])
    BY <2>1 DEF TableInv, InTable
  <2>3. PICK b \in DOMAIN global : Agrees(decls[j], global[b])
    BY <2>1 DEF TableInv, InTable
  <2>4. a = b
    BY <2>2, <2>3 DEF TableInv, NamesDistinct, Agrees
  <2>5. decls[i].ret = decls[j].ret /\ decls[i].params = decls[j].params
    BY <2>2, <2>3, <2>4 DEF Agrees, SameType
  <2>6. ~decls[i].is_prototype /\ ~decls[j].is_prototype => i = j
    BY <2>1 DEF TableInv, DefinedOnce
  <2> QED BY <2>5, <2>6
<1> QED BY <1>1, Types, TableKept, PTL

\* There is room for every file in the tracker and among the units, for every
\* entry in the table, and in the JIT registry for every definition that passed it.
THEOREM TablesLargeEnough == Spec => []TablesSuffice
<1>1. TypeInv /\ FilesInv => RoomForFiles
  BY DEF TypeInv, FilesInv, RoomForFiles, TrackerFull, Loading
<1>2. TypeInv /\ TableInv => RegistryFits
  <2> SUFFICES ASSUME TypeInv, TableInv, pc = "jit"
               PROVE  Cardinality({k \in DOMAIN decls : ~decls[k].is_prototype})
                         <= MAX_FUNCTION_COUNT
    BY DEF RegistryFits, TableInv
  <2> DEFINE D == {k \in DOMAIN decls : ~decls[k].is_prototype}
             f == [k \in D |-> CHOOSE i \in DOMAIN global : Agrees(decls[k], global[i])]
  <2>1. InTable(Len(decls)) /\ DefinedOnce(Len(decls)) /\ DOMAIN decls = 1 .. Len(decls)
    BY DEF TableInv, AfterDeclare, TypeInv
  <2>2. \A k \in D : f[k] \in DOMAIN global /\ Agrees(decls[k], global[f[k]])
    BY <2>1 DEF InTable
  <2>3. f \in [D -> DOMAIN global]
    BY <2>2
  <2>4. \A i, j \in D : f[i] = f[j] => i = j
    <3> HIDE DEF f
    <3> QED BY <2>1, <2>2 DEF DefinedOnce, Agrees
  <2>5. f \in Injection(D, DOMAIN global)
    <3> HIDE DEF f, D
    <3> QED BY <2>3, <2>4 DEF Injection, IsInjective
  <2>6. IsFiniteSet(DOMAIN global) /\ Cardinality(DOMAIN global) = Len(global)
    <3>1. DOMAIN global = 1 .. Len(global) /\ Len(global) \in Nat
      BY DEF TypeInv
    <3>2. /\ IsFiniteSet(1 .. Len(global))
          /\ Cardinality(1 .. Len(global)) = IF 1 > Len(global) THEN 0 ELSE Len(global) - 1 + 1
      BY <3>1, FS_Interval
    <3> QED BY <3>1, <3>2
  <2>7. Cardinality(D) <= Cardinality(DOMAIN global) /\ IsFiniteSet(D)
    <3> HIDE DEF f, D
    <3> QED BY <2>5, <2>6, FS_Injection
  <2>8. Cardinality(D) \in Nat
    <3> HIDE DEF f, D
    <3> QED BY <2>7, FS_CardinalityType
  <2> QED BY <2>6, <2>7, <2>8, DriverAssumption DEF TableInv, TypeInv
<1> QED BY <1>1, <1>2, Types, FilesKept, TableKept, PTL DEF TablesSuffice

-----------------------------------------------------------------------------
(* The calls *)

BeforeJit == {"init", "parse", "declare", "analyze"} \cup Loading

Compiled == {"jit", "link", "protect", "execute", "running"}

\* Every declaration belongs to one of the first n units.
UnitsUpTo(n) == \A k \in DOMAIN decls : decls[k].unit \in 1 .. n

\* Code comes from declarations: a call from a body, a function from a definition.
FromDecls ==
    /\ \A s \in code_calls : \E k \in DOMAIN decls : s.call \in decls[k].calls
    /\ \A r \in Range(registry) : \E k \in DOMAIN decls :
          decls[k].name = r /\ ~decls[k].is_prototype

CallInv ==
    /\ pc \in Loading \cup {"init"} => decls = <<>>
    /\ pc = "parse" => next <= count + 1 /\ UnitsUpTo(next - 1)
    /\ pc \in {"declare"} \cup AfterDeclare => UnitsUpTo(count)
    /\ pc \in BeforeJit => registry = <<>> /\ code_calls = {}
    /\ pc = "analyze" => next <= count + 1 /\ (all_ok => \A u \in 1 .. next - 1 : CallsOk(u))
    /\ pc \in Compiled => FromDecls /\ \A u \in 1 .. count : CallsOk(u)
    /\ pc \in {"protect", "execute", "running"} =>
          \A s \in call_sites : s.call.func \in Range(registry)

\* What is recorded for the link is in the code; what is in the code is recorded,
\* unless the limit was reached.
SiteInv ==
    /\ IsFiniteSet(call_sites)
    /\ call_sites \subseteq code_calls
    /\ call_sites = code_calls \/ Cardinality(call_sites) = MAX_CALL_SITES

\* Encoding the calls of one more function keeps it.
LEMMA SitesEncoded ==
    ASSUME SiteInv, NEW new, IsFiniteSet(new), EncodeCalls(new)
    PROVE  SiteInv'
<1>1. PICK kept \in SUBSET new :
         /\ call_sites' = call_sites \cup kept
         /\ \/ kept = new /\ Cardinality(call_sites') <= MAX_CALL_SITES
            \/ Cardinality(call_sites') = MAX_CALL_SITES
  BY DEF EncodeCalls
<1>2. code_calls' = code_calls \cup new
  BY DEF EncodeCalls
<1>3. IsFiniteSet(kept)
  BY FS_Subset
<1>4. IsFiniteSet(call_sites')
  BY <1>1, <1>3, FS_Union DEF SiteInv
<1>5. CASE kept = new /\ call_sites = code_calls
  BY <1>1, <1>2, <1>4, <1>5 DEF SiteInv
<1>6. CASE Cardinality(call_sites') = MAX_CALL_SITES
  BY <1>1, <1>2, <1>4, <1>6 DEF SiteInv
<1>7. CASE Cardinality(call_sites) = MAX_CALL_SITES /\ Cardinality(call_sites') <= MAX_CALL_SITES
  <2>1. Cardinality(call_sites) <= Cardinality(call_sites')
    BY <1>1, <1>4, FS_Subset
  <2>2. Cardinality(call_sites') \in Nat
    BY <1>4, FS_CardinalityType
  <2>3. Cardinality(call_sites') = MAX_CALL_SITES
    BY <1>7, <2>1, <2>2, DriverAssumption
  <2> QED BY <1>6, <2>3
<1> QED BY <1>1, <1>5, <1>6, <1>7 DEF SiteInv

\* Every step keeps it.
LEMMA SiteStep == TypeInv /\ SiteInv /\ [Next]_vars => SiteInv'
<1> SUFFICES ASSUME TypeInv, SiteInv, [Next]_vars PROVE SiteInv'
  OBVIOUS
<1>1. CASE UNCHANGED code
  BY <1>1 DEF SiteInv, code
<1>2. CASE CompileFunction
  <2>1. \/ UNCHANGED code
        \/ \E emitted \in SUBSET decls[next].calls :
              EncodeCalls({[from |-> next, call |-> c] : c \in emitted})
    BY <1>2, Zenon DEF CompileFunction
  <2>2. CASE UNCHANGED code
    BY <1>1, <2>2
  <2>3. ASSUME NEW emitted \in SUBSET decls[next].calls,
               EncodeCalls({[from |-> next, call |-> c] : c \in emitted})
        PROVE  SiteInv'
    <3>1. decls[next] \in Parsed
      BY <1>2 DEF CompileFunction, TypeInv
    <3>2. IsFiniteSet(emitted)
      BY <3>1, ParsedType, FS_Subset
    <3> DEFINE new == {[from |-> next, call |-> c] : c \in emitted}
               f == [c \in emitted |-> [from |-> next, call |-> c]]
    <3>3. f \in Surjection(emitted, new)
      BY DEF Surjection
    <3>4. IsFiniteSet(new)
      <4> HIDE DEF f, new
      <4> QED BY <3>2, <3>3, FS_Surjection
    <3>5. EncodeCalls(new)
      BY <2>3
    <3> HIDE DEF new
    <3> QED BY <3>4, <3>5, SitesEncoded
  <2> QED BY <2>1, <2>2, <2>3
<1>3. CASE Load \/ Finish \/ MainReturns \/ OutOfMemory
  <2>1. UNCHANGED code
    BY <1>3 DEF Load, CtxInit, ValidateFile, OpenFile, MapFile, TrackFile, AllLoaded, Finish,
               Execute, PrintErrors, ReleaseFiles, FreeArenas, MainReturns, OutOfMemory, program
  <2> QED BY <1>1, <2>1
<1>4. CASE Compile /\ ~CompileFunction
  <2>1. UNCHANGED code
    BY <1>4 DEF Compile, ParseUnit, ParseDone, DeclareFunction, DeclareDone, AnalyzeUnit,
               AnalyzeDone, CompileDone, EndLoop, Link, SetProt, program
  <2> QED BY <1>1, <2>1
<1>5. CASE UNCHANGED vars
  BY <1>1, <1>5 DEF vars, program
<1> QED BY <1>2, <1>3, <1>4, <1>5 DEF Next, Progress

\* What is recorded, and what is not, throughout a run.
LEMMA SitesKept == Spec => []SiteInv
<1>1. Init => SiteInv
  BY FS_EmptySet DEF Init, SiteInv
<1> QED BY <1>1, SiteStep, Types, PTL DEF Spec

\* The verdict on a unit depends on the declarations and on the table only.
LEMMA CallsOkFrame ==
    ASSUME UNCHANGED <<decls, global>>
    PROVE  \A u : CallsOk(u)' = CallsOk(u)
  BY DEF CallsOk, CallOk, VisibleIn, Known, Entry

\* Steps inside the phases after the table was built.
LEMMA CallFrame ==
    ASSUME TypeInv, CallInv, UNCHANGED <<program, count>>,
           \/ pc' \in Ending \cup Dead
           \/ pc \in {"link", "protect", "execute", "running"} /\ pc' \in Compiled \ {"jit"}
           \/ pc = "jit" /\ pc' = "link",
           pc' \in {"protect", "execute", "running"} =>
               \/ pc \in {"protect", "execute", "running"}
               \/ \A s \in call_sites : s.call.func \in Range(registry)
    PROVE  CallInv'
<1>1. UNCHANGED <<decls, global, registry, code_calls, call_sites>>
  BY DEF program, code
<1>2. CASE pc' \in Ending \cup Dead
  BY <1>2 DEF CallInv, Loading, Ending, Dead, BeforeJit, Compiled, AfterDeclare
<1>3. CASE pc \in Compiled /\ pc' \in Compiled \ {"jit"}
  <2>1. UnitsUpTo(count)' /\ FromDecls' /\ (\A u \in 1 .. count : CallsOk(u))'
    BY <1>1, <1>3, CallsOkFrame
       DEF CallInv, Compiled, AfterDeclare, UnitsUpTo, FromDecls
  <2>2. (pc \in {"protect", "execute", "running"} => \A s \in call_sites : s.call.func \in Range(registry))'
    BY <1>1 DEF CallInv
  <2> QED BY <1>3, <2>1, <2>2 DEF CallInv, Loading, BeforeJit, Compiled, AfterDeclare
<1> QED BY <1>2, <1>3 DEF Compiled

\* Every step keeps the calls and the units as described.
LEMMA CallStep == TypeInv /\ CallInv /\ [Next]_vars => CallInv'
<1> SUFFICES ASSUME TypeInv, CallInv, [Next]_vars PROVE CallInv'
  OBVIOUS
<1> USE DEF Goto, Fail
<1>1. CASE CtxInit \/ ValidateFile \/ OpenFile \/ MapFile \/ TrackFile
  <2>1. pc \in Loading \cup {"init"} /\ pc' \in Loading \cup {"cleanup"} /\ UNCHANGED program
    BY <1>1 DEF CtxInit, ValidateFile, OpenFile, MapFile, TrackFile, Loading
  <2> QED BY <2>1 DEF CallInv, Loading, BeforeJit, Compiled, AfterDeclare, program, code
<1>2. CASE AllLoaded
  <2>1. pc = "validate" /\ pc' = "parse" /\ next' = 1 /\ UNCHANGED <<program, count>>
    BY <1>2 DEF AllLoaded, files
  <2> QED BY <2>1 DEF CallInv, Loading, BeforeJit, Compiled, AfterDeclare, program, UnitsUpTo,
          TypeInv, code
<1>3. CASE ParseUnit
  <2>1. /\ pc = "parse" /\ next <= count
        /\ (pc' = "parse" /\ next' = next + 1) \/ pc' = "crashed"
        /\ UNCHANGED <<count, code>>
    BY <1>3, Zenon DEF ParseUnit, Die, files
  <2>2. UnitsUpTo(next - 1)
    BY <2>1 DEF CallInv
  <2>3. \A k \in DOMAIN decls' : decls'[k].unit \in 1 .. next
    <3>1. \A k \in DOMAIN decls : decls[k].unit \in 1 .. next
      BY <2>2 DEF UnitsUpTo, TypeInv
    <3>2. CASE UNCHANGED decls
      BY <3>1, <3>2
    <3>3. CASE \E ds \in BoundedSeq(Decls, MaxDecls - Len(decls)) :
                 decls' = decls \o [k \in DOMAIN ds |-> InUnit(next, ds[k])]
      <4>1. MaxDecls - Len(decls) \in Int
        BY DriverAssumption DEF TypeInv
      <4>2. \A k \in DOMAIN decls' :
               \/ k \in DOMAIN decls /\ decls'[k] = decls[k]
               \/ decls'[k].unit = next
        BY <3>3, <4>1, ParsedUnit
      <4> QED BY <3>1, <4>2 DEF TypeInv
    <3> QED BY <1>3, <3>2, <3>3, Zenon DEF ParseUnit
  <2>4. pc' = "parse" => UnitsUpTo(next - 1)'
    BY <2>1, <2>3 DEF UnitsUpTo, TypeInv
  <2> QED BY <2>1, <2>4 DEF CallInv, Loading, BeforeJit, Compiled, AfterDeclare, TypeInv, code
<1>4. CASE ParseDone
  <2>1. /\ pc = "parse" /\ pc' \in {"declare", "cleanup"} /\ next > count
        /\ UNCHANGED <<program, count>>
    BY <1>4 DEF ParseDone, EndLoop, files
  <2>2. UnitsUpTo(next - 1) /\ next - 1 = count
    BY <2>1 DEF CallInv, TypeInv
  <2>3. UnitsUpTo(count)'
    BY <2>1, <2>2 DEF UnitsUpTo, program
  <2> QED BY <2>1, <2>3 DEF CallInv, Loading, BeforeJit, Compiled, AfterDeclare, program, code
<1>5. CASE DeclareFunction
  <2>1. pc = "declare" /\ pc' = "declare" /\ UNCHANGED <<count, decls, registry, code_calls>>
    BY <1>5 DEF DeclareFunction, files, code
  <2> QED BY <2>1 DEF CallInv, Loading, BeforeJit, Compiled, AfterDeclare, UnitsUpTo
<1>6. CASE DeclareDone
  <2>1. /\ pc = "declare" /\ pc' \in {"analyze", "cleanup"} /\ next' = 1
        /\ UNCHANGED <<program, count>>
    BY <1>6 DEF DeclareDone, EndLoop, files
  <2> QED BY <2>1 DEF CallInv, Loading, BeforeJit, Compiled, AfterDeclare, UnitsUpTo, program,
          TypeInv, code
<1>7. CASE AnalyzeUnit
  <2>0. CASE pc' = "crashed"
    <3>1. UNCHANGED <<program, count>>
      BY <1>7 DEF AnalyzeUnit, files
    <3> QED BY <2>0, <3>1, CallFrame DEF Dead, Compiled
  <2> SUFFICES ASSUME pc' # "crashed" PROVE CallInv'
    BY <2>0
  <2>1. /\ pc = "analyze" /\ pc' = "analyze" /\ next <= count /\ next' = next + 1
        /\ UNCHANGED <<program, count>>
    BY <1>7 DEF AnalyzeUnit, Die, files
  <2>2. (all_ok' = FALSE) \/ (CallsOk(next) /\ UNCHANGED all_ok)
    BY <1>7 DEF AnalyzeUnit, Die
  <2>3. (all_ok => \A u \in 1 .. next - 1 : CallsOk(u))'
    <3>1. SUFFICES ASSUME all_ok' PROVE \A u \in 1 .. next : CallsOk(u)
      BY <2>1, CallsOkFrame DEF program, TypeInv
    <3>2. CallsOk(next) /\ \A u \in 1 .. next - 1 : CallsOk(u)
      BY <2>1, <2>2, <3>1 DEF CallInv
    <3> QED BY <3>2 DEF TypeInv
  <2>4. UnitsUpTo(count)'
    BY <2>1 DEF CallInv, AfterDeclare, UnitsUpTo, program
  <2> QED BY <2>1, <2>3, <2>4 DEF CallInv, Loading, BeforeJit, Compiled, AfterDeclare,
          program, TypeInv, code
<1>8. CASE AnalyzeDone
  <2>1. /\ pc = "analyze" /\ pc' \in {"jit", "cleanup"} /\ next > count
        /\ UNCHANGED <<program, count>>
        /\ pc' = "jit" => all_ok
    BY <1>8 DEF AnalyzeDone, EndLoop, files
  <2>2. next - 1 = count
    BY <2>1 DEF CallInv, TypeInv
  <2>3. pc' = "jit" => (\A u \in 1 .. count : CallsOk(u))'
    BY <2>1, <2>2, CallsOkFrame DEF CallInv, program
  <2>4. FromDecls' /\ UnitsUpTo(count)'
    <3>1. registry' = <<>> /\ code_calls' = {} /\ UnitsUpTo(count)
      BY <2>1 DEF CallInv, BeforeJit, AfterDeclare, program, code
    <3>2. Range(registry') = {}
      BY <3>1 DEF Range
    <3> QED BY <2>1, <3>1, <3>2 DEF FromDecls, UnitsUpTo, program
  <2> QED BY <2>1, <2>3, <2>4 DEF CallInv, Loading, BeforeJit, Compiled, AfterDeclare
<1>9. CASE CompileFunction
  <2>1. /\ pc = "jit" /\ next \in DOMAIN decls
        /\ pc' \in {"jit", "cleanup", "exited", "crashed"}
        /\ UNCHANGED <<count, decls, global>>
    <3>1. pc = "jit" /\ next <= Len(decls) /\ UNCHANGED <<count, decls, global>>
      BY <1>9 DEF CompileFunction, files
    <3>2. pc' \in {"jit", "cleanup", "exited", "crashed"}
      BY <1>9, Zenon DEF CompileFunction, Die
    <3> QED BY <3>1, <3>2 DEF TypeInv
  <2>2. \A s \in code_calls' : s \in code_calls \/ s.call \in decls[next].calls
    BY <1>9 DEF CompileFunction, EncodeCalls, code
  <2>3. \/ UNCHANGED registry
        \/ ~decls[next].is_prototype /\ registry' = Append(registry, decls[next].name)
    BY <1>9, Zenon DEF CompileFunction, code
  <2>4. \A r \in Range(registry') :
           r \in Range(registry) \/ (r = decls[next].name /\ ~decls[next].is_prototype)
    <3>1. decls[next].name \in Names /\ registry \in Seq(Names)
      BY <2>1 DEF Names, TypeInv
    <3>2. Range(Append(registry, decls[next].name)) = Range(registry) \cup {decls[next].name}
      BY <3>1, RangeAppend
    <3> QED BY <2>3, <3>2
  <2>5. FromDecls'
    BY <2>1, <2>2, <2>4 DEF CallInv, Compiled, FromDecls
  <2>6. UnitsUpTo(count)' /\ (\A u \in 1 .. count : CallsOk(u))'
    BY <2>1, CallsOkFrame DEF CallInv, Compiled, AfterDeclare, UnitsUpTo
  <2> QED BY <2>1, <2>5, <2>6 DEF CallInv, Loading, BeforeJit, Compiled, AfterDeclare
<1>10. CASE CompileDone
  <2>1. pc = "jit" /\ pc' \in {"link", "cleanup"} /\ UNCHANGED <<program, count>>
    BY <1>10 DEF CompileDone, EndLoop, files
  <2> QED BY <2>1, CallFrame DEF Compiled, Ending
<1>11. CASE Link
  <2>1. /\ pc = "link" /\ pc' \in {"protect", "cleanup"} /\ UNCHANGED <<program, count>>
        /\ pc' = "protect" => \A s \in call_sites : s.call.func \in Range(registry)
    BY <1>11 DEF Link, files
  <2> QED BY <2>1, CallFrame DEF Compiled, Ending
<1>12. CASE SetProt \/ Execute \/ MainReturns
  <2>1. /\ pc \in {"protect", "execute", "running"}
        /\ pc' \in {"execute", "running", "cleanup"} /\ UNCHANGED <<program, count>>
    BY <1>12 DEF SetProt, Execute, MainReturns, files
  <2> QED BY <2>1, CallFrame DEF Compiled, Ending
<1>13. CASE PrintErrors \/ ReleaseFiles \/ FreeArenas
  <2>1. pc' \in {"release", "free", "exit"} /\ UNCHANGED <<program, count>>
    BY <1>13 DEF PrintErrors, ReleaseFiles, FreeArenas, files
  <2> QED BY <2>1, CallFrame DEF Ending
<1>14. CASE UNCHANGED vars
  <2>1. UNCHANGED <<pc, next, all_ok, count, program>>
    BY <1>14 DEF vars, files
  <2>2. \A u : CallsOk(u)' = CallsOk(u)
    BY <2>1, CallsOkFrame DEF program
  <2> QED BY <2>1, <2>2 DEF CallInv, UnitsUpTo, FromDecls, program, code
<1>15. CASE OutOfMemory
  <2>1. pc' \in Dead /\ UNCHANGED <<program, count>>
    BY <1>15 DEF OutOfMemory, Die, Dead, files
  <2> QED BY <2>1, CallFrame DEF Dead, Compiled
<1> QED
  BY <1>1, <1>2, <1>3, <1>4, <1>5, <1>6, <1>7, <1>8, <1>9, <1>10, <1>11, <1>12, <1>13, <1>14,
     <1>15
  DEF Next, Progress, Load, Compile, Finish

\* A call that was accepted agrees with every declaration of its callee that is
\* in the table.
LEMMA CalleeAgrees ==
    ASSUME TypeInv, TableInv, pc \in AfterDeclare, NEW c, NEW u, CallOk(u, c),
           NEW j \in DOMAIN decls, decls[j].name = c.func
    PROVE  Passes(c, j)
<1>1. PICK i \in DOMAIN global : Agrees(decls[j], global[i])
  <2>1. InTable(Len(decls)) /\ DOMAIN decls = 1 .. Len(decls)
    BY DEF TableInv, TypeInv
  <2> QED BY <2>1 DEF InTable
<1>2. /\ Entry(c.func) \in DOMAIN global
      /\ global[Entry(c.func)].name = c.func
      /\ global[Entry(c.func)].params = c.args
  BY EntryOf DEF CallOk
<1>3. i = Entry(c.func)
  BY <1>1, <1>2 DEF Agrees, TableInv, NamesDistinct
<1>4. decls[j].params = c.args
  BY <1>1, <1>2, <1>3 DEF Agrees, SameType
<1> QED BY <1>4 DEF Passes

\* The program runs only when every visited call in its code passes what its
\* callee is declared with, and every call recorded for the link, which are all of
\* them up to MAX_CALL_SITES, has a compiled callee that expects what it passes.
THEOREM CallsAgree == Spec => []CallsMatch
<1>1. Init => CallInv
  BY DEF Init, CallInv, Loading, BeforeJit, Compiled, AfterDeclare
<1>2. TypeInv /\ TableInv /\ CallInv /\ SiteInv => CallsMatch
  <2> SUFFICES ASSUME TypeInv, TableInv, CallInv, SiteInv, pc \in {"execute", "running"},
                      NEW s \in code_calls
               PROVE  /\ s.call.visited => \E k \in DOMAIN decls : Passes(s.call, k)
                      /\ \/ /\ s \in call_sites
                            /\ s.call.func \in Range(registry)
                            /\ s.call.visited => \E k \in DOMAIN decls :
                                  Passes(s.call, k) /\ ~decls[k].is_prototype
                         \/ s \notin call_sites /\ Cardinality(call_sites) = MAX_CALL_SITES
    BY DEF CallsMatch
  <2> DEFINE c == s.call
  <2>1. FromDecls /\ (\A u \in 1 .. count : CallsOk(u)) /\ UnitsUpTo(count) /\ pc \in AfterDeclare
    BY DEF CallInv, Compiled, AfterDeclare
  <2>2. PICK k \in DOMAIN decls : c \in decls[k].calls
    BY <2>1 DEF FromDecls
  <2>3. c.visited => CallOk(decls[k].unit, c)
    BY <2>1, <2>2 DEF UnitsUpTo, CallsOk
  <2> HIDE DEF c
  <2>4. ASSUME c.visited PROVE \E j \in DOMAIN decls : Passes(c, j)
    <3>1. PICK j \in DOMAIN decls : decls[j].name = c.func
      BY <2>3, <2>4 DEF CallOk, VisibleIn
    <3> QED BY <2>1, <2>3, <2>4, <3>1, CalleeAgrees
  <2>5. ASSUME s \in call_sites PROVE c.func \in Range(registry)
    BY <2>5 DEF CallInv, c
  <2>6. ASSUME s \in call_sites, c.visited
        PROVE  \E j \in DOMAIN decls : Passes(c, j) /\ ~decls[j].is_prototype
    <3>1. PICK j \in DOMAIN decls : decls[j].name = c.func /\ ~decls[j].is_prototype
      BY <2>1, <2>5, <2>6 DEF FromDecls
    <3> QED BY <2>1, <2>3, <2>6, <3>1, CalleeAgrees
  <2>7. s \notin call_sites => Cardinality(call_sites) = MAX_CALL_SITES
    BY DEF SiteInv
  <2> QED BY <2>4, <2>5, <2>6, <2>7 DEF c
<1> QED BY <1>1, <1>2, CallStep, Types, TableKept, SitesKept, PTL DEF Spec
===============================================================================
