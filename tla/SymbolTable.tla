----------------------------- MODULE SymbolTable -----------------------------
(***************************************************************************)
(* The symbol table of the IR generator (srcs/ir/ir_symboltable.c) driven  *)
(* by its caller ir_gen (srcs/ir/ir_gen.c).                                *)
(*                                                                         *)
(* The table is one array with open addressing and linear probing, shared  *)
(* by every scope of a function.  symbol_table_add overwrites the entry of *)
(* a shadowed name in place and pushes the old entry on an undo list; when *)
(* gen_block ends, symbol_table_restore pops that list down to the         *)
(* watermark gen_block saved.  There is no deletion: a slot becomes free   *)
(* again only when its change is undone.                                   *)
(*                                                                         *)
(* A ScopeChange pointer is modelled by its depth in the list, 0 for NULL. *)
(***************************************************************************)
EXTENDS Naturals, Sequences, FiniteSets

CONSTANTS Names,          \* identifiers of one function
          TableSize,      \* SYMBOL_TABLE_SIZE, a power of two
          Hashes,         \* the values of hash_sv on Names considered
          MaxParams,      \* bound: parameters of one function
          MaxLocals,      \* bound: variable declarations of one function
          MaxDepth        \* bound: nested blocks

ASSUME TableSizeAssumption == TableSize \in Nat \ {0}
ASSUME BoundsAssumption == /\ MaxParams \in Nat
                           /\ MaxLocals \in Nat
                           /\ MaxDepth \in Nat

Slots == 0 .. TableSize - 1

ASSUME HashAssumption == Hashes \subseteq [Names -> Slots]

\* An entry the zero-initialised table starts with: occupied = false.
Free == [occupied |-> FALSE]

Symbols == [occupied : {TRUE}, name : Names, index : Nat, is_stack : BOOLEAN]

Entries == Symbols \cup {Free}

VARIABLES home,           \* hash_sv(name) & (SYMBOL_TABLE_SIZE - 1)
          entries,        \* SymbolTable.entries
          changes,        \* SymbolTable.changes, head of the list last
          vreg_count,     \* IRFunction.vreg_count while parameters are bound
          stack_count,    \* IRFunction.stack_count
          watermarks,     \* the watermark local of every open gen_block
          in_body,        \* ir_gen is past its loop over the parameters
          restoring,      \* symbol_table_restore is running
          exited          \* why symbol_table_add called exit(1), "no" if not

vars == <<home, entries, changes, vreg_count, stack_count, watermarks, in_body,
          restoring, exited>>

counts == <<vreg_count, stack_count>>

\* (idx + i) & (SYMBOL_TABLE_SIZE - 1)
Probe(n, i) == (home[n] + i) % TableSize

\* The probe at which a scan for n in table t stops: the first free entry or
\* the first entry that holds n.
StopsAt(t, n, i) ==
    LET Hit(j) == t[Probe(n, j)].occupied => t[Probe(n, j)].name = n
    IN  Hit(i) /\ \A j \in 0 .. i - 1 : ~Hit(j)

\* symbol_table_lookup: the entry of n, or Free for NULL.
Lookup(t, n) ==
    IF \E i \in Slots : StopsAt(t, n, i)
    THEN t[Probe(n, CHOOSE i \in Slots : StopsAt(t, n, i))]
    ELSE Free

Running == ~restoring /\ exited = "no"

\* ir_gen clears the table but not stack_count: it starts with what the arena
\* holds there, zero in fresh memory.
Init == /\ home \in Hashes
        /\ entries = [s \in Slots |-> Free]
        /\ changes = <<>>
        /\ vreg_count = 1
        /\ stack_count \in 0 .. MaxLocals
        /\ watermarks = <<>>
        /\ in_body = FALSE
        /\ restoring = FALSE
        /\ exited = "no"

\* The table symbol_table_add leaves when its scan stops at probe i.
Added(n, i, index) ==
    [entries EXCEPT ![Probe(n, i)] =
        [occupied |-> TRUE, name |-> n, index |-> index, is_stack |-> FALSE]]

\* sym->is_stack = true on the entry a lookup of n returned from probe j.
MarkStack(t, n, j) == [t EXCEPT ![Probe(n, j)].is_stack = TRUE]

\* Wrong: an undo record for the slot after the one that is overwritten.
PushChange_NextSlot(s) ==
    changes' = Append(changes, [index |-> s + 1, previous |-> entries[s]])

\* symbol_table_add pushes the entry it is about to overwrite.
PushChange(s) ==
    changes' = Append(changes, [index |-> s, previous |-> entries[s]])

\* ir_gen gives a parameter the next virtual register and adds it.
AddParam(n) ==
    /\ Running
    /\ ~in_body
    /\ vreg_count <= MaxParams
    /\ \E i \in Slots : /\ StopsAt(entries, n, i)
                        /\ PushChange(Probe(n, i))
                        /\ entries' = Added(n, i, vreg_count)
    /\ vreg_count' = vreg_count + 1
    /\ UNCHANGED <<home, stack_count, watermarks, in_body, restoring, exited>>

\* gen_var_decl adds the name with the next stack slot, looks it up again and
\* sets is_stack in the entry the lookup returns.
AddLocal(n) ==
    /\ Running
    /\ stack_count < MaxLocals
    /\ \E i, j \in Slots :
          LET added == Added(n, i, stack_count) IN
          /\ StopsAt(entries, n, i)
          /\ PushChange(Probe(n, i))
          /\ StopsAt(added, n, j)
          /\ entries' = MarkStack(added, n, j)
    /\ stack_count' = stack_count + 1
    /\ in_body' = TRUE
    /\ UNCHANGED <<home, vreg_count, watermarks, restoring, exited>>

\* Wrong: gives up one probe too early.
Overflow_EarlyStop(n) ==
    /\ Running
    /\ ~\E i \in 0 .. TableSize - 2 : StopsAt(entries, n, i)
    /\ exited' = "full"
    /\ UNCHANGED <<home, counts, entries, changes, watermarks, in_body, restoring>>

\* symbol_table_add after TableSize probes of other names: exit(1).
Overflow(n) ==
    /\ Running
    /\ ~\E i \in Slots : StopsAt(entries, n, i)
    /\ exited' = "full"
    /\ UNCHANGED <<home, counts, entries, changes, watermarks, in_body, restoring>>

\* arena_alloc has no memory for the undo record: exit(1).
OutOfMemory(n) ==
    /\ Running
    /\ \E i \in Slots : StopsAt(entries, n, i)
    /\ exited' = "memory"
    /\ UNCHANGED <<home, counts, entries, changes, watermarks, in_body, restoring>>

\* Wrong: a watermark one record above the head of the list.
EnterBlock_AboveHead ==
    /\ Running
    /\ Len(watermarks) < MaxDepth
    /\ watermarks' = Append(watermarks, Len(changes) + 1)
    /\ in_body' = TRUE
    /\ UNCHANGED <<home, counts, entries, changes, restoring, exited>>

\* gen_block saves the head of the undo list.
EnterBlock ==
    /\ Running
    /\ Len(watermarks) < MaxDepth
    /\ watermarks' = Append(watermarks, Len(changes))
    /\ in_body' = TRUE
    /\ UNCHANGED <<home, counts, entries, changes, restoring, exited>>

\* gen_block has generated its statements and calls symbol_table_restore.
LeaveBlock ==
    /\ Running
    /\ watermarks # <<>>
    /\ restoring' = TRUE
    /\ UNCHANGED <<home, counts, entries, changes, watermarks, in_body, exited>>

Target == watermarks[Len(watermarks)]

\* The loop of symbol_table_restore goes on with this table and this list.
Undo(table, log) ==
    /\ restoring
    /\ Len(changes) # Target
    /\ entries' = table
    /\ changes' = log
    /\ UNCHANGED <<home, counts, watermarks, in_body, restoring, exited>>

Popped == SubSeq(changes, 1, Len(changes) - 1)

\* Wrong: frees the slot instead of bringing back the entry it held.
UndoChange_FreesSlot == Undo([entries EXCEPT ![changes[Len(changes)].index] = Free], Popped)

\* Wrong: drops the record without touching the table.
UndoChange_KeepsEntry == Undo(entries, Popped)

\* Wrong: does not advance the head of the list.
UndoChange_KeepsRecord ==
    Undo([entries EXCEPT ![changes[Len(changes)].index] = changes[Len(changes)].previous], changes)

\* One iteration of the loop of symbol_table_restore.
UndoChange ==
    LET top == changes[Len(changes)]
    IN  Undo([entries EXCEPT ![top.index] = top.previous], Popped)

\* The loop ends; gen_block returns and its watermark is gone.
RestoreDone ==
    /\ restoring
    /\ Len(changes) = Target
    /\ restoring' = FALSE
    /\ watermarks' = SubSeq(watermarks, 1, Len(watermarks) - 1)
    /\ UNCHANGED <<home, counts, entries, changes, in_body, exited>>

Next == \/ \E n \in Names : AddParam(n) \/ AddLocal(n) \/ Overflow(n) \/ OutOfMemory(n)
        \/ EnterBlock
        \/ LeaveBlock
        \/ UndoChange
        \/ RestoreDone

Spec == Init /\ [][Next]_vars /\ WF_vars(UndoChange \/ RestoreDone)

-----------------------------------------------------------------------------
(* Properties *)

\* Every variable keeps its type.
TypeOK ==
    /\ home \in [Names -> Slots]
    /\ entries \in [Slots -> Entries]
    /\ changes \in Seq([index : Slots, previous : Entries])
    /\ vreg_count \in Nat
    /\ stack_count \in Nat
    /\ watermarks \in Seq(Nat)
    /\ in_body \in BOOLEAN
    /\ restoring \in BOOLEAN
    /\ exited \in {"no", "full", "memory"}

\* Record j is the oldest change of slot s that log holds above depth k.
IsOldest(log, k, s, j) ==
    /\ log[j].index = s
    /\ \A l \in k + 1 .. j - 1 : log[l].index # s

\* The table symbol_table_restore leaves when it undoes log down to depth k: a
\* slot changed since then holds what the oldest of those changes overwrote.
Undone(log, table, k) ==
    [s \in Slots |->
        IF \E j \in k + 1 .. Len(log) : log[j].index = s
        THEN log[CHOOSE j \in k + 1 .. Len(log) : IsOldest(log, k, s, j)].previous
        ELSE table[s]]

TableAt(k) == Undone(changes, entries, k)

\* A scan stops at the first free slot, so an entry is only found while every
\* slot between its home and itself is occupied; and a name has one entry.
Reachable(t) ==
    \A s \in Slots : t[s].occupied =>
        \E i \in Slots : s = Probe(t[s].name, i) /\ StopsAt(t, t[s].name, i)

\* Undoing changes frees slots in the middle of probe chains other names built
\* on: every table the undo list can bring back, in the middle of a restore
\* included, still finds all of its entries.
ChainsUnbroken == \A k \in 0 .. Len(changes) : Reachable(TableAt(k))

\* The watermark symbol_table_restore runs down to is a record still on the
\* list: otherwise its loop would pass the end of the list and read NULL.
WatermarksOnList ==
    /\ \A k \in 1 .. Len(watermarks) :
          /\ watermarks[k] <= Len(changes)
          /\ \A l \in 1 .. k : watermarks[l] <= watermarks[k]
    /\ restoring => watermarks # <<>>

\* The overflow exit is taken only by a function that really has TableSize
\* distinct names in scope: no slot is lost to a scope that has ended.  (The
\* other exit(1) of symbol_table_add, for want of memory, has no such reason.)
OverflowOnlyWhenFull ==
    exited = "full" => Cardinality({entries[s].name : s \in {r \in Slots : entries[r].occupied}})
                = TableSize

\* The while loop of symbol_table_restore ends.
RestoreTerminates == restoring ~> ~restoring

View(t) ==
    [n \in Names |->
        LET sym == Lookup(t, n) IN
        IF sym.occupied
        THEN [bound |-> TRUE, index |-> sym.index, is_stack |-> sym.is_stack]
        ELSE [bound |-> FALSE]]

OpenBlocks == Len(watermarks) - (IF restoring THEN 1 ELSE 0)

\* A block has ended for the IR generator as soon as the restore begins.
Current == IF restoring THEN Target ELSE Len(changes)

CurrentMap == View(TableAt(Current))

SavedMaps == [k \in 1 .. OpenBlocks |-> View(TableAt(watermarks[k]))]

Abstract == INSTANCE ScopedMap WITH
    Indices <- 0 .. MaxParams + MaxLocals,
    env <- CurrentMap,
    saved <- SavedMaps

\* What the names mean to the IR generator is a lexically scoped map: a lookup
\* finds the innermost declaration, and leaving a block brings back exactly
\* the bindings of the moment it was entered.
ImplementsScopedMap == Abstract!Spec
==============================================================================
