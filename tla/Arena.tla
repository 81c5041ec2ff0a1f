-------------------------------- MODULE Arena --------------------------------
(***************************************************************************)
(* The growing memory arena of incs/memarena.h, as the compiler uses it:   *)
(* objects are allocated while the sources are compiled, a number literal  *)
(* is converted in a scratch buffer that is given back (sv_to_int64 in     *)
(* incs/string_view.h), the arena that holds machine code is made          *)
(* executable, and the arena is freed.  Memory is a function from the      *)
(* mapped addresses to their protection; a block is a header of            *)
(* sizeof(ArenaBlock) bytes at the start of a mapping, and the newest one  *)
(* is a->curr.                                                             *)
(*                                                                         *)
(* An operation that calls mmap or mprotect yields the set of its          *)
(* outcomes, one for every answer of the kernel.                           *)
(***************************************************************************)
EXTENDS Integers, Sequences, FiniteSets

CONSTANTS PAGE,                    \* get_page_size()
          HEADER,                  \* sizeof(ArenaBlock)
          MEMARENA_DEFAULT_SIZE,
          DEFAULT_ALIGNMENT,
          TOP,                     \* bound: the first address past user space
          Sizes, Aligns,           \* what the program asks for
          MaxObjects               \* bound: live objects

ASSUME PageAssumption == PAGE \in Nat \ {0}
ASSUME HeaderAssumption ==
    /\ HEADER \in Nat \ {0}
    /\ DEFAULT_ALIGNMENT \in Nat \ {0}
    /\ HEADER % DEFAULT_ALIGNMENT = 0
    /\ PAGE % DEFAULT_ALIGNMENT = 0
ASSUME SizeAssumption ==
    /\ MEMARENA_DEFAULT_SIZE \in Nat
    /\ TOP \in Nat
    /\ Sizes \subseteq Nat
    /\ Aligns \subseteq Nat \ {0}
ASSUME MaxObjectsAssumption == MaxObjects \in Nat

NULL == 0                          \* also MAP_FAILED: no outcome is both
Addresses == PAGE .. TOP - 1       \* the page at address zero is never mapped
Protections == {"rw", "rx"}        \* PROT_READ with PROT_WRITE or PROT_EXEC

VARIABLES arena,                   \* [blocks, prot]: the chain of a->curr
          memory,                  \* mapped address -> protection
          objects,                 \* what arena_alloc returned and is in use
          life                     \* where main has got to with this arena

vars == <<arena, memory, objects, life>>

-----------------------------------------------------------------------------
(* Blocks *)

Larger(m, n) == IF m > n THEN m ELSE n

\* (size + PAGE - 1) & ~(PAGE - 1)
align_to_page(size) == (size + PAGE - 1) - ((size + PAGE - 1) % PAGE)

\* Wrong: takes the address for an aligned one whenever it is even.
align_forward_Even(ptr, align) == IF ptr % 2 # 0 THEN ptr + 1 ELSE ptr

align_forward(ptr, align) ==
    IF ptr % align # 0 THEN ptr + (align - (ptr % align)) ELSE ptr

Span(base, size) == base .. base + size - 1

\* Every answer of mmap: any free range of whole pages, the hinted one or
\* not, or a failure.
mmap(m, size) ==
    {NULL} \cup
    {base \in Addresses : /\ base % PAGE = 0
                          /\ Span(base, size) \subseteq Addresses
                          /\ Span(base, size) \cap DOMAIN m.memory = {}}

Mapped(m, base, size) ==
    [x \in DOMAIN m.memory \cup Span(base, size) |->
        IF x \in DOMAIN m.memory THEN m.memory[x] ELSE m.arena.prot]

Unmapped(memory0, bytes) == [x \in DOMAIN memory0 \ bytes |-> memory0[x]]

Newest(m) == m.arena.blocks[Len(m.arena.blocks)]

NewBlock(base, size) == [base |-> base, size |-> size, offset |-> HEADER]

\* Wrong: the extended block keeps its old size.
Extended_SizeKept(m, base, total) ==
    LET blocks == m.arena.blocks
        n == Len(blocks)
    IN IF n # 0 /\ base = Newest(m).base + Newest(m).size
       THEN blocks
       ELSE Append(blocks, NewBlock(base, total))

\* The new mapping extends the newest block when the kernel honours the hint,
\* and is a block of its own otherwise.
Extended(m, base, total) ==
    LET blocks == m.arena.blocks
        n == Len(blocks)
    IN IF n # 0 /\ base = Newest(m).base + Newest(m).size
       THEN [blocks EXCEPT ![n].size = @ + total]
       ELSE Append(blocks, NewBlock(base, total))

\* Wrong: the answer of mmap is not tested.
arena_create_block_Unchecked(m, capacity) ==
    LET total == align_to_page(capacity + HEADER)
    IN {[ok |-> TRUE,
         m |-> [arena |-> [m.arena EXCEPT !.blocks = Extended(m, base, total)],
                memory |-> Mapped(m, base, total)]]
        : base \in mmap(m, total)}

\* A state of the arena and its memory is m == [arena, memory]; ok tells
\* whether a block was obtained.
arena_create_block(m, capacity) ==
    LET total == align_to_page(capacity + HEADER)
    IN {IF base = NULL
        THEN [ok |-> FALSE, m |-> m]
        ELSE [ok |-> TRUE,
              m |-> [arena |-> [m.arena EXCEPT !.blocks = Extended(m, base, total)],
                     memory |-> Mapped(m, base, total)]]
        : base \in mmap(m, total)}

-----------------------------------------------------------------------------
(* Allocation *)

\* The first block of an empty arena.
FirstBlock(m, size) ==
    IF m.arena.blocks = <<>>
    THEN arena_create_block(m, Larger(size, MEMARENA_DEFAULT_SIZE))
    ELSE {[ok |-> TRUE, m |-> m]}

Here(m) == Newest(m).base + Newest(m).offset

Padding(m, align) == align_forward(Here(m), align) - Here(m)

Fits(m, size, align) ==
    Newest(m).offset + Padding(m, align) + size <= Newest(m).size

\* Wrong: the new block has no room for the padding.
Room_NoPadding(m, size, align) ==
    IF Fits(m, size, align)
    THEN {[ok |-> TRUE, m |-> m]}
    ELSE arena_create_block(m, Larger(size, MEMARENA_DEFAULT_SIZE))

\* The block that will hold the object: the newest one, or after growth.
Room(m, size, align) ==
    IF Fits(m, size, align)
    THEN {[ok |-> TRUE, m |-> m]}
    ELSE arena_create_block(m, Larger(size + align, MEMARENA_DEFAULT_SIZE))

\* Cut the object off the newest block, which has room for it.
Bump(m, size, align) ==
    [ptr |-> Here(m) + Padding(m, align),
     m |-> [m EXCEPT !.arena.blocks[Len(m.arena.blocks)].offset = @ + Padding(m, align) + size]]

Failed(m) == [ptr |-> NULL, m |-> m]

PlaceIn(r, size, align) == IF r.ok THEN Bump(r.m, size, align) ELSE Failed(r.m)

\* Growth can fail after the first block was obtained: the block stays.
arena_alloc_aligned(m, size, align) ==
    IF size = 0
    THEN {Failed(m)}
    ELSE UNION {IF first.ok
                THEN {PlaceIn(r, size, align) : r \in Room(first.m, size, align)}
                ELSE {Failed(first.m)}
                : first \in FirstBlock(m, size)}

-----------------------------------------------------------------------------
(* Temporaries *)

\* The position is the number of blocks in the chain, so that its newest one
\* is pos.block (none when it is zero), with that block's offset.
arena_temp_begin(m) ==
    [block |-> Len(m.arena.blocks),
     offset |-> IF m.arena.blocks = <<>> THEN 0 ELSE Newest(m).offset]

BlockBytes(b) == Span(b.base, b.size)

BytesAfter(blocks, n) == UNION {BlockBytes(blocks[i]) : i \in n + 1 .. Len(blocks)}

\* Wrong: the offset of the block is not restored.
arena_temp_end_OffsetKept(m, pos) ==
    LET blocks == m.arena.blocks
    IN CASE blocks = <<>> -> m
         [] blocks # <<>> /\ pos.block = 0 ->
              [m EXCEPT !.memory = Unmapped(@, BytesAfter(blocks, 1))]
         [] blocks # <<>> /\ pos.block # 0 ->
              [arena |-> [m.arena EXCEPT !.blocks = SubSeq(blocks, 1, pos.block)],
               memory |-> Unmapped(m.memory, BytesAfter(blocks, pos.block))]

\* A temporary begun on an empty arena never finds its block: the walk stops
\* at the oldest block and leaves a->curr where it was.
arena_temp_end(m, pos) ==
    LET blocks == m.arena.blocks
    IN CASE blocks = <<>> -> m
         [] blocks # <<>> /\ pos.block = 0 ->
              [m EXCEPT !.memory = Unmapped(@, BytesAfter(blocks, 1))]
         [] blocks # <<>> /\ pos.block # 0 ->
              [arena |-> [m.arena EXCEPT !.blocks =
                            [SubSeq(blocks, 1, pos.block) EXCEPT ![pos.block].offset = pos.offset]],
               memory |-> Unmapped(m.memory, BytesAfter(blocks, pos.block))]

\* The buffer is dead once the temporary has ended, and the temporary ends
\* whether or not there was memory for it.
sv_to_int64(m, len) ==
    {arena_temp_end(r.m, arena_temp_begin(m))
        : r \in arena_alloc_aligned(m, len + 1, DEFAULT_ALIGNMENT)}

-----------------------------------------------------------------------------
(* Protection *)

Protect(memory0, bytes, prot) ==
    [x \in DOMAIN memory0 |-> IF x \in bytes THEN prot ELSE memory0[x]]

\* Wrong: only the newest block is protected.
arena_set_prot_Newest(m, prot) ==
    {[ok |-> TRUE,
      m |-> [arena |-> [m.arena EXCEPT !.prot = prot],
             memory |-> Protect(m.memory,
                                BytesAfter(m.arena.blocks, Len(m.arena.blocks) - 1),
                                prot)]]}

\* The walk goes from the newest block to the oldest and stops at the first
\* mprotect that fails (at block number stop, none when it is zero).
arena_set_prot(m, prot) ==
    {[ok |-> stop = 0,
      m |-> [arena |-> IF stop = 0 THEN [m.arena EXCEPT !.prot = prot] ELSE m.arena,
             memory |-> Protect(m.memory, BytesAfter(m.arena.blocks, stop), prot)]]
        : stop \in 0 .. Len(m.arena.blocks)}

-----------------------------------------------------------------------------
(* The life of an arena in main *)

State == [arena |-> arena, memory |-> memory]
BecomesState(m) == arena' = m.arena /\ memory' = m.memory

arena_init(prot) == [blocks |-> <<>>, prot |-> prot]

Init == /\ arena = arena_init("rw")
        /\ memory = [x \in {} |-> "rw"]
        /\ objects = {}
        /\ life = "filling"

\* arena_alloc and arena_alloc_aligned, called by a phase of the compiler.
Alloc(size, align) ==
    /\ life = "filling"
    /\ Cardinality(objects) < MaxObjects
    /\ \E r \in arena_alloc_aligned(State, size, align) :
          /\ BecomesState(r.m)
          /\ objects' = IF r.ptr = NULL THEN objects
                        ELSE objects \cup {[addr |-> r.ptr, size |-> size, align |-> align]}
    /\ UNCHANGED life

\* A number literal of len digits is converted.
Scratch(len) ==
    /\ life = "filling"
    /\ \E m \in sv_to_int64(State, len) : BecomesState(m)
    /\ UNCHANGED <<objects, life>>

\* main makes the machine code executable before it runs it; when that fails
\* it only frees the arena.
Seal ==
    /\ life = "filling"
    /\ \E r \in arena_set_prot(State, "rx") :
          /\ BecomesState(r.m)
          /\ life' = IF r.ok THEN "sealed" ELSE "failed"
    /\ UNCHANGED objects

arena_free ==
    /\ life # "freed"
    /\ arena' = [arena EXCEPT !.blocks = <<>>]
    /\ memory' = Unmapped(memory, BytesAfter(arena.blocks, 0))
    /\ objects' = {}
    /\ life' = "freed"

Next == \/ \E size \in Sizes, align \in Aligns : Alloc(size, align)
        \/ \E len \in Sizes : Scratch(len)
        \/ Seal
        \/ arena_free

Spec == Init /\ [][Next]_vars

-----------------------------------------------------------------------------
(* Properties *)

Blocks == {arena.blocks[i] : i \in 1 .. Len(arena.blocks)}

ObjectBytes(o) == Span(o.addr, o.size)
HeaderBytes(b) == Span(b.base, HEADER)

\* Live objects are in mapped memory, off the headers of the blocks (which a
\* write through an object would destroy) and off each other, whatever the
\* kernel answered and however blocks were extended, chained and given back.
ObjectsApart ==
    /\ \A o \in objects : /\ ObjectBytes(o) \subseteq DOMAIN memory
                          /\ \A b \in Blocks : ObjectBytes(o) \cap HeaderBytes(b) = {}
    /\ \A o, p \in objects : o = p \/ ObjectBytes(o) \cap ObjectBytes(p) = {}

\* The chain of blocks covers exactly the memory the arena has mapped, so the
\* walk of arena_free gives all of it back and touches nothing else.
MappedExactly ==
    /\ DOMAIN memory = BytesAfter(arena.blocks, 0)
    /\ life = "freed" => DOMAIN memory = {}

\* Nothing can be executed while it can still be written: all memory is
\* writable until the arena is sealed, and none of it afterwards.
WriteXorExecute ==
    /\ life = "filling" => \A x \in DOMAIN memory : memory[x] = "rw"
    /\ life = "sealed" => \A x \in DOMAIN memory : memory[x] = "rx"

Position(blocks) ==
    [i \in 1 .. Len(blocks) |-> [base |-> blocks[i].base, offset |-> blocks[i].offset]]

\* Converting a number leaves an arena that is in use at the position where
\* it was, so that the literals of a program consume no memory.
ScratchReturned ==
    [][(\E len \in Sizes : Scratch(len)) /\ arena.blocks # <<>>
           => Position(arena.blocks') = Position(arena.blocks)]_vars

Promise == INSTANCE Pool

\* The arena keeps the promise of a pool.
ImplementsPool == Promise!Spec
=============================================================================
