-------------------------------- MODULE Pool --------------------------------
(***************************************************************************)
(* What a memory arena promises the phases of the compiler that draw from  *)
(* it: objects that are aligned and never overlap, that all live until the *)
(* arena is freed, and that can be sealed once, after the last one.        *)
(***************************************************************************)
EXTENDS Integers

CONSTANTS Addresses,      \* the addresses of the process
          Sizes, Aligns   \* what its users ask for

VARIABLES objects,        \* the live objects
          life            \* filling, then sealed or failed, then freed

vars == <<objects, life>>

Bytes(o) == o.addr .. o.addr + o.size - 1

Init == objects = {} /\ life = "filling"

\* An allocation that succeeds; one that fails changes nothing.
Alloc == \E size \in Sizes \ {0}, align \in Aligns, addr \in Addresses :
    LET new == [addr |-> addr, size |-> size, align |-> align]
    IN /\ life = "filling"
       /\ addr % align = 0
       /\ Bytes(new) \subseteq Addresses
       /\ \A o \in objects : Bytes(o) \cap Bytes(new) = {}
       /\ objects' = objects \cup {new}
       /\ UNCHANGED life

Seal == /\ life = "filling"
        /\ life' \in {"sealed", "failed"}
        /\ UNCHANGED objects

Free == /\ life # "freed"
        /\ objects' = {}
        /\ life' = "freed"

Next == Alloc \/ Seal \/ Free

Spec == Init /\ [][Next]_vars
=============================================================================
