------------------------------ MODULE ScopedMap ------------------------------
(***************************************************************************)
(* What the IR generator expects of its symbol table: a map from variable  *)
(* names to symbols with lexical scopes.  Entering a block remembers the   *)
(* map, declaring a name rebinds it, leaving the block brings back the map *)
(* of the moment the block was entered.                                    *)
(***************************************************************************)
EXTENDS Naturals, Sequences

CONSTANTS Names,      \* identifiers of one function
          Indices     \* virtual registers and stack slots a symbol may denote

NoSymbol == [bound |-> FALSE]

Bindings == [bound : {TRUE}, index : Indices, is_stack : BOOLEAN]

VARIABLES env,        \* the binding of every name, or NoSymbol
          saved       \* one earlier env per open block, innermost last

vars == <<env, saved>>

Init == /\ env = [n \in Names |-> NoSymbol]
        /\ saved = <<>>

\* n now denotes some symbol, whatever it denoted before.
Bind(n) == /\ env'[n] \in Bindings
           /\ env' = [env EXCEPT ![n] = env'[n]]
           /\ UNCHANGED saved

Enter == /\ saved' = Append(saved, env)
         /\ UNCHANGED env

Leave == /\ saved # <<>>
         /\ env' = saved[Len(saved)]
         /\ saved' = SubSeq(saved, 1, Len(saved) - 1)

Next == \/ \E n \in Names : Bind(n)
        \/ Enter
        \/ Leave

Spec == Init /\ [][Next]_vars
==============================================================================
