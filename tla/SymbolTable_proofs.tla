-------------------------- MODULE SymbolTable_proofs --------------------------
(***************************************************************************)
(* Proofs about the symbol table, for every set of names, every table size *)
(* and every hash function.                                                *)
(***************************************************************************)
EXTENDS SymbolTable, NaturalsInduction, WellFoundedInduction, SequenceTheorems,
        FiniteSetTheorems, TLAPS

\* ---- natural numbers ----

\* Every nonempty set of natural numbers has a least element.
LEMMA Least ==
    ASSUME NEW T, T \subseteq Nat, T # {}
    PROVE  \E m \in T : \A k \in T : m <= k
<1> DEFINE R == OpToRel(<, Nat)
<1>1. IsWellFoundedOn(R, Nat)
  BY NatLessThanWellFounded
<1>2. \A a, b \in Nat : a < b => <<a, b>> \in R
  BY DEF OpToRel
<1> HIDE DEF R
<1>3. PICK m \in T : \A y \in T : ~(<<y, m>> \in R)
  BY <1>1, WFMin
<1>4. \A k \in T : k \in Nat /\ m \in Nat /\ ~(k < m)
  BY <1>2, <1>3, Zenon
<1>5. \A k \in T : m <= k
  BY <1>4
<1> QED BY <1>5

Hit(t, n, i) == t[Probe(n, i)].occupied => t[Probe(n, i)].name = n

\* The scan of symbol_table_lookup stops at the first probe that is free or
\* holds the name.
LEMMA StopsAtDef ==
  ASSUME NEW t, NEW n, NEW i
  PROVE  StopsAt(t, n, i) <=> Hit(t, n, i) /\ \A j \in 0 .. i - 1 : ~Hit(t, n, j)
BY DEF StopsAt, Hit

\* An entry that is not free is a symbol.
LEMMA OccupiedEntry ==
  ASSUME NEW e \in Entries, e.occupied
  PROVE  e \in Symbols /\ e.name \in Names
<1>1. e # Free
  BY DEF Free
<1>2. e \in Symbols
  BY <1>1 DEF Entries
<1>3. QED
  BY <1>2 DEF Symbols

\* Arithmetic: a remainder lies below its divisor.
LEMMA ModRange ==
  ASSUME NEW a \in Nat, NEW b \in Nat \ {0}
  PROVE  a % b \in 0 .. b - 1
OBVIOUS

\* Every probe is a slot of the table.
LEMMA ProbeInSlots ==
  ASSUME TypeOK, NEW n \in Names, NEW i \in Slots
  PROVE  Probe(n, i) \in Slots
<1>1. home[n] \in Nat /\ i \in Nat
  BY TableSizeAssumption DEF TypeOK, Slots
<1>2. QED
  BY <1>1, ModRange, TableSizeAssumption DEF Probe, Slots

\* The scan for a name stops at one probe only.
LEMMA StopUnique ==
  ASSUME NEW t, NEW n, NEW i \in Slots, NEW j \in Slots,
         StopsAt(t, n, i), StopsAt(t, n, j)
  PROVE  i = j
<1>1. i \in Nat /\ j \in Nat
  BY TableSizeAssumption DEF Slots
<1>2. ~(i < j)
  BY <1>1, StopsAtDef
<1>3. ~(j < i)
  BY <1>1, StopsAtDef
<1>4. QED
  BY <1>1, <1>2, <1>3

\* Writing an entry for n where the scan for n stops keeps every entry of the
\* table reachable.
LEMMA AddKeepsReachable ==
  ASSUME TypeOK, NEW t \in [Slots -> Entries], Reachable(t),
         NEW n \in Names, NEW i \in Slots, StopsAt(t, n, i),
         NEW u \in [Slots -> Entries],
         u[Probe(n, i)].occupied, u[Probe(n, i)].name = n,
         \A s \in Slots : s # Probe(n, i) => u[s] = t[s]
  PROVE  Reachable(u)
<1> DEFINE p == Probe(n, i)
<1>p. p \in Slots
  BY ProbeInSlots
<1>n. \A s \in Slots : t[s].occupied => t[s].name \in Names
  BY OccupiedEntry
<1> SUFFICES ASSUME NEW s \in Slots, u[s].occupied
             PROVE  \E k \in Slots : s = Probe(u[s].name, k) /\ StopsAt(u, u[s].name, k)
  BY DEF Reachable
<1>i. \A k \in Slots : \A j \in 0 .. k - 1 : j \in Slots
  BY TableSizeAssumption DEF Slots
<1>1. CASE s = p
  <2>1. \A j \in 0 .. i - 1 : Probe(n, j) # p
    BY StopsAtDef DEF Hit
  <2>2. \A j \in 0 .. i - 1 : Probe(n, j) \in Slots
    BY <1>i, ProbeInSlots
  <2>3. StopsAt(u, n, i)
    BY <2>1, <2>2, StopsAtDef DEF Hit
  <2>4. QED
    BY <1>1, <2>3
<1>2. CASE s # p
  <2> DEFINE m == t[s].name
  <2>1. u[s] = t[s]
    BY <1>2
  <2>2. PICK k \in Slots : s = Probe(m, k) /\ StopsAt(t, m, k)
    BY <2>1 DEF Reachable
  <2>3. m # n
    BY <2>2, <1>2, StopUnique
  <2>m. m \in Names
    BY <1>n, <2>1
  <2>4. \A j \in 0 .. k - 1 : Probe(m, j) \in Slots
    BY <1>i, <2>m, ProbeInSlots
  <2>5. \A j \in 0 .. k - 1 : ~Hit(u, m, j)
    <3> SUFFICES ASSUME NEW j \in 0 .. k - 1 PROVE ~Hit(u, m, j)
      OBVIOUS
    <3>1. ~Hit(t, m, j)
      BY <2>2, StopsAtDef
    <3>2. CASE Probe(m, j) = p
      BY <3>2, <2>3 DEF Hit
    <3>3. CASE Probe(m, j) # p
      BY <3>3, <3>1, <2>4 DEF Hit
    <3>4. QED
      BY <3>2, <3>3
  <2>6. Hit(u, m, k)
    BY <2>1, <2>2 DEF Hit
  <2>7. StopsAt(u, m, k)
    BY <2>5, <2>6, StopsAtDef
  <2>8. QED
    BY <2>1, <2>2, <2>7
<1>3. QED
  BY <1>1, <1>2

-----------------------------------------------------------------------------
(* The undo list *)

Records == [index : Slots, previous : Entries]

\* Every slot changed above depth k has an oldest change.
HasOldest(log) ==
    \A k \in 0 .. Len(log), s \in Slots :
        (\E j \in k + 1 .. Len(log) : log[j].index = s)
            => \E j \in k + 1 .. Len(log) : IsOldest(log, k, s, j)

\* Dropping the last record keeps the others.
LEMMA DropLast ==
  ASSUME NEW S, NEW q \in Seq(S), Len(q) > 0
  PROVE  /\ SubSeq(q, 1, Len(q) - 1) \in Seq(S)
         /\ Len(SubSeq(q, 1, Len(q) - 1)) = Len(q) - 1
         /\ \A i \in 1 .. Len(q) - 1 : SubSeq(q, 1, Len(q) - 1)[i] = q[i]
<1> DEFINE n == Len(q) - 1
<1>1. 1 \in Int /\ n \in Nat /\ n \in Int /\ \A i \in 1 .. n : q[i] \in S
  OBVIOUS
<1> HIDE DEF n
<1>2. Len(SubSeq(q, 1, n)) = IF 1 <= n THEN n - 1 + 1 ELSE 0
  BY <1>1, SubSeqProperties
<1>3. Len(SubSeq(q, 1, n)) = n
  BY <1>1, <1>2
<1>4. /\ SubSeq(q, 1, Len(q) - 1) \in Seq(S)
      /\ \A i \in 1 .. Len(q) - 1 : SubSeq(q, 1, Len(q) - 1)[i] = q[i]
  OBVIOUS
<1>5. QED
  BY <1>3, <1>4 DEF n

\* With nothing left to undo the table is the present one.
LEMMA UndoneTop ==
  ASSUME NEW log \in Seq(Records), NEW table \in [Slots -> Entries]
  PROVE  Undone(log, table, Len(log)) = table
BY DEF Undone

\* A slot changed since watermark k gets back what the oldest record after k
\* kept of it.
LEMMA UndoneAt ==
  ASSUME NEW log \in Seq(Records), NEW table, NEW k \in 0 .. Len(log), NEW s \in Slots,
         NEW j \in k + 1 .. Len(log), IsOldest(log, k, s, j)
  PROVE  Undone(log, table, k)[s] = log[j].previous
<1>1. log[j].index = s
  BY DEF IsOldest
<1>2. ASSUME NEW i \in k + 1 .. Len(log), IsOldest(log, k, s, i)
      PROVE  i = j
  <2>1. ~(i < j) /\ ~(j < i)
    BY <1>2 DEF IsOldest
  <2>2. QED
    BY <2>1
<1>3. (CHOOSE i \in k + 1 .. Len(log) : IsOldest(log, k, s, i)) = j
  BY <1>2
<1>4. QED
  BY <1>1, <1>3 DEF Undone

\* Two earlier tables that agree on every slot are equal.
LEMMA UndoneEqual ==
  ASSUME NEW log1, NEW table1, NEW log2, NEW table2, NEW k,
         \A s \in Slots : Undone(log1, table1, k)[s] = Undone(log2, table2, k)[s]
  PROVE  Undone(log1, table1, k) = Undone(log2, table2, k)
<1>1. /\ Undone(log1, table1, k) = [s \in Slots |-> Undone(log1, table1, k)[s]]
      /\ Undone(log2, table2, k) = [s \in Slots |-> Undone(log2, table2, k)[s]]
  BY DEF Undone
<1>2. QED
  BY <1>1

\* A change that is recorded on the list leaves every earlier table as it was.
LEMMA PushLog ==
  ASSUME NEW log \in Seq(Records), HasOldest(log),
         NEW table \in [Slots -> Entries], NEW new \in [Slots -> Entries],
         NEW p \in Slots, \A s \in Slots : s # p => new[s] = table[s],
         NEW log2 \in Seq(Records), Len(log2) = Len(log) + 1,
         \A j \in 1 .. Len(log) : log2[j] = log[j],
         log2[Len(log) + 1] = [index |-> p, previous |-> table[p]]
  PROVE  /\ HasOldest(log2)
         /\ \A k \in 0 .. Len(log) : Undone(log2, new, k) = Undone(log, table, k)
<1>1. /\ log2 \in Seq(Records)
      /\ Len(log2) = Len(log) + 1
      /\ \A j \in 1 .. Len(log) : log2[j] = log[j]
      /\ log2[Len(log) + 1] = [index |-> p, previous |-> table[p]]
  OBVIOUS
<1>u. ASSUME NEW k \in 0 .. Len(log), NEW s \in Slots, NEW j \in k + 1 .. Len(log2),
             IsOldest(log2, k, s, j)
      PROVE  Undone(log2, new, k)[s] = log2[j].previous
  <2>1. k \in 0 .. Len(log2)
    BY <1>1
  <2>2. QED
    BY <1>u, <2>1, UndoneAt
<1>2. ASSUME NEW k \in 0 .. Len(log), NEW s \in Slots, NEW j \in k + 1 .. Len(log),
             IsOldest(log, k, s, j)
      PROVE  IsOldest(log2, k, s, j)
  BY <1>1, <1>2, SMTT(30) DEF IsOldest
<1>3. ASSUME NEW k \in 0 .. Len(log),
             ~\E j \in k + 1 .. Len(log) : log[j].index = p
      PROVE  IsOldest(log2, k, p, Len(log) + 1)
  BY <1>1, <1>3 DEF IsOldest
<1>4. HasOldest(log2)
  <2> SUFFICES ASSUME NEW k \in 0 .. Len(log2), NEW s \in Slots,
                      NEW j \in k + 1 .. Len(log2), log2[j].index = s
               PROVE  \E i \in k + 1 .. Len(log2) : IsOldest(log2, k, s, i)
    BY DEF HasOldest
  <2>0. k \in 0 .. Len(log)
    BY <1>1
  <2>1. CASE \E i \in k + 1 .. Len(log) : log[i].index = s
    <3>1. PICK i \in k + 1 .. Len(log) : IsOldest(log, k, s, i)
      BY <2>0, <2>1 DEF HasOldest
    <3>2. QED
      BY <1>1, <1>2, <2>0, <3>1
  <2>2. CASE ~\E i \in k + 1 .. Len(log) : log[i].index = s
    <3>1. j = Len(log) + 1 /\ s = p
      BY <1>1, <2>0, <2>2
    <3>2. QED
      BY <1>1, <1>3, <2>0, <2>2, <3>1
  <2>3. QED
    BY <2>1, <2>2
<1>5. ASSUME NEW k \in 0 .. Len(log), NEW s \in Slots
      PROVE  Undone(log2, new, k)[s] = Undone(log, table, k)[s]
  <2>0. k \in 0 .. Len(log2)
    BY <1>1
  <2>1. CASE \E i \in k + 1 .. Len(log) : log[i].index = s
    <3>1. PICK i \in k + 1 .. Len(log) : IsOldest(log, k, s, i)
      BY <2>1 DEF HasOldest
    <3>2. IsOldest(log2, k, s, i) /\ i \in k + 1 .. Len(log2) /\ log2[i] = log[i]
      BY <1>1, <1>2, <3>1
    <3>3. Undone(log, table, k)[s] = log[i].previous
      BY <3>1, UndoneAt, ZenonT(30), SMTT(30)
    <3>4. Undone(log2, new, k)[s] = log2[i].previous
      BY <1>u, <3>2
    <3>5. QED
      BY <3>2, <3>3, <3>4
  <2>2. CASE ~\E i \in k + 1 .. Len(log) : log[i].index = s
    <3>1. Undone(log, table, k)[s] = table[s]
      BY <2>2 DEF Undone
    <3>2. CASE s = p
      <4>1. IsOldest(log2, k, s, Len(log) + 1)
        BY <1>3, <2>2, <3>2
      <4>2. Undone(log2, new, k)[s] = log2[Len(log) + 1].previous
        BY <1>1, <1>u, <4>1, SMTT(30)
      <4>3. QED
        BY <1>1, <3>1, <3>2, <4>2
    <3>3. CASE s # p
      <4>1. ~\E i \in k + 1 .. Len(log2) : log2[i].index = s
        BY <1>1, <2>2, <3>3
      <4>2. Undone(log2, new, k)[s] = new[s]
        BY <4>1 DEF Undone
      <4>3. QED
        BY <3>1, <3>3, <4>2
    <3>4. QED
      BY <3>2, <3>3
  <2>3. QED
    BY <2>1, <2>2
<1>6. ASSUME NEW k \in 0 .. Len(log)
      PROVE  Undone(log2, new, k) = Undone(log, table, k)
  <2>1. \A s \in Slots : Undone(log2, new, k)[s] = Undone(log, table, k)[s]
    BY <1>5
  <2>2. QED
    BY <2>1, UndoneEqual
<1>7. QED
  BY <1>4, <1>6

\* Undoing the last record of the list leaves every earlier table as it was.
LEMMA PopLog ==
  ASSUME NEW log \in Seq(Records), HasOldest(log), Len(log) > 0,
         NEW table \in [Slots -> Entries],
         NEW log2 \in Seq(Records), Len(log2) = Len(log) - 1,
         \A j \in 1 .. Len(log) - 1 : log2[j] = log[j],
         NEW new \in [Slots -> Entries],
         new[log[Len(log)].index] = log[Len(log)].previous,
         \A s \in Slots : s # log[Len(log)].index => new[s] = table[s]
  PROVE  /\ HasOldest(log2)
         /\ \A k \in 0 .. Len(log2) : Undone(log2, new, k) = Undone(log, table, k)
<1> DEFINE top == log[Len(log)]
<1>1. /\ log2 \in Seq(Records)
      /\ Len(log2) = Len(log) - 1
      /\ \A j \in 1 .. Len(log) - 1 : log2[j] = log[j]
  OBVIOUS
<1>2. top \in Records
  OBVIOUS
<1>3. /\ new[top.index] = top.previous
      /\ \A s \in Slots : s # top.index => new[s] = table[s]
  OBVIOUS
<1>4. ASSUME NEW k \in 0 .. Len(log2), NEW s \in Slots,
             NEW i \in k + 1 .. Len(log2), log2[i].index = s
      PROVE  \E j \in k + 1 .. Len(log2) : IsOldest(log2, k, s, j) /\ IsOldest(log, k, s, j)
  <2>1. k \in 0 .. Len(log) /\ i \in k + 1 .. Len(log) /\ log[i].index = s
    BY <1>1, <1>4
  <2>2. PICK j \in k + 1 .. Len(log) : IsOldest(log, k, s, j)
    BY <2>1 DEF HasOldest
  <2>3. j <= i
    BY <1>1, <2>1, <2>2 DEF IsOldest
  <2>4. j \in k + 1 .. Len(log2) /\ IsOldest(log2, k, s, j)
    BY <1>1, <2>2, <2>3 DEF IsOldest
  <2>5. QED
    BY <2>2, <2>4
<1>5. HasOldest(log2)
  BY <1>4 DEF HasOldest
<1>6. ASSUME NEW k \in 0 .. Len(log2), NEW s \in Slots
      PROVE  Undone(log2, new, k)[s] = Undone(log, table, k)[s]
  <2>0. k \in 0 .. Len(log)
    BY <1>1
  <2>1. CASE \E i \in k + 1 .. Len(log2) : log2[i].index = s
    <3>1. PICK j \in k + 1 .. Len(log2) : IsOldest(log2, k, s, j) /\ IsOldest(log, k, s, j)
      BY <1>4, <2>1
    <3>2. j \in k + 1 .. Len(log) /\ log2[j] = log[j]
      BY <1>1
    <3>3. Undone(log, table, k)[s] = log[j].previous
      BY <2>0, <3>1, <3>2, UndoneAt
    <3>4. IsOldest(log2, k, s, j)
      BY <3>1
    <3>5. Undone(log2, new, k)[s] = log2[j].previous
      BY <3>4, UndoneAt, ZenonT(30)
    <3>6. QED
      BY <3>2, <3>3, <3>5
  <2>2. CASE ~\E i \in k + 1 .. Len(log2) : log2[i].index = s
    <3>1. Undone(log2, new, k)[s] = new[s]
      BY <2>2 DEF Undone
    <3>2. CASE top.index = s
      <4>1. Len(log) \in k + 1 .. Len(log) /\ IsOldest(log, k, s, Len(log))
        BY <1>1, <2>2, <3>2 DEF IsOldest
      <4>2. Undone(log, table, k)[s] = top.previous
        BY <2>0, <4>1, UndoneAt
      <4>3. QED
        BY <1>3, <3>1, <3>2, <4>2
    <3>3. CASE top.index # s
      <4>1. ~\E i \in k + 1 .. Len(log) : log[i].index = s
        BY <1>1, <2>2, <3>3
      <4>2. Undone(log, table, k)[s] = table[s]
        BY <4>1 DEF Undone
      <4>3. QED
        BY <1>3, <3>1, <3>3, <4>2
    <3>4. QED
      BY <3>2, <3>3
  <2>3. QED
    BY <2>1, <2>2
<1>7. ASSUME NEW k \in 0 .. Len(log2)
      PROVE  Undone(log2, new, k) = Undone(log, table, k)
  <2>1. \A s \in Slots : Undone(log2, new, k)[s] = Undone(log, table, k)[s]
    BY <1>6
  <2>2. QED
    BY <2>1, UndoneEqual
<1>8. QED
  BY <1>5, <1>7

\* An earlier table is a table.
LEMMA UndoneType ==
  ASSUME NEW log \in Seq(Records), HasOldest(log), NEW table \in [Slots -> Entries],
         NEW k \in 0 .. Len(log)
  PROVE  Undone(log, table, k) \in [Slots -> Entries]
<1>1. ASSUME NEW s \in Slots PROVE Undone(log, table, k)[s] \in Entries
  <2>1. CASE \E j \in k + 1 .. Len(log) : log[j].index = s
    <3>1. PICK j \in k + 1 .. Len(log) : IsOldest(log, k, s, j)
      BY <2>1 DEF HasOldest
    <3>2. Undone(log, table, k)[s] = log[j].previous
      BY <3>1, UndoneAt, ZenonT(30)
    <3>3. log[j] \in Records
      OBVIOUS
    <3>4. QED
      BY <3>2, <3>3 DEF Records
  <2>2. CASE ~\E j \in k + 1 .. Len(log) : log[j].index = s
    BY <2>2 DEF Undone
  <2>3. QED
    BY <2>1, <2>2
<1>2. Undone(log, table, k) = [s \in Slots |-> Undone(log, table, k)[s]]
  BY DEF Undone
<1>3. QED
  BY <1>1, <1>2

-----------------------------------------------------------------------------
(* The inductive invariant *)

Inv == /\ TypeOK
       /\ WatermarksOnList
       /\ HasOldest(changes)
       /\ ChainsUnbroken

\* What every call of symbol_table_add does to the invariant.
LEMMA AddStep ==
  ASSUME Inv, home' = home, NEW n \in Names, NEW i \in Slots, StopsAt(entries, n, i),
         PushChange(Probe(n, i)),
         entries' \in [Slots -> Entries],
         entries'[Probe(n, i)].occupied, entries'[Probe(n, i)].name = n,
         \A s \in Slots : s # Probe(n, i) => entries'[s] = entries[s]
  PROVE  /\ changes' \in Seq(Records)
         /\ Len(changes') = Len(changes) + 1
         /\ HasOldest(changes)'
         /\ \A k \in 0 .. Len(changes) : TableAt(k)' = TableAt(k)
         /\ TableAt(Len(changes))' = entries'
         /\ ChainsUnbroken'
<1> DEFINE p == Probe(n, i)
<1>p. p \in Slots
  BY ProbeInSlots DEF Inv
<1>t. changes \in Seq(Records) /\ entries \in [Slots -> Entries]
  BY DEF Inv, TypeOK, Records
<1>1. /\ changes' \in Seq(Records)
      /\ Len(changes') = Len(changes) + 1
      /\ \A j \in 1 .. Len(changes) : changes'[j] = changes[j]
      /\ changes'[Len(changes) + 1] = [index |-> p, previous |-> entries[p]]
  <2>1. [index |-> p, previous |-> entries[p]] \in Records
    BY <1>p, <1>t DEF Records
  <2>2. changes' = Append(changes, [index |-> p, previous |-> entries[p]])
    BY DEF PushChange
  <2>3. QED
    BY <1>t, <2>1, <2>2, AppendProperties
<1>2. /\ HasOldest(changes')
      /\ \A k \in 0 .. Len(changes) :
            Undone(changes', entries', k) = Undone(changes, entries, k)
  BY <1>1, <1>p, <1>t, PushLog DEF Inv
<1>3. Undone(changes', entries', Len(changes')) = entries'
  BY <1>1, UndoneTop
<1>4. Reachable(entries)
  <2>1. TableAt(Len(changes)) = entries
    BY <1>t, UndoneTop DEF TableAt
  <2>2. QED
    BY <1>t, <2>1 DEF Inv, ChainsUnbroken
<1>5. Reachable(entries')
  BY <1>4, <1>t, AddKeepsReachable DEF Inv
<1>6. /\ \A k \in 0 .. Len(changes) : TableAt(k)' = TableAt(k)
      /\ TableAt(Len(changes))' = entries'
  BY <1>2, <1>3 DEF TableAt
<1>7. ChainsUnbroken'
  <2> SUFFICES ASSUME NEW k \in 0 .. Len(changes') PROVE Reachable(TableAt(k))'
    BY DEF ChainsUnbroken
  <2>1. CASE k \in 0 .. Len(changes)
    <3>1. Reachable(TableAt(k)) /\ TableAt(k)' = TableAt(k)
      BY <2>1, <1>6 DEF Inv, ChainsUnbroken
    <3>2. QED
      BY <3>1, SMTT(30) DEF Reachable, StopsAt, Probe
  <2>2. CASE k = Len(changes')
    <3>1. TableAt(k)' = entries'
      BY <2>2, <1>6
    <3>2. QED
      BY <3>1, <1>5, SMTT(30) DEF Reachable, StopsAt, Probe
  <2>3. QED
    BY <2>1, <2>2, <1>1, <1>t
<1>8. QED
  BY <1>1, <1>2, <1>6, <1>7

\* The table gen_var_decl leaves differs from the old one only where the scan
\* for the new name stopped, although it marks the entry a second lookup finds.
LEMMA LocalEntry ==
  ASSUME Inv, NEW n \in Names, NEW i \in Slots, NEW j \in Slots, NEW idx \in Nat,
         StopsAt(entries, n, i), StopsAt(Added(n, i, idx), n, j),
         NEW t, t = MarkStack(Added(n, i, idx), n, j)
  PROVE  /\ t \in [Slots -> Entries]
         /\ t[Probe(n, i)] = [occupied |-> TRUE, name |-> n, index |-> idx, is_stack |-> TRUE]
         /\ \A s \in Slots : s # Probe(n, i) => t[s] = entries[s]
<1> DEFINE added == Added(n, i, idx)
<1>p. Probe(n, i) \in Slots
  BY ProbeInSlots DEF Inv
<1>t. entries \in [Slots -> Entries]
  BY DEF Inv, TypeOK
<1>1. /\ added[Probe(n, i)] = [occupied |-> TRUE, name |-> n, index |-> idx, is_stack |-> FALSE]
      /\ \A s \in Slots : s # Probe(n, i) => added[s] = entries[s]
  BY <1>p, <1>t DEF Added
<1>2. \A l \in 0 .. i - 1 : Probe(n, l) # Probe(n, i) /\ Probe(n, l) \in Slots
  <2>1. \A l \in 0 .. i - 1 : l \in Slots
    BY TableSizeAssumption DEF Slots
  <2>2. QED
    BY <2>1, ProbeInSlots, StopsAtDef DEF Hit, Inv
<1>3. StopsAt(added, n, i)
  BY <1>1, <1>2, StopsAtDef DEF Hit
<1>4. i = j
  BY <1>3, StopUnique
<1>5. t = [entries EXCEPT ![Probe(n, i)] =
               [occupied |-> TRUE, name |-> n, index |-> idx, is_stack |-> TRUE]]
  BY <1>1, <1>4, <1>p, <1>t DEF Added, MarkStack
<1>6. [occupied |-> TRUE, name |-> n, index |-> idx, is_stack |-> TRUE] \in Entries
  BY DEF Entries, Symbols
<1>7. QED
  BY <1>5, <1>6, <1>p, <1>t

\* The initial state satisfies the invariant.
LEMMA InitInv == Init => Inv
<1> SUFFICES ASSUME Init PROVE Inv
  OBVIOUS
<1>1. TypeOK
  <2>1. entries \in [Slots -> Entries]
    BY DEF Init, Entries
  <2>2. changes \in Seq([index : Slots, previous : Entries]) /\ watermarks \in Seq(Nat)
    BY EmptySeq DEF Init
  <2>3. stack_count \in Nat
    BY BoundsAssumption DEF Init
  <2>4. home \in [Names -> Slots]
    BY HashAssumption DEF Init
  <2>5. QED
    BY <2>1, <2>2, <2>3, <2>4 DEF Init, TypeOK
<1>2. Len(changes) = 0 /\ Len(watermarks) = 0
  BY DEF Init
<1>3. WatermarksOnList
  BY <1>2 DEF WatermarksOnList, Init
<1>4. HasOldest(changes)
  BY <1>2 DEF HasOldest
<1>5. ChainsUnbroken
  <2>1. TableAt(0) = entries
    BY <1>1, <1>2, UndoneTop DEF TableAt, TypeOK, Records
  <2>2. Reachable(entries)
    BY DEF Init, Reachable, Free
  <2>3. QED
    BY <1>2, <2>1, <2>2 DEF ChainsUnbroken
<1>6. QED
  BY <1>1, <1>3, <1>4, <1>5 DEF Inv

\* Stays true because neither the table nor the list moves.
LEMMA IdleStep ==
  ASSUME Inv, UNCHANGED <<home, entries, changes>>
  PROVE  HasOldest(changes)' /\ ChainsUnbroken'
<1>1. \A k : TableAt(k)' = TableAt(k)
  BY DEF TableAt
<1>2. QED
  BY <1>1, SMTT(30) DEF Inv, ChainsUnbroken, Reachable, StopsAt, Probe

\* Every step keeps the invariant.
LEMMA NextInv == Inv /\ [Next]_vars => Inv'
<1> SUFFICES ASSUME Inv, [Next]_vars PROVE Inv'
  OBVIOUS
<1> USE DEF Inv
<1>t. changes \in Seq(Records) /\ entries \in [Slots -> Entries]
  BY DEF TypeOK, Records
<1>1. ASSUME NEW n \in Names, AddParam(n) PROVE Inv'
  <2>1. PICK i \in Slots : /\ StopsAt(entries, n, i)
                           /\ PushChange(Probe(n, i))
                           /\ entries' = Added(n, i, vreg_count)
    BY <1>1 DEF AddParam
  <2>p. Probe(n, i) \in Slots
    BY ProbeInSlots
  <2>2. [occupied |-> TRUE, name |-> n, index |-> vreg_count, is_stack |-> FALSE] \in Entries
    BY DEF Entries, Symbols, TypeOK
  <2>3. /\ entries' \in [Slots -> Entries]
        /\ entries'[Probe(n, i)].occupied
        /\ entries'[Probe(n, i)].name = n
        /\ \A s \in Slots : s # Probe(n, i) => entries'[s] = entries[s]
    BY <1>t, <2>1, <2>2, <2>p DEF Added
  <2>4. home' = home
    BY <1>1 DEF AddParam
  <2>5. /\ changes' \in Seq(Records) /\ Len(changes') = Len(changes) + 1
        /\ HasOldest(changes)' /\ ChainsUnbroken'
    BY <2>1, <2>3, <2>4, AddStep
  <2>6. TypeOK'
    BY <1>1, <2>3, <2>5 DEF TypeOK, AddParam, Records
  <2>7. WatermarksOnList'
    BY <1>1, <1>t, <2>5 DEF AddParam, WatermarksOnList, TypeOK
  <2>8. QED
    BY <2>5, <2>6, <2>7
<1>2. ASSUME NEW n \in Names, AddLocal(n) PROVE Inv'
  <2>1. PICK i \in Slots, j \in Slots :
          /\ StopsAt(entries, n, i)
          /\ PushChange(Probe(n, i))
          /\ StopsAt(Added(n, i, stack_count), n, j)
          /\ entries' = MarkStack(Added(n, i, stack_count), n, j)
    BY <1>2 DEF AddLocal
  <2>2. stack_count \in Nat
    BY DEF TypeOK
  <2>3. /\ entries' \in [Slots -> Entries]
        /\ entries'[Probe(n, i)] = [occupied |-> TRUE, name |-> n,
                                    index |-> stack_count, is_stack |-> TRUE]
        /\ \A s \in Slots : s # Probe(n, i) => entries'[s] = entries[s]
    BY <2>1, <2>2, LocalEntry
  <2>4. home' = home
    BY <1>2 DEF AddLocal
  <2>5. /\ changes' \in Seq(Records) /\ Len(changes') = Len(changes) + 1
        /\ HasOldest(changes)' /\ ChainsUnbroken'
    BY <2>1, <2>3, <2>4, AddStep
  <2>6. TypeOK'
    BY <1>2, <2>3, <2>5 DEF TypeOK, AddLocal, Records
  <2>7. WatermarksOnList'
    BY <1>2, <1>t, <2>5 DEF AddLocal, WatermarksOnList, TypeOK
  <2>8. QED
    BY <2>5, <2>6, <2>7
<1>3. ASSUME NEW n \in Names, Overflow(n) \/ OutOfMemory(n) PROVE Inv'
  BY <1>3, IdleStep DEF Overflow, OutOfMemory, TypeOK, WatermarksOnList, counts
<1>4. CASE EnterBlock
  <2>1. /\ Len(changes) \in Nat
        /\ watermarks \in Seq(Nat)
        /\ watermarks' = Append(watermarks, Len(changes))
    BY <1>4, <1>t DEF EnterBlock, TypeOK
  <2>2. /\ watermarks' \in Seq(Nat)
        /\ Len(watermarks') = Len(watermarks) + 1
        /\ \A k \in 1 .. Len(watermarks) : watermarks'[k] = watermarks[k]
        /\ watermarks'[Len(watermarks) + 1] = Len(changes)
    BY <2>1, AppendProperties
  <2>3. WatermarksOnList'
    BY <1>4, <2>1, <2>2 DEF EnterBlock, WatermarksOnList, Running
  <2>4. QED
    BY <1>4, <2>2, <2>3, IdleStep DEF EnterBlock, TypeOK, counts
<1>5. CASE LeaveBlock
  BY <1>5, IdleStep DEF LeaveBlock, TypeOK, WatermarksOnList, counts
<1>6. CASE UndoChange
  <2> DEFINE top == changes[Len(changes)]
  <2>1. /\ restoring /\ watermarks # <<>> /\ Len(changes) # Target
        /\ watermarks \in Seq(Nat) /\ Len(changes) \in Nat
    BY <1>6, <1>t DEF UndoChange, Undo, Popped, WatermarksOnList, TypeOK
  <2>2. Len(watermarks) \in 1 .. Len(watermarks)
    BY <2>1
  <2>3. Target < Len(changes) /\ Target \in Nat /\ Len(changes) > 0
    BY <2>1, <2>2 DEF Target, WatermarksOnList
  <2>4. /\ changes' = SubSeq(changes, 1, Len(changes) - 1)
        /\ entries' = [entries EXCEPT ![top.index] = top.previous]
    BY <1>6 DEF UndoChange, Undo, Popped
  <2>5. top \in Records
    BY <1>t, <2>1, <2>3
  <2>6. /\ changes' \in Seq(Records)
        /\ Len(changes') = Len(changes) - 1
        /\ \A j \in 1 .. Len(changes) - 1 : changes'[j] = changes[j]
    BY <1>t, <2>3, <2>4, DropLast
  <2>7. /\ entries' \in [Slots -> Entries]
        /\ entries'[top.index] = top.previous
        /\ \A s \in Slots : s # top.index => entries'[s] = entries[s]
    BY <1>t, <2>4, <2>5 DEF Records
  <2>8. /\ HasOldest(changes')
        /\ \A k \in 0 .. Len(changes') :
              Undone(changes', entries', k) = Undone(changes, entries, k)
    BY <1>t, <2>3, <2>6, <2>7, PopLog
  <2>9. ChainsUnbroken'
    <3> SUFFICES ASSUME NEW k \in 0 .. Len(changes') PROVE Reachable(TableAt(k))'
      BY DEF ChainsUnbroken
    <3>1. TableAt(k)' = TableAt(k) /\ Reachable(TableAt(k))
      BY <2>1, <2>6, <2>8 DEF TableAt, ChainsUnbroken
    <3>2. home' = home
      BY <1>6 DEF UndoChange, Undo, Popped
    <3>3. QED
      BY <3>1, <3>2, SMTT(30) DEF Reachable, StopsAt, Probe
  <2>10. WatermarksOnList'
    <3>1. watermarks' = watermarks /\ restoring' = restoring
      BY <1>6 DEF UndoChange, Undo, Popped
    <3>2. \A k \in 1 .. Len(watermarks) : watermarks[k] <= Target
      BY <2>2 DEF WatermarksOnList, Target
    <3>3. QED
      BY <2>1, <2>3, <2>6, <3>1, <3>2 DEF WatermarksOnList
  <2>11. TypeOK'
    BY <1>6, <2>6, <2>7 DEF UndoChange, Undo, Popped, TypeOK, Records, counts
  <2>12. QED
    BY <2>8, <2>9, <2>10, <2>11
<1>7. CASE RestoreDone
  <2>1. watermarks \in Seq(Nat) /\ Len(watermarks) > 0
    BY <1>7 DEF RestoreDone, WatermarksOnList, TypeOK
  <2>2. /\ watermarks' \in Seq(Nat)
        /\ Len(watermarks') = Len(watermarks) - 1
        /\ \A k \in 1 .. Len(watermarks) - 1 : watermarks'[k] = watermarks[k]
    <3>1. watermarks' = SubSeq(watermarks, 1, Len(watermarks) - 1)
      BY <1>7 DEF RestoreDone
    <3>2. QED
      BY <2>1, <3>1, DropLast
  <2>3. WatermarksOnList'
    BY <1>7, <2>1, <2>2, SMTT(30) DEF RestoreDone, WatermarksOnList
  <2>4. QED
    BY <1>7, <2>2, <2>3, IdleStep DEF RestoreDone, TypeOK, counts
<1>8. CASE UNCHANGED vars
  BY <1>8, IdleStep DEF vars, TypeOK, WatermarksOnList
<1>9. QED
  BY <1>1, <1>2, <1>3, <1>4, <1>5, <1>6, <1>7, <1>8 DEF Next

\* The inductive invariant holds throughout.
LEMMA InvHolds == Spec => []Inv
<1>1. QED
  BY InitInv, NextInv, PTL DEF Spec

\* Variables keep their types.
THEOREM Typing == Spec => []TypeOK
<1>1. Inv => TypeOK
  BY DEF Inv
<1>2. QED
  BY <1>1, InvHolds, PTL

\* In every reachable state, between two iterations of symbol_table_restore
\* included, every entry of the table is found from the home of its name, and
\* so is every entry of every table an open block will bring back.
THEOREM ChainsNeverBreak == Spec => []ChainsUnbroken
<1>1. Inv => ChainsUnbroken
  BY DEF Inv
<1>2. QED
  BY <1>1, InvHolds, PTL

\* symbol_table_restore always runs down to a record that is on the list.
THEOREM RestoreStaysOnList == Spec => []WatermarksOnList
<1>1. Inv => WatermarksOnList
  BY DEF Inv
<1>2. QED
  BY <1>1, InvHolds, PTL

-----------------------------------------------------------------------------
(* The table implements a scoped map *)

\* The map a table stands for depends on the table and on home only.
LEMMA ViewSame ==
  ASSUME home' = home, NEW k, NEW j, TableAt(k)' = TableAt(j)
  PROVE  View(TableAt(k))' = View(TableAt(j))
BY DEF View, Lookup, StopsAt, Probe

\* The current map after a step is the view of the table it is then read from.
LEMMA CurrentMapStep ==
  ASSUME home' = home, NEW c, Current' = c, NEW u, Undone(changes', entries', c) = u
  PROVE  CurrentMap' = View(u)
BY DEF CurrentMap, TableAt, View, Lookup, StopsAt, Probe

\* The same of the map saved for block k.
LEMMA SavedMapStep ==
  ASSUME home' = home, NEW k, NEW w, watermarks'[k] = w,
         NEW u, Undone(changes', entries', w) = u
  PROVE  View(TableAt(watermarks[k]))' = View(u)
BY DEF TableAt, View, Lookup, StopsAt, Probe

\* A lookup returns the entry at the probe where the scan stops.
LEMMA LookupAt ==
  ASSUME NEW t, NEW n, NEW i \in Slots, StopsAt(t, n, i)
  PROVE  Lookup(t, n) = t[Probe(n, i)]
<1>1. (CHOOSE j \in Slots : StopsAt(t, n, j)) = i
  BY StopUnique
<1>2. QED
  BY <1>1 DEF Lookup

\* In a table whose entries are all reachable, a lookup finds a name if and
\* only if some entry holds it, and finds that entry.
LEMMA LookupFinds ==
  ASSUME NEW t, Reachable(t), NEW s \in Slots, t[s].occupied
  PROVE  Lookup(t, t[s].name) = t[s]
BY LookupAt DEF Reachable

\* A name that no entry holds is not found.
LEMMA LookupMisses ==
  ASSUME TypeOK, NEW t, NEW n \in Names,
         \A s \in Slots : t[s].occupied => t[s].name # n
  PROVE  ~Lookup(t, n).occupied
<1>1. CASE \E i \in Slots : StopsAt(t, n, i)
  <2>1. PICK i \in Slots : StopsAt(t, n, i)
    BY <1>1
  <2>2. Lookup(t, n) = t[Probe(n, i)] /\ Probe(n, i) \in Slots
    BY <2>1, LookupAt, ProbeInSlots
  <2>3. QED
    BY <2>1, <2>2, StopsAtDef DEF Hit
<1>2. CASE ~\E i \in Slots : StopsAt(t, n, i)
  BY <1>2 DEF Lookup, Free
<1>3. QED
  BY <1>1, <1>2

\* Adding n to the table binds n in the map and disturbs no other name.
LEMMA AddBinds ==
  ASSUME TypeOK, NEW t \in [Slots -> Entries], Reachable(t),
         NEW n \in Names, NEW i \in Slots, StopsAt(t, n, i),
         NEW u \in [Slots -> Entries],
         u[Probe(n, i)].occupied, u[Probe(n, i)].name = n,
         \A s \in Slots : s # Probe(n, i) => u[s] = t[s]
  PROVE  /\ View(u) = [View(t) EXCEPT ![n] = View(u)[n]]
         /\ View(u)[n] = [bound |-> TRUE, index |-> u[Probe(n, i)].index,
                          is_stack |-> u[Probe(n, i)].is_stack]
<1> DEFINE p == Probe(n, i)
<1>p. p \in Slots
  BY ProbeInSlots
<1>1. Reachable(u)
  BY AddKeepsReachable
<1>2. Lookup(u, n) = u[p]
  BY <1>1, <1>p, LookupFinds
<1>3. View(u)[n] = [bound |-> TRUE, index |-> u[p].index, is_stack |-> u[p].is_stack]
  BY <1>2 DEF View
<1>4. t[p].occupied => t[p].name = n
  BY StopsAtDef DEF Hit
<1>5. ASSUME NEW m \in Names, m # n PROVE View(u)[m] = View(t)[m]
  <2>1. CASE \E s \in Slots : t[s].occupied /\ t[s].name = m
    <3>1. PICK s \in Slots : t[s].occupied /\ t[s].name = m
      BY <2>1
    <3>2. s # p
      BY <1>4, <1>5, <3>1
    <3>3. u[s] = t[s]
      BY <3>2
    <3>4. Lookup(t, m) = t[s] /\ Lookup(u, m) = u[s]
      BY <1>1, <3>1, <3>3, LookupFinds
    <3>5. QED
      BY <3>3, <3>4 DEF View
  <2>2. CASE ~\E s \in Slots : t[s].occupied /\ t[s].name = m
    <3>1. \A s \in Slots : t[s].occupied => t[s].name # m
      BY <2>2
    <3>2. \A s \in Slots : u[s].occupied => u[s].name # m
      BY <1>5, <3>1
    <3>3. ~Lookup(t, m).occupied /\ ~Lookup(u, m).occupied
      BY <3>1, <3>2, LookupMisses
    <3>4. QED
      BY <3>3 DEF View
  <2>3. QED
    BY <2>1, <2>2
<1>6. /\ View(u) = [m \in Names |-> View(u)[m]]
      /\ View(t) = [m \in Names |-> View(t)[m]]
  BY DEF View
<1>7. View(u) = [View(t) EXCEPT ![n] = View(u)[n]]
  BY <1>5, <1>6
<1>8. QED
  BY <1>3, <1>7

\* The maps saved for the open blocks do not move while the log above their
\* watermarks grows or shrinks.
LEMMA SavedMapsStable ==
  ASSUME Inv, home' = home, OpenBlocks' = OpenBlocks,
         \A k \in 1 .. OpenBlocks :
            /\ watermarks'[k] = watermarks[k]
            /\ Undone(changes', entries', watermarks[k]) = TableAt(watermarks[k])
  PROVE  SavedMaps' = SavedMaps
<1>1. ASSUME NEW k \in 1 .. OpenBlocks
      PROVE  View(TableAt(watermarks[k]))' = View(TableAt(watermarks[k]))
  BY SavedMapStep
<1>2. QED
  BY <1>1 DEF SavedMaps

\* The number of open blocks, and their watermarks, are in range.
LEMMA OpenBlocksRange ==
  ASSUME Inv
  PROVE  /\ OpenBlocks \in 0 .. Len(watermarks)
         /\ restoring => OpenBlocks = Len(watermarks) - 1
         /\ ~restoring => OpenBlocks = Len(watermarks)
         /\ \A k \in 1 .. OpenBlocks : watermarks[k] \in 0 .. Len(changes)
         /\ restoring => \A k \in 1 .. OpenBlocks : watermarks[k] <= Target
         /\ restoring => Target \in 0 .. Len(changes)
<1>1. watermarks \in Seq(Nat) /\ Len(watermarks) \in Nat /\ Len(changes) \in Nat
  BY DEF Inv, TypeOK
<1>2. restoring => Len(watermarks) \in 1 .. Len(watermarks)
  BY <1>1 DEF Inv, WatermarksOnList
<1>3. restoring \in BOOLEAN
  BY DEF Inv, TypeOK
<1>4. \A k \in 1 .. Len(watermarks) : watermarks[k] \in 0 .. Len(changes)
  BY <1>1 DEF Inv, WatermarksOnList
<1>5. restoring => \A k \in 1 .. Len(watermarks) : watermarks[k] <= Target
  BY <1>2 DEF Inv, WatermarksOnList, Target
<1>6. QED
  BY <1>1, <1>2, <1>3, <1>4, <1>5 DEF OpenBlocks, Target

\* Both kinds of declaration bind one name in the scoped map.
LEMMA BindStep ==
  ASSUME Inv, UNCHANGED <<home, watermarks, restoring>>, ~restoring,
         NEW n \in Names, NEW i \in Slots, StopsAt(entries, n, i),
         PushChange(Probe(n, i)),
         entries' \in [Slots -> Entries],
         NEW idx \in 0 .. MaxParams + MaxLocals, NEW onStack \in BOOLEAN,
         entries'[Probe(n, i)] = [occupied |-> TRUE, name |-> n,
                                  index |-> idx, is_stack |-> onStack],
         \A s \in Slots : s # Probe(n, i) => entries'[s] = entries[s]
  PROVE  Abstract!Bind(n)
<1>t. changes \in Seq(Records) /\ entries \in [Slots -> Entries]
  BY DEF Inv, TypeOK, Records
<1>1. /\ Len(changes') = Len(changes) + 1
      /\ \A k \in 0 .. Len(changes) : TableAt(k)' = TableAt(k)
      /\ changes' \in Seq(Records)
  BY AddStep
<1>2. TableAt(Len(changes)) = entries /\ Reachable(entries)
  <2>1. TableAt(Len(changes)) = entries
    BY <1>t, UndoneTop DEF TableAt
  <2>2. QED
    BY <1>t, <2>1 DEF Inv, ChainsUnbroken
<1>3. PICK u : u = entries'
  OBVIOUS
<1>4. CurrentMap' = View(u)
  <2>1. Undone(changes', entries', Len(changes')) = u
    BY <1>1, <1>3, UndoneTop
  <2>2. PICK c : c = Len(changes')
    OBVIOUS
  <2>3. Current' = c
    BY <2>2 DEF Current
  <2>4. QED
    BY <2>1, <2>2, <2>3, CurrentMapStep
<1>5. CurrentMap = View(entries)
  BY <1>2 DEF CurrentMap, Current
<1>6. /\ View(u) = [View(entries) EXCEPT ![n] = View(u)[n]]
      /\ View(u)[n] = [bound |-> TRUE, index |-> idx, is_stack |-> onStack]
  BY <1>2, <1>3, <1>t, AddBinds DEF Inv
<1>7. SavedMaps' = SavedMaps
  <2>1. OpenBlocks' = OpenBlocks
    BY DEF OpenBlocks
  <2>2. \A k \in 1 .. OpenBlocks : Undone(changes', entries', watermarks[k]) = TableAt(watermarks[k])
    BY <1>1, OpenBlocksRange DEF TableAt
  <2>3. QED
    BY <2>1, <2>2, SavedMapsStable
<1>8. View(u)[n] \in Abstract!Bindings
  BY <1>6 DEF Abstract!Bindings
<1>9. QED
  BY <1>4, <1>5, <1>6, <1>7, <1>8 DEF Abstract!Bind

\* A step that moves neither the table nor the log nor the blocks.
LEMMA StutterStep ==
  ASSUME Inv, UNCHANGED <<home, entries, changes, watermarks, restoring>>
  PROVE  UNCHANGED Abstract!vars
<1>1. CurrentMap' = CurrentMap
  <2>1. Current' = Current /\ Undone(changes', entries', Current) = TableAt(Current)
    BY DEF Current, Target, TableAt
  <2>2. QED
    BY <2>1, CurrentMapStep DEF CurrentMap
<1>2. SavedMaps' = SavedMaps
  <2>1. OpenBlocks' = OpenBlocks
    BY DEF OpenBlocks
  <2>2. QED
    BY <2>1, SavedMapsStable DEF TableAt
<1>3. QED
  BY <1>1, <1>2 DEF Abstract!vars

\* The empty table is the empty scoped map.
LEMMA AbstractInit == Init => Abstract!Init
<1> SUFFICES ASSUME Init PROVE Abstract!Init
  OBVIOUS
<1>1. Inv
  BY InitInv
<1>2. Len(changes) = 0 /\ Current = 0 /\ OpenBlocks = 0
  BY DEF Init, Current, OpenBlocks
<1>3. TableAt(Current) = entries
  BY <1>1, <1>2, UndoneTop DEF TableAt, Inv, TypeOK, Records
<1>4. \A n \in Names : ~Lookup(entries, n).occupied
  BY <1>1, LookupMisses DEF Init, Free, Inv
<1>5. View(entries) = [n \in Names |-> [bound |-> FALSE]]
  BY <1>4 DEF View
<1>6. SavedMaps = <<>>
  BY <1>2 DEF SavedMaps
<1>7. QED
  BY <1>3, <1>5, <1>6 DEF Abstract!Init, Abstract!NoSymbol, CurrentMap

\* A function on 1 .. n is a sequence of length n.
LEMMA FunctionIsSeq ==
  ASSUME NEW n \in Nat, NEW S, NEW r \in [1 .. n -> S]
  PROVE  r \in Seq(S) /\ Len(r) = n
OBVIOUS

\* Appending to such a function extends it by one value.
LEMMA AppendFunction ==
  ASSUME NEW m \in Nat, NEW q, q = [k \in 1 .. m |-> q[k]], NEW e,
         NEW r, r = [k \in 1 .. m + 1 |-> IF k = m + 1 THEN e ELSE q[k]]
  PROVE  r = Append(q, e)
<1> DEFINE S == {q[k] : k \in 1 .. m} \cup {e}
<1>1. q \in Seq(S) /\ Len(q) = m /\ e \in S
  OBVIOUS
<1>2. r \in Seq(S) /\ Len(r) = m + 1
  <2>1. \A k \in 1 .. m + 1 : r[k] \in S
    OBVIOUS
  <2>2. m + 1 \in Nat /\ r = [k \in 1 .. m + 1 |-> r[k]]
    OBVIOUS
  <2> HIDE DEF S
  <2>3. r \in [1 .. m + 1 -> S]
    BY <2>1, <2>2
  <2>4. QED
    BY <2>2, <2>3, FunctionIsSeq
<1> HIDE DEF S
<1>3. /\ Append(q, e) \in Seq(S)
      /\ Len(Append(q, e)) = m + 1
      /\ \A k \in 1 .. m : Append(q, e)[k] = q[k]
      /\ Append(q, e)[m + 1] = e
  BY <1>1, AppendProperties
<1>4. \A k \in 1 .. Len(r) : r[k] = Append(q, e)[k]
  BY <1>2, <1>3
<1>5. QED
  BY <1>2, <1>3, <1>4, SeqEqual

\* Every step of the table is a step of the scoped map, or leaves it alone.
LEMMA AbstractNext ==
  ASSUME Inv, [Next]_vars
  PROVE  [Abstract!Next]_(Abstract!vars)
<1>t. changes \in Seq(Records) /\ entries \in [Slots -> Entries] /\ Len(changes) \in Nat
  BY DEF Inv, TypeOK, Records
<1>1. ASSUME NEW n \in Names, AddParam(n) PROVE Abstract!Bind(n)
  <2>1. PICK i \in Slots : /\ StopsAt(entries, n, i)
                           /\ PushChange(Probe(n, i))
                           /\ entries' = Added(n, i, vreg_count)
    BY <1>1 DEF AddParam
  <2>2. Probe(n, i) \in Slots
    BY ProbeInSlots DEF Inv
  <2>3. /\ [occupied |-> TRUE, name |-> n, index |-> vreg_count, is_stack |-> FALSE] \in Entries
        /\ vreg_count \in 0 .. MaxParams + MaxLocals
    BY <1>1, BoundsAssumption DEF Entries, Symbols, Inv, TypeOK, AddParam
  <2>4. /\ entries' \in [Slots -> Entries]
        /\ entries'[Probe(n, i)] = [occupied |-> TRUE, name |-> n,
                                    index |-> vreg_count, is_stack |-> FALSE]
        /\ \A s \in Slots : s # Probe(n, i) => entries'[s] = entries[s]
    BY <1>t, <2>1, <2>2, <2>3 DEF Added
  <2>5. UNCHANGED <<home, watermarks, restoring>> /\ ~restoring
    BY <1>1 DEF AddParam, Running
  <2>6. QED
    BY <2>1, <2>3, <2>4, <2>5, BindStep
<1>2. ASSUME NEW n \in Names, AddLocal(n) PROVE Abstract!Bind(n)
  <2>1. PICK i \in Slots, j \in Slots :
          /\ StopsAt(entries, n, i)
          /\ PushChange(Probe(n, i))
          /\ StopsAt(Added(n, i, stack_count), n, j)
          /\ entries' = MarkStack(Added(n, i, stack_count), n, j)
    BY <1>2 DEF AddLocal
  <2>2. stack_count \in Nat /\ stack_count \in 0 .. MaxParams + MaxLocals
    BY <1>2, BoundsAssumption DEF Inv, TypeOK, AddLocal
  <2>3. /\ entries' \in [Slots -> Entries]
        /\ entries'[Probe(n, i)] = [occupied |-> TRUE, name |-> n,
                                    index |-> stack_count, is_stack |-> TRUE]
        /\ \A s \in Slots : s # Probe(n, i) => entries'[s] = entries[s]
    BY <2>1, <2>2, LocalEntry
  <2>4. UNCHANGED <<home, watermarks, restoring>> /\ ~restoring
    BY <1>2 DEF AddLocal, Running
  <2>5. QED
    BY <2>1, <2>2, <2>3, <2>4, BindStep
<1>3. ASSUME NEW n \in Names, Overflow(n) \/ OutOfMemory(n) PROVE UNCHANGED Abstract!vars
  BY <1>3, StutterStep DEF Overflow, OutOfMemory
<1>4. CASE EnterBlock
  <2>1. CurrentMap' = CurrentMap
    <3>1. Current' = Current /\ Undone(changes', entries', Current) = TableAt(Current)
      BY <1>4 DEF EnterBlock, Running, Current, TableAt
    <3>2. home' = home
      BY <1>4 DEF EnterBlock
    <3>3. QED
      BY <3>1, <3>2, CurrentMapStep DEF CurrentMap
  <2>2. /\ watermarks \in Seq(Nat) /\ Len(watermarks) \in Nat
        /\ watermarks' = Append(watermarks, Len(changes))
        /\ ~restoring /\ ~restoring' /\ home' = home
        /\ changes' = changes /\ entries' = entries
    BY <1>4 DEF EnterBlock, Running, Inv, TypeOK
  <2>3. /\ Len(watermarks') = Len(watermarks) + 1
        /\ \A k \in 1 .. Len(watermarks) : watermarks'[k] = watermarks[k]
        /\ watermarks'[Len(watermarks) + 1] = Len(changes)
    BY <2>2, <1>t, AppendProperties
  <2>4. OpenBlocks = Len(watermarks) /\ OpenBlocks' = Len(watermarks) + 1
    BY <2>2, <2>3 DEF OpenBlocks
  <2>5. \A k \in 1 .. OpenBlocks :
           View(TableAt(watermarks[k]))' = View(TableAt(watermarks[k]))
    BY <2>2, <2>3, <2>4, SavedMapStep DEF TableAt
  <2>6. ASSUME NEW k, k = OpenBlocks + 1
        PROVE  View(TableAt(watermarks[k]))' = CurrentMap
    BY <2>2, <2>3, <2>4, <2>6, SavedMapStep DEF TableAt, CurrentMap, Current
  <2>7. SavedMaps' = Append(SavedMaps, CurrentMap)
    <3>1. SavedMaps' = [k \in 1 .. OpenBlocks + 1 |->
                          IF k = OpenBlocks + 1 THEN CurrentMap ELSE SavedMaps[k]]
      BY <2>2, <2>4, <2>5, <2>6 DEF SavedMaps
    <3>2. OpenBlocks \in Nat
      BY <2>2, <2>4
    <3>3. SavedMaps = [k \in 1 .. OpenBlocks |-> SavedMaps[k]]
      BY DEF SavedMaps
    <3>4. QED
      BY <3>1, <3>2, <3>3, AppendFunction
  <2>8. QED
    BY <2>1, <2>7 DEF Abstract!Next, Abstract!Enter
<1>5. CASE LeaveBlock
  <2>1. /\ watermarks \in Seq(Nat) /\ Len(watermarks) \in Nat \ {0}
        /\ ~restoring /\ restoring' /\ home' = home
        /\ UNCHANGED <<entries, changes, watermarks>>
    BY <1>5 DEF LeaveBlock, Running, Inv, TypeOK
  <2>2. OpenBlocks = Len(watermarks) /\ OpenBlocks' = Len(watermarks) - 1
    BY <2>1 DEF OpenBlocks
  <2>3. CurrentMap' = View(TableAt(watermarks[Len(watermarks)]))
    <3>1. Current' = watermarks[Len(watermarks)]
      BY <2>1 DEF Current, Target
    <3>2. Undone(changes', entries', watermarks[Len(watermarks)])
            = TableAt(watermarks[Len(watermarks)])
      BY <2>1 DEF TableAt
    <3>3. QED
      BY <2>1, <3>1, <3>2, CurrentMapStep
  <2>4. \A k \in 1 .. OpenBlocks - 1 :
           View(TableAt(watermarks[k]))' = View(TableAt(watermarks[k]))
    BY <2>1, SavedMapStep DEF TableAt
  <2>5. /\ SavedMaps' = [k \in 1 .. OpenBlocks - 1 |-> SavedMaps[k]]
        /\ Len(SavedMaps) = OpenBlocks
        /\ SavedMaps # <<>>
        /\ SavedMaps[Len(SavedMaps)] = View(TableAt(watermarks[Len(watermarks)]))
    BY <2>1, <2>2, <2>4 DEF SavedMaps
  <2>6. SavedMaps' = SubSeq(SavedMaps, 1, Len(SavedMaps) - 1)
    BY <2>1, <2>2, <2>5
  <2>7. QED
    BY <2>3, <2>5, <2>6 DEF Abstract!Next, Abstract!Leave
<1>6. CASE UndoChange
  <2> DEFINE top == changes[Len(changes)]
  <2>1. /\ restoring /\ Len(changes) # Target
        /\ changes' = SubSeq(changes, 1, Len(changes) - 1)
        /\ entries' = [entries EXCEPT ![top.index] = top.previous]
        /\ UNCHANGED <<home, watermarks, restoring>>
    BY <1>6 DEF UndoChange, Undo, Popped
  <2>2. Target \in 0 .. Len(changes) - 1 /\ Len(changes) > 0
    BY <1>t, <2>1, OpenBlocksRange
  <2>3. top \in Records
    BY <1>t, <2>2
  <2>4. /\ changes' \in Seq(Records)
        /\ Len(changes') = Len(changes) - 1
        /\ \A j \in 1 .. Len(changes) - 1 : changes'[j] = changes[j]
    BY <1>t, <2>1, <2>2, DropLast
  <2>5. /\ entries' \in [Slots -> Entries]
        /\ entries'[top.index] = top.previous
        /\ \A s \in Slots : s # top.index => entries'[s] = entries[s]
    BY <1>t, <2>1, <2>3 DEF Records
  <2>6. \A k \in 0 .. Len(changes) - 1 : Undone(changes', entries', k) = TableAt(k)
    <3>1. HasOldest(changes)
      BY DEF Inv
    <3>2. \A k \in 0 .. Len(changes') :
            Undone(changes', entries', k) = Undone(changes, entries, k)
      BY <1>t, <2>2, <2>4, <2>5, <3>1, PopLog
    <3>3. QED
      BY <2>4, <3>2 DEF TableAt
  <2>7. CurrentMap' = CurrentMap
    <3>1. Current' = Target /\ Current = Target
      BY <2>1 DEF Current, Target
    <3>2. QED
      BY <2>1, <2>2, <2>6, <3>1, CurrentMapStep DEF CurrentMap
  <2>8. SavedMaps' = SavedMaps
    <3>1. OpenBlocks' = OpenBlocks
      BY <2>1 DEF OpenBlocks
    <3>2. \A k \in 1 .. OpenBlocks : watermarks[k] \in 0 .. Len(changes) - 1
      BY <1>t, <2>1, <2>2, OpenBlocksRange
    <3>3. QED
      BY <2>1, <2>6, <3>1, <3>2, SavedMapsStable
  <2>9. QED
    BY <2>7, <2>8 DEF Abstract!vars
<1>7. CASE RestoreDone
  <2>1. /\ restoring /\ ~restoring' /\ Len(changes) = Target
        /\ UNCHANGED <<home, entries, changes>>
        /\ watermarks' = SubSeq(watermarks, 1, Len(watermarks) - 1)
        /\ watermarks \in Seq(Nat) /\ Len(watermarks) > 0
    BY <1>7 DEF RestoreDone, Inv, TypeOK, WatermarksOnList
  <2>2. /\ Len(watermarks') = Len(watermarks) - 1
        /\ \A k \in 1 .. Len(watermarks) - 1 : watermarks'[k] = watermarks[k]
    BY <2>1, DropLast
  <2>3. OpenBlocks' = OpenBlocks /\ OpenBlocks = Len(watermarks) - 1
    BY <2>1, <2>2 DEF OpenBlocks
  <2>4. CurrentMap' = CurrentMap
    <3>1. Current' = Target /\ Current = Target
      BY <2>1 DEF Current
    <3>2. QED
      BY <2>1, <3>1, CurrentMapStep DEF CurrentMap, TableAt
  <2>5. SavedMaps' = SavedMaps
    BY <2>1, <2>2, <2>3, SavedMapsStable DEF TableAt
  <2>6. QED
    BY <2>4, <2>5 DEF Abstract!vars
<1>8. CASE UNCHANGED vars
  BY <1>8, StutterStep DEF vars
<1>9. QED
  BY <1>1, <1>2, <1>3, <1>4, <1>5, <1>6, <1>7, <1>8 DEF Next, Abstract!Next

\* For every set of names, table size and hash function, the open-addressing
\* table with its undo list behaves as a lexically scoped map.
THEOREM TableIsScopedMap == Spec => ImplementsScopedMap
<1>1. QED
  BY AbstractInit, AbstractNext, InvHolds, PTL
     DEF Spec, ImplementsScopedMap, Abstract!Spec

-----------------------------------------------------------------------------
(* The table overflows only when it is full *)

\* Remainders of what is less than twice the divisor.
LEMMA Wraps ==
  ASSUME NEW m \in Nat \ {0}, NEW s \in 0 .. m - 1
  PROVE  s % m = s /\ (s + m) % m = s
OBVIOUS

\* The probes of a name visit every slot.
LEMMA ProbesReachAll ==
  ASSUME TypeOK, NEW n \in Names, NEW s \in Slots
  PROVE  \E i \in Slots : Probe(n, i) = s
<1> DEFINE h == home[n]
<1>1. h \in 0 .. TableSize - 1 /\ s \in 0 .. TableSize - 1 /\ TableSize \in Nat \ {0}
  BY TableSizeAssumption DEF TypeOK, Slots
<1>2. s % TableSize = s /\ (s + TableSize) % TableSize = s
  BY <1>1, Wraps
<1> HIDE DEF h
<1>3. CASE h <= s
  <2>1. s - h \in Slots /\ h + (s - h) = s
    BY <1>1, <1>3 DEF Slots
  <2> QED BY <1>2, <2>1 DEF Probe, h
<1>4. CASE ~(h <= s)
  <2>1. s - h + TableSize \in Slots /\ h + (s - h + TableSize) = s + TableSize
    BY <1>1, <1>4 DEF Slots
  <2> QED BY <1>2, <2>1 DEF Probe, h
<1> QED BY <1>3, <1>4

\* A scan that stops nowhere has met an entry of another name in every slot.
LEMMA NoStopFull ==
  ASSUME TypeOK, NEW n \in Names, ~\E i \in Slots : StopsAt(entries, n, i), NEW s \in Slots
  PROVE  entries[s].occupied
<1> DEFINE T == {i \in Slots : Hit(entries, n, i)}
<1>1. T \subseteq Nat
  BY TableSizeAssumption DEF Slots
<1>2. T = {}
  <2> SUFFICES ASSUME T # {} PROVE FALSE
    OBVIOUS
  <2>1. PICK m \in T : \A k \in T : m <= k
    BY <1>1, Least
  <2>2. m \in Slots /\ Hit(entries, n, m)
    OBVIOUS
  <2>3. ASSUME NEW j \in 0 .. m - 1 PROVE ~Hit(entries, n, j)
    <3>1. j \in Slots /\ ~(m <= j)
      BY <2>2, TableSizeAssumption DEF Slots
    <3> QED BY <2>1, <3>1
  <2> HIDE DEF T
  <2> QED BY <2>2, <2>3, StopsAtDef
<1>3. PICK i \in Slots : Probe(n, i) = s
  BY ProbesReachAll
<1>4. ~Hit(entries, n, i)
  BY <1>2
<1> QED BY <1>3, <1>4, Zenon DEF Hit

\* In a reachable table two slots never hold the same name.
LEMMA NamesApart ==
  ASSUME NEW t, Reachable(t), NEW r \in Slots, NEW s \in Slots,
         t[r].occupied, t[s].occupied, t[r].name = t[s].name
  PROVE  r = s
<1>1. PICK i \in Slots : r = Probe(t[r].name, i) /\ StopsAt(t, t[r].name, i)
  BY DEF Reachable
<1>2. PICK j \in Slots : s = Probe(t[s].name, j) /\ StopsAt(t, t[s].name, j)
  BY DEF Reachable
<1>3. i = j
  BY <1>1, <1>2, StopUnique
<1> QED BY <1>1, <1>2, <1>3

\* Once symbol_table_add has found no slot, every one is occupied, and stays so.
FullInv == exited = "full" => ~restoring /\ \A s \in Slots : entries[s].occupied

\* Every step keeps that.
LEMMA FullStep == Inv /\ FullInv /\ [Next]_vars => FullInv'
<1> SUFFICES ASSUME Inv, FullInv, [Next]_vars PROVE FullInv'
  OBVIOUS
<1>1. CASE exited = "full"
  <2>1. ~restoring /\ \A s \in Slots : entries[s].occupied
    BY <1>1, Zenon DEF FullInv
  <2>2. UNCHANGED vars
    <3>1. ~Next
      BY <1>1, <2>1, Zenon DEF Next, AddParam, AddLocal, Overflow, OutOfMemory, EnterBlock, LeaveBlock, UndoChange,
         Undo, RestoreDone, Running
    <3> QED BY <3>1, Zenon
  <2>3. restoring' = restoring /\ entries' = entries
    BY <2>2 DEF vars
  <2> QED BY <2>1, <2>3, Zenon DEF FullInv
<1>2. CASE exited # "full"
  <2>1. ASSUME exited' = "full" PROVE ~restoring' /\ \A s \in Slots : entries'[s].occupied
    <3>1. PICK n \in Names : Overflow(n)
      <4>1. ~(exited' = exited)
        BY <1>2, <2>1, Zenon
      <4>2. \A n \in Names : ~OutOfMemory(n)
        BY <2>1 DEF OutOfMemory
      <4> QED BY <4>1, <4>2, Zenon DEF Next, vars, AddParam, AddLocal, EnterBlock, LeaveBlock, UndoChange,
         Undo, RestoreDone
    <3>2. restoring' = restoring /\ entries' = entries /\ ~restoring /\ ~\E i \in Slots : StopsAt(entries, n, i)
      BY <3>1, Zenon DEF Overflow, Running
    <3>3. \A s \in Slots : entries[s].occupied
      BY <3>2, NoStopFull DEF Inv
    <3> QED BY <3>2, <3>3, Zenon
  <2> QED BY <2>1, Zenon DEF FullInv
<1> QED BY <1>1, <1>2, Zenon

\* symbol_table_add finds no slot only when TableSize distinct names are in scope,
\* for every table size and hash function.
THEOREM OnlyFullOverflows == Spec => []OverflowOnlyWhenFull
<1>1. Init => FullInv
  BY Zenon DEF Init, FullInv
<1>2. Spec => []FullInv
  BY <1>1, FullStep, InvHolds, PTL DEF Spec
<1>3. Inv /\ FullInv => OverflowOnlyWhenFull
  <2> SUFFICES ASSUME Inv, FullInv, exited = "full" PROVE OverflowOnlyWhenFull
    BY Zenon DEF OverflowOnlyWhenFull
  <2> DEFINE T == {entries[s].name : s \in {r \in Slots : entries[r].occupied}}
             f == [s \in Slots |-> entries[s].name]
  <2>1. \A s \in Slots : entries[s].occupied
    BY Zenon DEF FullInv
  <2>2. Reachable(entries)
    <3>1. TableAt(Len(changes)) = entries
      BY UndoneTop DEF Inv, TypeOK, TableAt, Records
    <3>2. Len(changes) \in 0 .. Len(changes)
      BY DEF Inv, TypeOK
    <3> QED BY <3>1, <3>2 DEF Inv, ChainsUnbroken
  <2>3. f \in [Slots -> T]
    BY <2>1
  <2>4. \A r, s \in Slots : f[r] = f[s] => r = s
    BY <2>1, <2>2, NamesApart
  <2>5. \A x \in T : \E s \in Slots : f[s] = x
    OBVIOUS
  <2> HIDE DEF f, T
  <2>6. ExistsBijection(Slots, T)
    BY <2>3, <2>4, <2>5 DEF ExistsBijection, Bijection, Injection, Surjection, IsInjective
  <2>7. IsFiniteSet(Slots) /\ Cardinality(Slots) = TableSize
    <3>1. TableSize \in Nat \ {0} /\ 0 \in Int /\ TableSize - 1 \in Int
      BY TableSizeAssumption
    <3>2. /\ IsFiniteSet(0 .. TableSize - 1)
          /\ Cardinality(0 .. TableSize - 1) = IF 0 > TableSize - 1 THEN 0 ELSE TableSize - 1 - 0 + 1
      BY <3>1, FS_Interval
    <3> QED BY <3>1, <3>2 DEF Slots
  <2>8. Cardinality(T) = TableSize
    BY <2>6, <2>7, FS_Bijection
  <2> QED BY <2>8 DEF OverflowOnlyWhenFull, T
<1> QED BY <1>2, <1>3, InvHolds, PTL
==============================================================================
