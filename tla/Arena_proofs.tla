------------------------------ MODULE Arena_proofs ------------------------------
(***************************************************************************)
(* Proofs about the memory arena, for every page, header and block size,   *)
(* every request and every answer of the kernel.                           *)
(***************************************************************************)
EXTENDS Arena, TLAPS

BlockType == [base : Nat, size : Nat, offset : Nat]

Arenas == [blocks : Seq(BlockType), prot : Protections]

\* One block ends before the other begins.
Apart(b, c) == b.base + b.size <= c.base \/ c.base + c.size <= b.base

BlocksOk(bs) ==
    /\ \A i \in 1 .. Len(bs) : /\ PAGE <= bs[i].base
                               /\ bs[i].base + bs[i].size <= TOP
                               /\ HEADER <= bs[i].offset
                               /\ bs[i].offset <= bs[i].size
    /\ \A i, j \in 1 .. Len(bs) : i # j => Apart(bs[i], bs[j])

\* A state of an arena whose blocks are what it has mapped ...
Good(m) ==
    /\ m = [arena |-> m.arena, memory |-> m.memory]
    /\ m.arena \in Arenas
    /\ BlocksOk(m.arena.blocks)
    /\ DOMAIN m.memory = BytesAfter(m.arena.blocks, 0)

\* ... and can be written.
Writable(m) == m.arena.prot = "rw" /\ \A x \in DOMAIN m.memory : m.memory[x] = "rw"

-----------------------------------------------------------------------------
(* Arithmetic *)

\* What lies between header and offset of a block lies in the block.
LEMMA InBlock ==
    ASSUME NEW base \in Nat, NEW offset \in Nat, NEW size \in Nat, offset <= size,
           NEW addr \in Nat, NEW len \in Nat, NEW h \in Nat,
           base + h <= addr, addr + len <= base + offset
    PROVE  base <= addr /\ addr + len <= base + size
  OBVIOUS

\* A bound can be raised.
LEMMA Raised ==
    ASSUME NEW a \in Nat, NEW k \in Nat, NEW b \in Nat, NEW f \in Nat, NEW g \in Nat,
           a + k <= b + f, f <= g
    PROVE  a + k <= b + g
  OBVIOUS

\* What ends where y ends, or before, is over where z begins.
LEMMA Chained ==
    ASSUME NEW x \in Int, NEW y \in Int, NEW z \in Int, NEW w \in Int, x <= y, y <= z, z <= w
    PROVE  x <= w
  OBVIOUS

\* The header has a size.
LEMMA HeaderSize == HEADER \in Nat /\ HEADER > 0
  BY HeaderAssumption

\* Division with remainder.
LEMMA Division ==
    ASSUME NEW a \in Nat \ {0}, NEW x \in Nat
    PROVE  x \div a \in Nat /\ x % a \in 0 .. a - 1 /\ x = (x \div a) * a + (x % a)
  OBVIOUS

\* A multiple of a leaves no remainder.
LEMMA Multiple == ASSUME NEW a \in Nat \ {0}, NEW k \in Nat PROVE (k * a) % a = 0
  OBVIOUS

\* What leaves no remainder is a multiple.
LEMMA Quotient == ASSUME NEW a \in Nat \ {0}, NEW x \in Nat, x % a = 0
                  PROVE  \E q \in Nat : x = q * a
<1> DEFINE q == x \div a
<1>1. q \in Nat /\ x = q * a + 0
  BY Division
<1> HIDE DEF q
<1>2. x = q * a
  BY <1>1
<1> QED BY <1>1, <1>2

\* Multiples are closed under addition, and a multiple of a multiple is one.
LEMMA Multiples ==
    ASSUME NEW a \in Nat \ {0}, NEW x \in Nat, NEW y \in Nat, x % a = 0
    PROVE  /\ y % a = 0 => (x + y) % a = 0
           /\ x # 0 /\ y % x = 0 => y % a = 0
<1>1. PICK q \in Nat : x = q * a
  BY Quotient
<1>2. ASSUME y % a = 0 PROVE (x + y) % a = 0
  <2>1. PICK r \in Nat : y = r * a
    BY <1>2, Quotient
  <2>2. x + y = (q + r) * a
    BY <1>1, <2>1
  <2>3. q + r \in Nat
    OBVIOUS
  <2> QED BY <2>2, <2>3, Multiple
<1>3. ASSUME x # 0, y % x = 0 PROVE y % a = 0
  <2>1. PICK r \in Nat : y = r * x
    BY <1>3, Quotient
  <2>2. y = (r * q) * a /\ r * q \in Nat
    BY <1>1, <2>1
  <2> QED BY <2>2, Multiple
<1> QED BY <1>2, <1>3

\* align_to_page never rounds down.
LEMMA AlignToPage ==
    ASSUME NEW size \in Nat
    PROVE  align_to_page(size) \in Nat /\ align_to_page(size) >= size
<1>1. (size + PAGE - 1) \in Nat /\ (size + PAGE - 1) % PAGE \in 0 .. PAGE - 1
  BY PageAssumption, Division
<1> QED BY <1>1, PageAssumption DEF align_to_page

\* align_forward yields the next aligned address.
LEMMA AlignForward ==
    ASSUME NEW ptr \in Nat, NEW align \in Nat \ {0}
    PROVE  /\ align_forward(ptr, align) \in Nat
           /\ ptr <= align_forward(ptr, align)
           /\ align_forward(ptr, align) <= ptr + align
           /\ align_forward(ptr, align) % align = 0
           /\ ptr % align = 0 => align_forward(ptr, align) = ptr
<1>1. ptr % align \in 0 .. align - 1
  BY Division
<1>2. (ptr + (align - (ptr % align))) % align = 0
  OBVIOUS
<1> QED BY <1>1, <1>2 DEF align_forward

\* Two spans that share no address lie one before the other, and conversely.
LEMMA Spans ==
    ASSUME NEW b \in Nat, NEW s \in Nat, NEW c \in Nat, NEW t \in Nat
    PROVE  /\ s > 0 /\ t > 0 /\ Span(b, s) \cap Span(c, t) = {} => b + s <= c \/ c + t <= b
           /\ b + s <= c \/ c + t <= b => Span(b, s) \cap Span(c, t) = {}
<1>1. ASSUME s > 0, t > 0, Span(b, s) \cap Span(c, t) = {}, ~(b + s <= c), ~(c + t <= b)
      PROVE  FALSE
  <2>1. CASE b <= c
    <3>1. c \in Span(b, s) /\ c \in Span(c, t)
      BY <1>1, <2>1 DEF Span
    <3> QED BY <1>1, <3>1
  <2>2. CASE c < b
    <3>1. b \in Span(b, s) /\ b \in Span(c, t)
      BY <1>1, <2>2 DEF Span
    <3> QED BY <1>1, <3>1
  <2> QED BY <2>1, <2>2
<1>2. ASSUME b + s <= c \/ c + t <= b PROVE Span(b, s) \cap Span(c, t) = {}
  BY <1>2 DEF Span
<1> QED BY <1>1, <1>2

-----------------------------------------------------------------------------
(* Blocks *)

\* The address x is in block b.
Within(x, b) == x \in Int /\ b.base <= x /\ x < b.base + b.size

\* The bytes of the blocks after the n-th one.
LEMMA InBytes ==
    ASSUME NEW bs \in Seq(BlockType), NEW n \in Nat, NEW x
    PROVE  x \in BytesAfter(bs, n) <=> \E i \in n + 1 .. Len(bs) : Within(x, bs[i])
<1>1. ASSUME NEW i \in n + 1 .. Len(bs)
      PROVE  x \in BlockBytes(bs[i]) <=> Within(x, bs[i])
  <2>1. bs[i] \in BlockType
    OBVIOUS
  <2>2. bs[i].base \in Nat /\ bs[i].size \in Nat
    BY <2>1 DEF BlockType
  <2> QED BY <2>2 DEF BlockBytes, Span, Within
<1> QED BY <1>1 DEF BytesAfter

\* An empty chain has none.
LEMMA NoBytes == BytesAfter(<<>>, 0) = {}
<1> DEFINE none == <<>>
<1>1. none \in Seq(BlockType) /\ 0 + 1 .. Len(none) = {}
  OBVIOUS
<1> HIDE DEF none
<1>2. \A x : x \in BytesAfter(none, 0) <=> \E i \in 0 + 1 .. Len(none) : Within(x, none[i])
  BY <1>1, InBytes
<1>3. \A x : x \notin BytesAfter(none, 0)
  BY <1>1, <1>2
<1> QED BY <1>3 DEF none

\* Blocks with the same bases and sizes cover the same bytes.
LEMMA SameBytes ==
    ASSUME NEW bs \in Seq(BlockType), NEW cs \in Seq(BlockType), Len(bs) = Len(cs),
           \A i \in 1 .. Len(bs) : bs[i].base = cs[i].base /\ bs[i].size = cs[i].size
    PROVE  BytesAfter(bs, 0) = BytesAfter(cs, 0)
<1>1. \A x : x \in BytesAfter(bs, 0) <=> \E i \in 1 .. Len(bs) : Within(x, bs[i])
  BY InBytes
<1>2. \A x : x \in BytesAfter(cs, 0) <=> \E i \in 1 .. Len(cs) : Within(x, cs[i])
  BY InBytes
<1>3. \A x : x \in BytesAfter(bs, 0) <=> x \in BytesAfter(cs, 0)
  BY <1>1, <1>2 DEF Within
<1> QED BY <1>3

\* The fields of the blocks of a chain are numbers.
LEMMA BlockFields ==
    ASSUME NEW bs \in Seq(BlockType), NEW i \in 1 .. Len(bs)
    PROVE  bs[i] \in BlockType /\ bs[i].base \in Nat /\ bs[i].size \in Nat /\ bs[i].offset \in Nat
<1>1. bs[i] \in BlockType
  OBVIOUS
<1> QED BY <1>1 DEF BlockType

\* A span that is not mapped is apart from every block.
LEMMA FreeSpan ==
    ASSUME NEW bs \in Seq(BlockType), BlocksOk(bs), NEW base \in Nat, NEW size \in Nat, size > 0,
           Span(base, size) \cap BytesAfter(bs, 0) = {},
           NEW i \in 1 .. Len(bs)
    PROVE  base + size <= bs[i].base \/ bs[i].base + bs[i].size <= base
<1>1. bs[i].base \in Nat /\ bs[i].size \in Nat /\ bs[i].size > 0
  BY BlockFields, HeaderAssumption DEF BlocksOk
<1>2. Span(bs[i].base, bs[i].size) \subseteq BytesAfter(bs, 0)
  BY DEF BytesAfter, BlockBytes
<1>3. Span(base, size) \cap Span(bs[i].base, bs[i].size) = {}
  BY <1>2
<1> QED BY <1>1, <1>3, Spans

\* cs is the chain bs after more memory was obtained: the blocks keep their place
\* and what they hold.
Grown(bs, cs) ==
    /\ Len(bs) <= Len(cs)
    /\ \A i \in 1 .. Len(bs) : /\ cs[i].base = bs[i].base
                               /\ cs[i].offset = bs[i].offset
                               /\ bs[i].size <= cs[i].size
    /\ \A i \in Len(bs) + 1 .. Len(cs) : cs[i].offset = HEADER

\* A new block at the end of the chain.
LEMMA ChainBlock ==
    ASSUME NEW bs \in Seq(BlockType), BlocksOk(bs),
           NEW base \in Nat, NEW size \in Nat,
           PAGE <= base, base + size <= TOP, HEADER <= size,
           Span(base, size) \cap BytesAfter(bs, 0) = {}
    PROVE  LET cs == Append(bs, NewBlock(base, size)) IN
           /\ cs \in Seq(BlockType)
           /\ BlocksOk(cs)
           /\ Grown(bs, cs)
           /\ BytesAfter(cs, 0) = BytesAfter(bs, 0) \cup Span(base, size)
           /\ Len(cs) = Len(bs) + 1
           /\ cs[Len(cs)] = NewBlock(base, size)
<1> DEFINE new == NewBlock(base, size)
           cs == Append(bs, new)
           n == Len(bs)
<1>1. /\ new \in BlockType
      /\ new.base = base /\ new.size = size /\ new.offset = HEADER
  BY HeaderAssumption DEF NewBlock, BlockType
<1> HIDE DEF new
<1>2. /\ n \in Nat
      /\ cs \in Seq(BlockType)
      /\ Len(cs) = n + 1
      /\ cs[n + 1] = new
      /\ \A i \in 1 .. n : cs[i] = bs[i]
  BY <1>1
<1> HIDE DEF cs, n
<1>3. \A i \in 1 .. n : /\ bs[i].base \in Nat /\ bs[i].size \in Nat
                        /\ base + size <= bs[i].base \/ bs[i].base + bs[i].size <= base
  <2> TAKE i \in 1 .. n
  <2>1. bs[i].base \in Nat /\ bs[i].size \in Nat
    BY BlockFields DEF n
  <2>2. size > 0
    BY HeaderAssumption
  <2>3. base + size <= bs[i].base \/ bs[i].base + bs[i].size <= base
    BY <2>2, FreeSpan DEF n
  <2> QED BY <2>1, <2>3
<1>4. BlocksOk(cs)
  <2>1. \A i, j \in 1 .. n + 1 : i # j => Apart(cs[i], cs[j])
    <3> TAKE i, j \in 1 .. n + 1
    <3>1. CASE i \in 1 .. n /\ j \in 1 .. n
      BY <1>2, <3>1 DEF BlocksOk, n
    <3>2. CASE i = n + 1 /\ j \in 1 .. n
      BY <1>1, <1>2, <1>3, <3>2 DEF Apart
    <3>3. CASE j = n + 1 /\ i \in 1 .. n
      BY <1>1, <1>2, <1>3, <3>3 DEF Apart
    <3> QED BY <1>2, <3>1, <3>2, <3>3
  <2>2. \A i \in 1 .. n + 1 : /\ PAGE <= cs[i].base
                              /\ cs[i].base + cs[i].size <= TOP
                              /\ HEADER <= cs[i].offset
                              /\ cs[i].offset <= cs[i].size
    <3> TAKE i \in 1 .. n + 1
    <3>1. CASE i \in 1 .. n
      BY <1>2, <3>1 DEF BlocksOk, n
    <3>2. CASE i = n + 1
      BY <1>1, <1>2, <3>2, HeaderAssumption
    <3> QED BY <1>2, <3>1, <3>2
  <2> QED BY <1>2, <2>1, <2>2 DEF BlocksOk
<1>5. BytesAfter(cs, 0) = BytesAfter(bs, 0) \cup Span(base, size)
  <2>1. \A x : x \in BytesAfter(cs, 0) <=> \E i \in 1 .. n + 1 : Within(x, cs[i])
    BY <1>2, InBytes
  <2>2. \A x : x \in BytesAfter(bs, 0) <=> \E i \in 1 .. n : Within(x, bs[i])
    BY InBytes DEF n
  <2>3. \A x : x \in Span(base, size) <=> Within(x, cs[n + 1])
    BY <1>1, <1>2 DEF Span, Within
  <2>4. \A x : (\E i \in 1 .. n + 1 : Within(x, cs[i]))
                 <=> Within(x, cs[n + 1]) \/ \E i \in 1 .. n : Within(x, bs[i])
    <3>1. \A i \in 1 .. n + 1 : i \in 1 .. n \/ i = n + 1
      BY <1>2
    <3>2. 1 .. n \subseteq 1 .. n + 1 /\ n + 1 \in 1 .. n + 1
      BY <1>2
    <3> QED BY <1>2, <3>1, <3>2
  <2> QED BY <2>1, <2>2, <2>3, <2>4
<1>6. Grown(bs, cs)
  <2>1. \A i \in n + 1 .. n + 1 : cs[i].offset = HEADER
    BY <1>1, <1>2
  <2>2. \A i \in 1 .. n : bs[i].size <= cs[i].size
    BY <1>2, <1>3
  <2> QED BY <1>2, <2>1, <2>2 DEF Grown, n
<1> QED BY <1>2, <1>4, <1>5, <1>6 DEF cs, new, n

\* A block that gets larger, or holds more, stays a block.
LEMMA BlockExcept ==
    ASSUME NEW b \in BlockType, NEW k \in Nat
    PROVE  LET large == [b EXCEPT !.size = @ + k]
               full == [b EXCEPT !.offset = k]
           IN  /\ large \in BlockType
               /\ large.base = b.base /\ large.size = b.size + k /\ large.offset = b.offset
               /\ full \in BlockType
               /\ full.base = b.base /\ full.size = b.size /\ full.offset = k
  BY DEF BlockType

\* More memory right after the newest block.
LEMMA ExtendBlock ==
    ASSUME NEW bs \in Seq(BlockType), BlocksOk(bs), bs # <<>>,
           NEW size \in Nat, size > 0,
           LET last == bs[Len(bs)]
               base == last.base + last.size
           IN  base + size <= TOP /\ Span(base, size) \cap BytesAfter(bs, 0) = {}
    PROVE  LET n == Len(bs)
               cs == [bs EXCEPT ![n].size = @ + size] IN
           /\ cs \in Seq(BlockType)
           /\ BlocksOk(cs)
           /\ Grown(bs, cs)
           /\ BytesAfter(cs, 0) = BytesAfter(bs, 0) \cup Span(bs[n].base + bs[n].size, size)
           /\ Len(cs) = n
           /\ cs[n].offset = bs[n].offset
           /\ cs[n].size = bs[n].size + size
<1> DEFINE n == Len(bs)
           last == [bs[n] EXCEPT !.size = @ + size]
           cs == [bs EXCEPT ![n] = last]
           base == bs[n].base + bs[n].size
<1>1. n \in Nat \ {0} /\ n \in 1 .. n
  OBVIOUS
<1>2. bs[n] \in BlockType /\ bs[n].base \in Nat /\ bs[n].size \in Nat /\ bs[n].offset \in Nat
  BY <1>1, BlockFields
<1>3. /\ last \in BlockType
      /\ last.base = bs[n].base /\ last.size = bs[n].size + size /\ last.offset = bs[n].offset
  BY <1>2, BlockExcept
<1>4. cs \in Seq(BlockType) /\ Len(cs) = n
  <2> HIDE DEF last
  <2> QED BY <1>1, <1>3
<1>5. cs[n] = last /\ \A i \in 1 .. n : i # n => cs[i] = bs[i]
  <2> HIDE DEF last
  <2> QED BY <1>1
<1>6. base \in Nat /\ base + size <= TOP /\ Span(base, size) \cap BytesAfter(bs, 0) = {}
  BY <1>2
<1>7. base = bs[n].base + bs[n].size
  OBVIOUS
<1>8. /\ cs[n].base = bs[n].base
      /\ cs[n].size = bs[n].size + size
      /\ cs[n].offset = bs[n].offset
  <2> HIDE DEF last, cs
  <2> QED BY <1>3, <1>5
<1> HIDE DEF cs, last, n, base
<1>9. \A i \in 1 .. n : /\ bs[i].base \in Nat /\ bs[i].size \in Nat /\ bs[i].size > 0
                        /\ base + size <= bs[i].base \/ bs[i].base + bs[i].size <= base
  <2> TAKE i \in 1 .. n
  <2>1. bs[i].base \in Nat /\ bs[i].size \in Nat /\ bs[i].size > 0
    BY BlockFields, HeaderAssumption DEF BlocksOk, n
  <2>2. base + size <= bs[i].base \/ bs[i].base + bs[i].size <= base
    BY <1>6, FreeSpan DEF n
  <2> QED BY <2>1, <2>2
<1>10. \A i \in 1 .. n : i # n => Apart(cs[i], cs[n])
  <2> TAKE i \in 1 .. n
  <2> HAVE i # n
  <2>1. Apart(bs[i], bs[n])
    BY <1>1 DEF BlocksOk, n
  <2>2. cs[i] = bs[i] /\ bs[i].base \in Nat /\ bs[i].size \in Nat /\ bs[i].size > 0
    BY <1>5, <1>9
  <2>3. base + size <= bs[i].base \/ bs[i].base + bs[i].size <= base
    BY <1>9
  <2> QED BY ONLY <1>2, <1>7, <1>8, <2>1, <2>2, <2>3, size \in Nat, SMTT(30) DEF Apart
<1>11. BlocksOk(cs)
  <2>1. \A i, j \in 1 .. n : i # j => Apart(cs[i], cs[j])
    <3> TAKE i, j \in 1 .. n
    <3>1. CASE i # n /\ j # n
      BY <1>5, <3>1 DEF BlocksOk, n
    <3> QED BY <1>10, <3>1 DEF Apart
  <2>2. \A i \in 1 .. n : /\ PAGE <= cs[i].base
                          /\ cs[i].base + cs[i].size <= TOP
                          /\ HEADER <= cs[i].offset
                          /\ cs[i].offset <= cs[i].size
    <3> TAKE i \in 1 .. n
    <3>1. /\ PAGE <= bs[i].base
          /\ bs[i].base + bs[i].size <= TOP
          /\ HEADER <= bs[i].offset
          /\ bs[i].offset <= bs[i].size
      BY DEF BlocksOk, n
    <3>2. CASE i = n
      <4>1. PAGE <= bs[n].base /\ HEADER <= bs[n].offset /\ bs[n].offset <= bs[n].size
        BY <3>1, <3>2
      <4>2. bs[n].base + (bs[n].size + size) <= TOP
        BY ONLY <1>2, <1>6, <1>7, SizeAssumption, size \in Nat
      <4>3. bs[n].offset <= bs[n].size + size
        BY ONLY <1>2, <4>1, size \in Nat
      <4> QED BY ONLY <1>8, <3>2, <4>1, <4>2, <4>3
    <3> QED BY <1>5, <3>1, <3>2
  <2> QED BY <1>4, <2>1, <2>2 DEF BlocksOk
<1>12. BytesAfter(cs, 0) = BytesAfter(bs, 0) \cup Span(base, size)
  <2>1. \A x : x \in BytesAfter(cs, 0) <=> \E i \in 1 .. n : Within(x, cs[i])
    BY <1>4, InBytes
  <2>2. \A x : x \in BytesAfter(bs, 0) <=> \E i \in 1 .. n : Within(x, bs[i])
    BY InBytes DEF n
  <2>3. \A x : Within(x, cs[n]) <=> Within(x, bs[n]) \/ x \in Span(base, size)
    <3> TAKE x
    <3>1. CASE x \in Int
      <4>1. Within(x, cs[n]) <=> bs[n].base <= x /\ x < bs[n].base + (bs[n].size + size)
        BY ONLY <1>8, <3>1 DEF Within
      <4>2. Within(x, bs[n]) <=> bs[n].base <= x /\ x < bs[n].base + bs[n].size
        BY ONLY <3>1 DEF Within
      <4>3. x \in Span(base, size) <=>
               bs[n].base + bs[n].size <= x /\ x < bs[n].base + bs[n].size + size
        BY ONLY <1>2, <1>7, <3>1, size \in Nat DEF Span
      <4> DEFINE b == bs[n].base
                 m == bs[n].size
      <4>4. b \in Nat /\ m \in Nat
        BY <1>2
      <4> HIDE DEF b, m
      <4>5. (b <= x /\ x < b + (m + size)) <=>
               (b <= x /\ x < b + m) \/ (b + m <= x /\ x < b + m + size)
        BY ONLY <3>1, <4>4, size \in Nat
      <4> QED BY ONLY <4>1, <4>2, <4>3, <4>5, Zenon DEF b, m
    <3>2. CASE x \notin Int
      BY ONLY <3>2, <1>6, size \in Nat DEF Within, Span
    <3> QED BY <3>1, <3>2
  <2>4. \A x : (\E i \in 1 .. n : Within(x, cs[i]))
                 <=> x \in Span(base, size) \/ \E i \in 1 .. n : Within(x, bs[i])
    BY <1>1, <1>5, <2>3
  <2> QED BY <2>1, <2>2, <2>4
<1>13. Grown(bs, cs)
  <2>1. \A i \in 1 .. n : /\ cs[i].base = bs[i].base
                          /\ cs[i].offset = bs[i].offset
                          /\ bs[i].size <= cs[i].size
    <3> TAKE i \in 1 .. n
    <3>1. CASE i = n
      BY <1>2, <1>8, <3>1
    <3>2. CASE i # n
      BY <1>5, <1>9, <3>2
    <3> QED BY <3>1, <3>2
  <2> QED BY <1>1, <1>4, <2>1 DEF Grown, n
<1> QED BY <1>4, <1>8, <1>11, <1>12, <1>13, Zenon DEF cs, last, n, base

-----------------------------------------------------------------------------
(* Allocation *)

\* n is m after a block for capacity bytes was obtained.
Obtained(m, capacity, n) ==
    /\ Good(n) /\ Writable(n)
    /\ Grown(m.arena.blocks, n.arena.blocks)
    /\ n.arena.blocks # <<>>
    /\ Newest(n).offset + capacity <= Newest(n).size
    /\ m.arena.blocks = <<>> => /\ Len(n.arena.blocks) = 1
                                /\ Newest(n).base % PAGE = 0
                                /\ Newest(n).offset = HEADER

\* arena_create_block obtains a block with room for what was asked, next to the
\* newest one or anywhere else, or changes nothing.
LEMMA CreateBlock ==
    ASSUME NEW m, Good(m), Writable(m), NEW capacity \in Nat,
           NEW r \in arena_create_block(m, capacity)
    PROVE  \/ r = [ok |-> FALSE, m |-> m]
           \/ r.ok = TRUE /\ Obtained(m, capacity, r.m)
<1> DEFINE total == align_to_page(capacity + HEADER)
           bs == m.arena.blocks
<1>1. total \in Nat /\ total >= capacity + HEADER /\ total > 0
  BY AlignToPage, HeaderAssumption
<1> HIDE DEF total
<1>2. PICK base \in mmap(m, total) :
         r = IF base = NULL
             THEN [ok |-> FALSE, m |-> m]
             ELSE [ok |-> TRUE,
                   m |-> [arena |-> [m.arena EXCEPT !.blocks = Extended(m, base, total)],
                          memory |-> Mapped(m, base, total)]]
  BY DEF arena_create_block, total
<1>3. CASE base = NULL
  BY <1>2, <1>3
<1>4. CASE base # NULL
  <2> DEFINE cs == Extended(m, base, total)
             a == [m.arena EXCEPT !.blocks = cs]
             mem == Mapped(m, base, total)
  <2>1. /\ base \in Nat /\ PAGE <= base /\ base % PAGE = 0
        /\ Span(base, total) \subseteq Addresses
        /\ Span(base, total) \cap DOMAIN m.memory = {}
    BY <1>2, <1>4, PageAssumption, SizeAssumption DEF mmap, Addresses
  <2>2. base + total <= TOP
    <3>1. base + total - 1 \in Span(base, total)
      BY <1>1, <2>1 DEF Span
    <3>2. base + total - 1 <= TOP - 1
      BY <2>1, <3>1, SizeAssumption, PageAssumption DEF Addresses
    <3> QED BY <1>1, <2>1, <3>2, SizeAssumption
  <2>3. bs \in Seq(BlockType) /\ BlocksOk(bs) /\ Span(base, total) \cap BytesAfter(bs, 0) = {}
    BY <2>1 DEF Good, Arenas
  <2>4. /\ cs \in Seq(BlockType) /\ BlocksOk(cs) /\ Grown(bs, cs)
        /\ BytesAfter(cs, 0) = BytesAfter(bs, 0) \cup Span(base, total)
        /\ cs # <<>>
        /\ cs[Len(cs)].offset + capacity <= cs[Len(cs)].size
        /\ bs = <<>> => /\ Len(cs) = 1
                        /\ cs[Len(cs)].base % PAGE = 0
                        /\ cs[Len(cs)].offset = HEADER
    <3> HIDE DEF bs
    <3>1. CASE Len(bs) # 0 /\ base = bs[Len(bs)].base + bs[Len(bs)].size
      <4>1. cs = [bs EXCEPT ![Len(bs)].size = @ + total]
        BY <3>1 DEF Extended, Newest, bs
      <4>2. bs # <<>>
        BY <2>3, <3>1
      <4> HIDE DEF cs
      <4>3. /\ cs \in Seq(BlockType) /\ BlocksOk(cs) /\ Grown(bs, cs)
            /\ BytesAfter(cs, 0) = BytesAfter(bs, 0) \cup Span(base, total)
            /\ Len(cs) = Len(bs)
            /\ cs[Len(bs)].offset = bs[Len(bs)].offset
            /\ cs[Len(bs)].size = bs[Len(bs)].size + total
        BY <1>1, <2>2, <2>3, <3>1, <4>1, <4>2, ExtendBlock
      <4>4. /\ bs[Len(bs)].offset \in Nat /\ bs[Len(bs)].size \in Nat
            /\ bs[Len(bs)].offset <= bs[Len(bs)].size
        <5>1. Len(bs) \in 1 .. Len(bs)
          BY <2>3, <3>1
        <5> QED BY <2>3, <5>1, BlockFields DEF BlocksOk
      <4>5. cs[Len(cs)].offset + capacity <= cs[Len(cs)].size
        BY ONLY <1>1, <4>3, <4>4, HeaderAssumption, capacity \in Nat
      <4>6. cs # <<>>
        BY <2>3, <3>1, <4>3
      <4> QED BY <4>2, <4>3, <4>5, <4>6
    <3>2. CASE ~(Len(bs) # 0 /\ base = bs[Len(bs)].base + bs[Len(bs)].size)
      <4>1. cs = Append(bs, NewBlock(base, total))
        BY <3>2 DEF Extended, Newest, bs
      <4> HIDE DEF cs
      <4>2. HEADER <= total
        BY <1>1, HeaderAssumption
      <4>3. /\ cs \in Seq(BlockType) /\ BlocksOk(cs) /\ Grown(bs, cs)
            /\ BytesAfter(cs, 0) = BytesAfter(bs, 0) \cup Span(base, total)
            /\ Len(cs) = Len(bs) + 1
            /\ cs[Len(cs)] = NewBlock(base, total)
        BY <1>1, <2>1, <2>2, <2>3, <4>1, <4>2, ChainBlock
      <4>4. /\ cs[Len(cs)].base = base
            /\ cs[Len(cs)].size = total
            /\ cs[Len(cs)].offset = HEADER
        BY <4>3 DEF NewBlock
      <4>5. cs[Len(cs)].offset + capacity <= cs[Len(cs)].size
        BY ONLY <1>1, <4>4, HeaderAssumption, capacity \in Nat
      <4>6. cs # <<>> /\ (bs = <<>> => Len(cs) = 1)
        BY <2>3, <4>3
      <4> QED BY <2>1, <4>3, <4>4, <4>5, <4>6
    <3> QED BY <3>1, <3>2
  <2> HIDE DEF cs
  <2>5. a \in Arenas /\ a.blocks = cs /\ a.prot = m.arena.prot
    BY <2>4 DEF Good, Arenas
  <2>6. DOMAIN mem = BytesAfter(cs, 0) /\ \A x \in DOMAIN mem : mem[x] = "rw"
    BY <2>4 DEF Mapped, Good, Writable
  <2>7. r = [ok |-> TRUE, m |-> [arena |-> a, memory |-> mem]]
    BY <1>2, <1>4 DEF cs
  <2> HIDE DEF a, mem
  <2>8. r.ok = TRUE /\ r.m = [arena |-> a, memory |-> mem] /\ r.m.arena = a /\ r.m.memory = mem
    BY <2>7
  <2>9. Good(r.m) /\ Writable(r.m)
    BY <2>4, <2>5, <2>6, <2>8 DEF Good, Writable
  <2> QED BY <2>4, <2>5, <2>8, <2>9 DEF Obtained, Newest
<1> QED BY <1>3, <1>4

\* n is m after size bytes were cut off its newest block at ptr.
Cut(m, size, align, ptr, n) ==
    /\ Good(n) /\ Writable(n)
    /\ Len(n.arena.blocks) = Len(m.arena.blocks)
    /\ \A i \in 1 .. Len(m.arena.blocks) :
          /\ n.arena.blocks[i].base = m.arena.blocks[i].base
          /\ n.arena.blocks[i].size = m.arena.blocks[i].size
          /\ i # Len(m.arena.blocks) => n.arena.blocks[i].offset = m.arena.blocks[i].offset
    /\ ptr \in Nat
    /\ ptr % align = 0
    /\ Newest(m).base + Newest(m).offset <= ptr
    /\ ptr + size = Newest(n).base + Newest(n).offset

\* Bump cuts an aligned object off a block that has room for it.
LEMMA BumpCuts ==
    ASSUME NEW m, Good(m), Writable(m), m.arena.blocks # <<>>,
           NEW size \in Nat, NEW align \in Nat \ {0}, Fits(m, size, align)
    PROVE  Cut(m, size, align, Bump(m, size, align).ptr, Bump(m, size, align).m)
<1> DEFINE bs == m.arena.blocks
           n == Len(bs)
           pad == Padding(m, align)
           full == bs[n].offset + pad + size
           b == [bs[n] EXCEPT !.offset = full]
           cs == [bs EXCEPT ![n] = b]
           a == [m.arena EXCEPT !.blocks = cs]
           ptr == Here(m) + pad
           mm == [m EXCEPT !.arena = a]
<1>1. bs \in Seq(BlockType) /\ BlocksOk(bs) /\ n \in 1 .. n /\ n \in Nat
  BY DEF Good, Arenas
<1>2. /\ bs[n] \in BlockType
      /\ bs[n].base \in Nat /\ bs[n].size \in Nat /\ bs[n].offset \in Nat
  BY <1>1, BlockFields
<1>3. Newest(m) = bs[n] /\ Here(m) = bs[n].base + bs[n].offset /\ Here(m) \in Nat
  BY <1>2, SMTT(30) DEF Newest, Here
<1>4. /\ pad \in Nat
      /\ ptr = align_forward(Here(m), align)
      /\ ptr \in Nat /\ ptr % align = 0 /\ Here(m) <= ptr
  <2>1. /\ align_forward(Here(m), align) \in Nat
        /\ Here(m) <= align_forward(Here(m), align)
        /\ align_forward(Here(m), align) % align = 0
    BY <1>3, AlignForward
  <2>2. pad = align_forward(Here(m), align) - Here(m)
    BY DEF Padding
  <2>3. pad \in Nat /\ Here(m) + pad = align_forward(Here(m), align)
    BY ONLY <1>3, <2>1, <2>2
  <2> QED BY <2>1, <2>3
<1>5. full \in Nat /\ full <= bs[n].size /\ bs[n].offset <= full
  <2>1. Newest(m).offset + pad + size <= Newest(m).size
    BY DEF Fits
  <2> HIDE DEF pad, bs, n
  <2> QED BY ONLY <1>2, <1>3, <1>4, <2>1, size \in Nat
<1>6. ptr + size = bs[n].base + full
  <2> HIDE DEF pad, bs, n
  <2> QED BY ONLY <1>2, <1>3, <1>4, size \in Nat
<1>7. Bump(m, size, align) = [ptr |-> ptr, m |-> mm]
  BY <1>1, <1>3 DEF Bump, Good, Arenas
<1>8. /\ b \in BlockType
      /\ b.base = bs[n].base /\ b.size = bs[n].size /\ b.offset = full
  <2> HIDE DEF full, bs, n
  <2> QED BY <1>2, <1>5, BlockExcept
<1>9. /\ cs \in Seq(BlockType)
      /\ Len(cs) = n
      /\ cs[n] = b
      /\ \A i \in 1 .. n : i # n => cs[i] = bs[i]
  <2> HIDE DEF b
  <2> QED BY <1>1, <1>8
<1>10. /\ mm = [arena |-> a, memory |-> m.memory]
       /\ a \in Arenas /\ a.blocks = cs /\ a.prot = m.arena.prot
  <2> HIDE DEF cs
  <2>1. a \in Arenas /\ a.blocks = cs /\ a.prot = m.arena.prot
    BY <1>9 DEF Good, Arenas
  <2> HIDE DEF a
  <2>2. m = [arena |-> m.arena, memory |-> m.memory]
    BY DEF Good
  <2>3. mm = [arena |-> a, memory |-> m.memory]
    BY ONLY <2>2 DEF mm
  <2> QED BY <2>1, <2>3
<1> HIDE DEF bs, n, pad, full, b, cs, a, ptr, mm
<1>11. \A i \in 1 .. n : cs[i].base = bs[i].base /\ cs[i].size = bs[i].size
  BY <1>8, <1>9
<1>12. BlocksOk(cs)
  <2>1. \A i \in 1 .. n : HEADER <= cs[i].offset /\ cs[i].offset <= cs[i].size
    <3> TAKE i \in 1 .. n
    <3>1. HEADER <= bs[i].offset /\ bs[i].offset <= bs[i].size
      BY <1>1 DEF BlocksOk, n
    <3>2. CASE i = n
      BY ONLY <1>2, <1>5, <1>8, <1>9, <3>1, <3>2, HeaderAssumption
    <3> QED BY <1>9, <3>1, <3>2
  <2> QED BY <1>1, <1>9, <1>11, <2>1 DEF BlocksOk, Apart, n
<1>13. BytesAfter(cs, 0) = BytesAfter(bs, 0)
  BY <1>1, <1>9, <1>11, SameBytes DEF n
<1>14. Good(mm) /\ Writable(mm) /\ mm.arena.blocks = cs
  <2>1. mm.arena = a /\ mm.memory = m.memory
    BY <1>10
  <2> QED BY <1>9, <1>10, <1>12, <1>13, <2>1 DEF Good, Writable, bs
<1>15. Cut(m, size, align, ptr, mm)
  <2>1. Newest(mm) = b
    BY <1>9, <1>14 DEF Newest
  <2> QED BY <1>3, <1>4, <1>6, <1>8, <1>9, <1>11, <1>14, <2>1 DEF Cut, bs, n
<1> QED BY <1>7, <1>15

\* A chain has grown from itself, and growing is transitive.
LEMMA GrownOrder ==
    ASSUME NEW bs \in Seq(BlockType), NEW cs \in Seq(BlockType), NEW ds \in Seq(BlockType)
    PROVE  /\ Grown(bs, bs)
           /\ Grown(bs, cs) /\ Grown(cs, ds) => Grown(bs, ds)
<1>1. Grown(bs, bs)
  <2>1. \A i \in 1 .. Len(bs) : bs[i].size <= bs[i].size
    BY BlockFields
  <2> QED BY <2>1 DEF Grown
<1>2. ASSUME Grown(bs, cs), Grown(cs, ds) PROVE Grown(bs, ds)
  <2>1. Len(bs) \in Nat /\ Len(cs) \in Nat /\ Len(ds) \in Nat
    OBVIOUS
  <2>2. Len(bs) <= Len(cs) /\ Len(cs) <= Len(ds)
    BY <1>2 DEF Grown
  <2>3. ASSUME NEW i \in 1 .. Len(bs)
        PROVE  /\ ds[i].base = bs[i].base
               /\ ds[i].offset = bs[i].offset
               /\ bs[i].size <= ds[i].size
    <3>1. i \in 1 .. Len(cs) /\ i \in 1 .. Len(ds)
      BY <2>1, <2>2
    <3>2. bs[i].size \in Nat /\ cs[i].size \in Nat /\ ds[i].size \in Nat
      BY <3>1, BlockFields
    <3>3. bs[i].size <= cs[i].size /\ cs[i].size <= ds[i].size
      BY <1>2, <3>1 DEF Grown
    <3>4. bs[i].size <= ds[i].size
      BY ONLY <3>2, <3>3
    <3> QED BY <1>2, <3>1, <3>4 DEF Grown
  <2>4. ASSUME NEW i \in Len(bs) + 1 .. Len(ds) PROVE ds[i].offset = HEADER
    <3>1. CASE i \in 1 .. Len(cs)
      <4>1. i \in Len(bs) + 1 .. Len(cs)
        BY <2>1, <3>1
      <4> QED BY <1>2, <3>1, <4>1 DEF Grown
    <3>2. CASE i \in Len(cs) + 1 .. Len(ds)
      BY <1>2, <3>2 DEF Grown
    <3> QED BY <2>1, <3>1, <3>2
  <2>5. Len(bs) <= Len(ds)
    BY <2>1, <2>2
  <2> QED BY <2>3, <2>4, <2>5 DEF Grown
<1> QED BY <1>1, <1>2

\* cs is the chain bs after an allocation: the blocks keep their place and what
\* they hold, and only the newest may hold more.
Filled(bs, cs) ==
    /\ Len(bs) <= Len(cs)
    /\ \A i \in 1 .. Len(bs) : /\ cs[i].base = bs[i].base
                               /\ bs[i].size <= cs[i].size
                               /\ bs[i].offset <= cs[i].offset
                               /\ i # Len(cs) => cs[i].offset = bs[i].offset

\* The object is at the end of the newest block of cs, after what bs held there.
Placed(bs, cs, ptr, size) ==
    LET n == Len(cs) IN
    /\ n # 0
    /\ cs[n].base + HEADER <= ptr
    /\ ptr + size <= cs[n].base + cs[n].offset
    /\ n <= Len(bs) => bs[n].base + bs[n].offset <= ptr

\* A chain that has only grown is filled.
LEMMA GrownFilled ==
    ASSUME NEW bs \in Seq(BlockType), NEW cs, Grown(bs, cs)
    PROVE  Filled(bs, cs)
<1>1. \A i \in 1 .. Len(bs) : bs[i].offset \in Nat
  BY BlockFields
<1> QED BY <1>1 DEF Grown, Filled

\* Cutting an object off a chain that has grown fills it.
LEMMA CutFills ==
    ASSUME NEW bs \in Seq(BlockType), NEW q, Good(q), q.arena.blocks # <<>>,
           Grown(bs, q.arena.blocks),
           NEW size \in Nat, NEW align, NEW ptr, NEW n, Cut(q, size, align, ptr, n)
    PROVE  /\ Filled(bs, n.arena.blocks)
           /\ Placed(bs, n.arena.blocks, ptr, size)
<1> DEFINE qs == q.arena.blocks
           cs == n.arena.blocks
           k == Len(qs)
<1>1. qs \in Seq(BlockType) /\ cs \in Seq(BlockType) /\ BlocksOk(qs)
  BY DEF Good, Arenas, Cut
<1>2. Len(cs) = k /\ k \in Nat \ {0} /\ k \in 1 .. k
  BY <1>1 DEF Cut
<1>3. Newest(q) = qs[k] /\ Newest(n) = cs[k]
  BY <1>2 DEF Newest
<1> HIDE DEF qs, cs, k
<1>4. /\ qs[k].base \in Nat /\ qs[k].offset \in Nat /\ cs[k].offset \in Nat
      /\ HEADER <= qs[k].offset
      /\ cs[k].base = qs[k].base
  BY <1>1, <1>2, BlockFields DEF BlocksOk, Cut, k, qs, cs
<1>5. ptr \in Nat /\ qs[k].base + qs[k].offset <= ptr /\ ptr + size = cs[k].base + cs[k].offset
  BY <1>3 DEF Cut
<1>6. qs[k].offset <= cs[k].offset /\ qs[k].base + HEADER <= ptr
  BY ONLY <1>4, <1>5, size \in Nat, HeaderAssumption, SMTT(30)
<1>7. Len(bs) \in Nat /\ Len(bs) <= k
  BY DEF Grown, k, qs
<1>8. ASSUME NEW i \in 1 .. Len(bs)
      PROVE  /\ cs[i].base = bs[i].base
             /\ bs[i].size <= cs[i].size
             /\ bs[i].offset <= cs[i].offset
             /\ i # k => cs[i].offset = bs[i].offset
  <2>1. i \in 1 .. k
    BY <1>2, <1>7
  <2>2. /\ qs[i].base = bs[i].base
        /\ qs[i].offset = bs[i].offset
        /\ bs[i].size <= qs[i].size
    BY DEF Grown, qs
  <2>3. /\ cs[i].base = qs[i].base
        /\ cs[i].size = qs[i].size
        /\ i # k => cs[i].offset = qs[i].offset
    BY <2>1 DEF Cut, qs, cs, k
  <2>4. bs[i].offset <= cs[i].offset
    <3>1. bs[i].offset \in Nat
      BY BlockFields
    <3> QED BY <1>6, <2>2, <2>3, <3>1
  <2> QED BY <2>2, <2>3, <2>4
<1>9. k <= Len(bs) => bs[k].base + bs[k].offset <= ptr
  <2>1. SUFFICES ASSUME k <= Len(bs) PROVE bs[k].base + bs[k].offset <= ptr
    OBVIOUS
  <2>2. k \in 1 .. Len(bs)
    BY <1>2, <1>7, <2>1
  <2>3. qs[k].base = bs[k].base /\ qs[k].offset = bs[k].offset
    BY <2>2 DEF Grown, qs
  <2> QED BY <1>5, <2>3
<1>10. cs[k].base + HEADER <= ptr /\ ptr + size <= cs[k].base + cs[k].offset
  <2>1. ptr + size \in Nat
    BY <1>5
  <2> QED BY <1>4, <1>5, <1>6, <2>1
<1>11. Filled(bs, cs)
  BY <1>2, <1>7, <1>8 DEF Filled
<1>12. Placed(bs, cs, ptr, size)
  BY <1>2, <1>9, <1>10 DEF Placed
<1> QED BY <1>11, <1>12 DEF cs

\* A block obtained for size + align bytes has room for the object.
LEMMA ObtainedFits ==
    ASSUME NEW m, NEW n, NEW size \in Nat, NEW align \in Nat \ {0}, NEW capacity \in Nat,
           Obtained(m, capacity, n),
           \/ capacity >= size + align
           \/ capacity >= size /\ Here(n) % align = 0
    PROVE  Fits(n, size, align)
<1> DEFINE b == Newest(n)
<1>1. b.base \in Nat /\ b.size \in Nat /\ b.offset \in Nat
  <2>1. n.arena.blocks \in Seq(BlockType) /\ Len(n.arena.blocks) \in 1 .. Len(n.arena.blocks)
    BY DEF Obtained, Good, Arenas
  <2> QED BY <2>1, BlockFields DEF Newest
<1>2. b.offset + capacity <= b.size
  BY DEF Obtained
<1> HIDE DEF b
<1>3. Here(n) \in Nat
  BY <1>1 DEF Here, b
<1>4. Padding(n, align) \in Nat /\ Padding(n, align) <= align
      /\ (Here(n) % align = 0 => Padding(n, align) = 0)
  <2>1. /\ align_forward(Here(n), align) \in Nat
        /\ Here(n) <= align_forward(Here(n), align)
        /\ align_forward(Here(n), align) <= Here(n) + align
        /\ Here(n) % align = 0 => align_forward(Here(n), align) = Here(n)
    BY <1>3, AlignForward
  <2> QED BY <1>3, <2>1 DEF Padding
<1>5. Padding(n, align) + size <= capacity
  BY <1>4
<1> QED BY ONLY <1>1, <1>2, <1>4, <1>5, size \in Nat, capacity \in Nat DEF Fits, b

\* m has grown to n.
Became(m, n) == Good(n) /\ Writable(n) /\ Grown(m.arena.blocks, n.arena.blocks)

\* The first block is there, or nothing changed.
LEMMA FirstBlockOk ==
    ASSUME NEW m, Good(m), Writable(m), NEW size \in Nat, NEW r \in FirstBlock(m, size)
    PROVE  /\ Became(m, r.m)
           /\ \/ r.ok = TRUE /\ r.m.arena.blocks # <<>>
              \/ r.ok = FALSE /\ r.m = m
           /\ m.arena.blocks = <<>> /\ r.ok = TRUE
                => Obtained(m, Larger(size, MEMARENA_DEFAULT_SIZE), r.m)
<1>1. m.arena.blocks \in Seq(BlockType)
  BY DEF Good, Arenas
<1>2. Became(m, m)
  BY <1>1, GrownOrder DEF Became
<1>3. CASE m.arena.blocks = <<>>
  <2>1. Larger(size, MEMARENA_DEFAULT_SIZE) \in Nat
    BY SizeAssumption DEF Larger
  <2>2. \/ r = [ok |-> FALSE, m |-> m]
        \/ r.ok = TRUE /\ Obtained(m, Larger(size, MEMARENA_DEFAULT_SIZE), r.m)
    BY <1>3, <2>1, CreateBlock DEF FirstBlock
  <2>3. CASE r = [ok |-> FALSE, m |-> m]
    BY <1>2, <2>3
  <2>4. CASE r.ok = TRUE /\ Obtained(m, Larger(size, MEMARENA_DEFAULT_SIZE), r.m)
    <3>1. Became(m, r.m) /\ r.m.arena.blocks # <<>>
      BY <2>4 DEF Became, Obtained
    <3> QED BY <2>4, <3>1
  <2> QED BY <2>2, <2>3, <2>4
<1>4. CASE m.arena.blocks # <<>>
  <2>1. r = [ok |-> TRUE, m |-> m]
    BY <1>4 DEF FirstBlock
  <2> QED BY <1>2, <1>4, <2>1
<1> QED BY <1>3, <1>4

\* There is room for the object, or nothing changed.
LEMMA RoomOk ==
    ASSUME NEW m, Good(m), Writable(m), m.arena.blocks # <<>>,
           NEW size \in Nat, NEW align \in Nat \ {0}, NEW r \in Room(m, size, align)
    PROVE  /\ Became(m, r.m)
           /\ r.m.arena.blocks # <<>>
           /\ \/ r.ok = TRUE /\ Fits(r.m, size, align)
              \/ r.ok = FALSE /\ r.m = m
           /\ Fits(m, size, align) => r.m = m
<1>1. m.arena.blocks \in Seq(BlockType)
  BY DEF Good, Arenas
<1>2. Became(m, m)
  BY <1>1, GrownOrder DEF Became
<1>3. CASE Fits(m, size, align)
  <2>1. r = [ok |-> TRUE, m |-> m]
    BY <1>3 DEF Room
  <2> QED BY <1>2, <1>3, <2>1
<1>4. CASE ~Fits(m, size, align)
  <2> DEFINE capacity == Larger(size + align, MEMARENA_DEFAULT_SIZE)
  <2>1. capacity \in Nat /\ capacity >= size + align
    BY SizeAssumption DEF Larger
  <2>2. r \in arena_create_block(m, capacity)
    BY <1>4 DEF Room
  <2> HIDE DEF capacity
  <2>3. \/ r = [ok |-> FALSE, m |-> m]
        \/ r.ok = TRUE /\ Obtained(m, capacity, r.m)
    BY <2>1, <2>2, CreateBlock
  <2>4. CASE r = [ok |-> FALSE, m |-> m]
    BY <1>2, <1>4, <2>4
  <2>5. CASE r.ok = TRUE /\ Obtained(m, capacity, r.m)
    <3>1. Fits(r.m, size, align)
      BY <2>1, <2>5, ObtainedFits
    <3>2. Became(m, r.m) /\ r.m.arena.blocks # <<>>
      BY <2>5 DEF Became, Obtained
    <3> QED BY <1>4, <2>5, <3>1, <3>2
  <2> QED BY <2>3, <2>4, <2>5
<1> QED BY <1>3, <1>4

\* arena_alloc_aligned returns NULL or an aligned object of its own, whichever
\* path it takes; what was there stays.  An allocation with the default alignment
\* that finds an empty arena needs one block, not two.
LEMMA AllocOk ==
    ASSUME NEW m, Good(m), Writable(m),
           NEW size \in Nat, NEW align \in Nat \ {0},
           NEW r \in arena_alloc_aligned(m, size, align)
    PROVE  /\ Good(r.m) /\ Writable(r.m)
           /\ Filled(m.arena.blocks, r.m.arena.blocks)
           /\ r.ptr # NULL => /\ size # 0
                              /\ r.ptr \in Nat /\ r.ptr % align = 0
                              /\ Placed(m.arena.blocks, r.m.arena.blocks, r.ptr, size)
           /\ m.arena.blocks = <<>> /\ align = DEFAULT_ALIGNMENT => Len(r.m.arena.blocks) <= 1
<1> DEFINE bs == m.arena.blocks
<1>1. bs \in Seq(BlockType)
  BY DEF Good, Arenas
<1>2. ASSUME NEW n, Became(m, n), r = Failed(n), bs = <<>> => Len(n.arena.blocks) <= 1
      PROVE  /\ Good(r.m) /\ Writable(r.m)
             /\ Filled(bs, r.m.arena.blocks)
             /\ r.ptr = NULL
             /\ bs = <<>> => Len(r.m.arena.blocks) <= 1
  <2>1. r.m = n /\ r.ptr = NULL
    BY <1>2 DEF Failed
  <2> QED BY <1>1, <1>2, <2>1, GrownFilled DEF Became
<1>3. Became(m, m)
  BY <1>1, GrownOrder DEF Became
<1>4. CASE size = 0
  <2>1. r = Failed(m)
    BY <1>4 DEF arena_alloc_aligned
  <2>2. bs = <<>> => Len(bs) <= 1
    OBVIOUS
  <2> QED BY <1>2, <1>3, <2>1, <2>2
<1>5. CASE size # 0
  <2>1. PICK first \in FirstBlock(m, size) :
           r \in IF first.ok
                 THEN {PlaceIn(q, size, align) : q \in Room(first.m, size, align)}
                 ELSE {Failed(first.m)}
    BY <1>5 DEF arena_alloc_aligned
  <2> DEFINE f == first.m
             fs == f.arena.blocks
  <2>2. /\ Became(m, f)
        /\ \/ first.ok = TRUE /\ fs # <<>>
           \/ first.ok = FALSE /\ f = m
        /\ bs = <<>> /\ first.ok = TRUE => Obtained(m, Larger(size, MEMARENA_DEFAULT_SIZE), f)
    BY FirstBlockOk
  <2>3. CASE first.ok = FALSE
    <3>1. r = Failed(f) /\ f = m
      BY <2>1, <2>2, <2>3
    <3> QED BY <1>2, <1>3, <3>1
  <2>4. CASE first.ok = TRUE
    <3>1. PICK q \in Room(f, size, align) : r = PlaceIn(q, size, align)
      BY <2>1, <2>4
    <3>2. Good(f) /\ Writable(f) /\ fs # <<>> /\ Grown(bs, fs) /\ fs \in Seq(BlockType)
      BY <2>2, <2>4 DEF Became, Good, Arenas
    <3>3. /\ Became(f, q.m)
          /\ q.m.arena.blocks # <<>>
          /\ \/ q.ok = TRUE /\ Fits(q.m, size, align)
             \/ q.ok = FALSE /\ q.m = f
          /\ Fits(f, size, align) => q.m = f
      BY <3>2, RoomOk
    <3>4. Grown(bs, q.m.arena.blocks) /\ Good(q.m) /\ Writable(q.m)
      <4>1. q.m.arena.blocks \in Seq(BlockType) /\ Good(q.m) /\ Writable(q.m)
            /\ Grown(fs, q.m.arena.blocks)
        BY <3>3 DEF Became, Good, Arenas
      <4> QED BY <1>1, <3>2, <4>1, GrownOrder
    <3>5. bs = <<>> => Len(fs) <= 1
      <4>1. ASSUME bs = <<>> PROVE Len(fs) <= 1
        <5>1. Len(fs) = 1
          BY <2>2, <2>4, <4>1, Zenon DEF Obtained
        <5> QED BY ONLY <5>1
      <4> QED BY <4>1, Zenon
    <3>6. bs = <<>> /\ align = DEFAULT_ALIGNMENT => Len(q.m.arena.blocks) <= 1
      <4> SUFFICES ASSUME bs = <<>>, align = DEFAULT_ALIGNMENT PROVE Len(q.m.arena.blocks) <= 1
        OBVIOUS
      <4> DEFINE capacity == Larger(size, MEMARENA_DEFAULT_SIZE)
      <4>1. Obtained(m, capacity, f)
        BY <2>2, <2>4
      <4>2. capacity \in Nat /\ capacity >= size
        BY SizeAssumption DEF Larger
      <4> HIDE DEF capacity
      <4>3. Newest(f).base % PAGE = 0 /\ Newest(f).offset = HEADER
        BY <4>1 DEF Obtained
      <4>4. Newest(f).base \in Nat
        <5>1. Len(fs) \in 1 .. Len(fs)
          BY <3>2
        <5> QED BY <3>2, <5>1, BlockFields DEF Newest
      <4>5. (Newest(f).base + HEADER) % DEFAULT_ALIGNMENT = 0
        <5>1. Newest(f).base % DEFAULT_ALIGNMENT = 0
          BY <4>3, <4>4, Multiples, PageAssumption, HeaderAssumption
        <5> QED BY <4>4, <5>1, Multiples, HeaderAssumption
      <4>6. Here(f) % align = 0
        BY <4>3, <4>5 DEF Here
      <4>7. Fits(f, size, align)
        BY <4>1, <4>2, <4>6, ObtainedFits
      <4> QED BY <3>3, <3>5, <4>7
    <3>7. CASE q.ok = FALSE
      <4>1. r = Failed(q.m) /\ q.m = f
        BY <3>1, <3>3, <3>7 DEF PlaceIn
      <4> QED BY <1>2, <2>2, <3>5, <4>1
    <3>8. CASE q.ok = TRUE
      <4>1. Fits(q.m, size, align)
        BY <3>3, <3>8
      <4>2. r = Bump(q.m, size, align)
        BY <3>1, <3>8 DEF PlaceIn
      <4>3. Cut(q.m, size, align, r.ptr, r.m)
        BY <3>3, <3>4, <4>1, <4>2, BumpCuts
      <4>4. Filled(bs, r.m.arena.blocks) /\ Placed(bs, r.m.arena.blocks, r.ptr, size)
        BY <1>1, <3>3, <3>4, <4>3, CutFills
      <4>5. Good(r.m) /\ Writable(r.m) /\ r.ptr \in Nat /\ r.ptr % align = 0
            /\ Len(r.m.arena.blocks) = Len(q.m.arena.blocks)
        BY <4>3 DEF Cut
      <4> QED BY <1>5, <3>6, <4>4, <4>5
    <3> QED BY <3>3, <3>7, <3>8
  <2> QED BY <2>2, <2>3, <2>4
<1> QED BY <1>4, <1>5

-----------------------------------------------------------------------------
(* Temporaries *)

\* What is left of a chain after its first n blocks.
LEMMA Shortened ==
    ASSUME NEW bs \in Seq(BlockType), NEW n \in 1 .. Len(bs), BlocksOk(bs),
           NEW ds \in Seq(BlockType), Len(ds) = n,
           \A i \in 1 .. n : ds[i].base = bs[i].base /\ ds[i].size = bs[i].size
    PROVE  BytesAfter(bs, 0) \ BytesAfter(bs, n) = BytesAfter(ds, 0)
<1>1. Len(bs) \in Nat /\ n \in Nat
  OBVIOUS
<1>2. \A x : x \in BytesAfter(bs, 0) <=> \E i \in 1 .. Len(bs) : Within(x, bs[i])
  BY InBytes
<1>3. \A x : x \in BytesAfter(bs, n) <=> \E i \in n + 1 .. Len(bs) : Within(x, bs[i])
  BY <1>1, InBytes
<1>4. \A x : x \in BytesAfter(ds, 0) <=> \E i \in 1 .. n : Within(x, ds[i])
  BY InBytes
<1>5. \A x : \A i \in 1 .. n : Within(x, ds[i]) <=> Within(x, bs[i])
  BY DEF Within
<1>6. ASSUME NEW x, NEW i \in 1 .. n, NEW j \in n + 1 .. Len(bs),
             Within(x, bs[i]), Within(x, bs[j])
      PROVE  FALSE
  <2>1. i \in 1 .. Len(bs) /\ j \in 1 .. Len(bs) /\ i # j
    BY <1>1
  <2>2. /\ bs[i].base \in Nat /\ bs[i].size \in Nat
        /\ bs[j].base \in Nat /\ bs[j].size \in Nat
    BY <2>1, BlockFields
  <2>3. Apart(bs[i], bs[j])
    BY <2>1 DEF BlocksOk
  <2> QED BY <1>6, <2>2, <2>3, SMTT(30) DEF Within, Apart
<1>7. \A i \in 1 .. Len(bs) : i \in 1 .. n \/ i \in n + 1 .. Len(bs)
  BY <1>1
<1>8. 1 .. n \subseteq 1 .. Len(bs) /\ n + 1 .. Len(bs) \subseteq 1 .. Len(bs)
  BY <1>1
<1>9. \A x : x \in BytesAfter(bs, 0) \ BytesAfter(bs, n) <=> x \in BytesAfter(ds, 0)
  <2> TAKE x
  <2>1. (\E i \in 1 .. Len(bs) : Within(x, bs[i]))
          <=> (\E i \in 1 .. n : Within(x, bs[i])) \/ \E j \in n + 1 .. Len(bs) : Within(x, bs[j])
    BY <1>7, <1>8
  <2>2. ~((\E i \in 1 .. n : Within(x, bs[i])) /\ \E j \in n + 1 .. Len(bs) : Within(x, bs[j]))
    BY <1>6
  <2>3. (\E i \in 1 .. n : Within(x, ds[i])) <=> \E i \in 1 .. n : Within(x, bs[i])
    BY <1>5
  <2> QED BY <1>2, <1>3, <1>4, <2>1, <2>2, <2>3, Zenon
<1> QED BY <1>9

\* Giving back the memory after block n of a chain leaves a good one.
LEMMA UnmappedGood ==
    ASSUME NEW m, Good(m), Writable(m), NEW n \in 1 .. Len(m.arena.blocks),
           NEW a \in Arenas, a.prot = "rw", BlocksOk(a.blocks),
           Len(a.blocks) = n,
           \A i \in 1 .. n : /\ a.blocks[i].base = m.arena.blocks[i].base
                             /\ a.blocks[i].size = m.arena.blocks[i].size,
           NEW k, k = [arena |-> a, memory |-> Unmapped(m.memory, BytesAfter(m.arena.blocks, n))]
    PROVE  Good(k) /\ Writable(k)
<1> DEFINE mem == Unmapped(m.memory, BytesAfter(m.arena.blocks, n))
<1>1. /\ m.arena.blocks \in Seq(BlockType) /\ BlocksOk(m.arena.blocks)
      /\ DOMAIN m.memory = BytesAfter(m.arena.blocks, 0)
      /\ a.blocks \in Seq(BlockType)
  BY DEF Good, Arenas
<1>2. /\ DOMAIN mem = BytesAfter(m.arena.blocks, 0) \ BytesAfter(m.arena.blocks, n)
      /\ \A x \in DOMAIN mem : mem[x] = "rw"
  BY <1>1 DEF Unmapped, Writable
<1> HIDE DEF mem
<1>3. DOMAIN mem = BytesAfter(a.blocks, 0)
  <2>1. BytesAfter(m.arena.blocks, 0) \ BytesAfter(m.arena.blocks, n) = BytesAfter(a.blocks, 0)
    BY <1>1, Shortened, SMTT(30)
  <2> QED BY <1>2, <2>1
<1>4. k = [arena |-> a, memory |-> mem]
  BY DEF mem
<1>5. k.arena = a /\ k.memory = mem
  BY <1>4
<1> QED BY <1>2, <1>3, <1>4, <1>5 DEF Good, Writable

\* sv_to_int64 leaves what was allocated where it was.
LEMMA ScratchOk ==
    ASSUME NEW m, Good(m), Writable(m), NEW len \in Nat, NEW k \in sv_to_int64(m, len)
    PROVE  /\ Good(k) /\ Writable(k)
           /\ m.arena.blocks # <<>> =>
                 /\ Len(k.arena.blocks) = Len(m.arena.blocks)
                 /\ \A i \in 1 .. Len(m.arena.blocks) :
                       /\ k.arena.blocks[i].base = m.arena.blocks[i].base
                       /\ k.arena.blocks[i].offset = m.arena.blocks[i].offset
<1> DEFINE bs == m.arena.blocks
           pos == arena_temp_begin(m)
<1>1. PICK r \in arena_alloc_aligned(m, len + 1, DEFAULT_ALIGNMENT) :
         k = arena_temp_end(r.m, pos)
  BY DEF sv_to_int64
<1> DEFINE cs == r.m.arena.blocks
<1>2. /\ Good(r.m) /\ Writable(r.m)
      /\ Filled(bs, cs)
      /\ bs = <<>> => Len(cs) <= 1
  BY AllocOk, HeaderAssumption
<1>3. bs \in Seq(BlockType) /\ cs \in Seq(BlockType) /\ BlocksOk(cs) /\ BlocksOk(bs)
  BY <1>2 DEF Good, Arenas
<1>4. pos.block = Len(bs)
  BY DEF arena_temp_begin
<1>5. r.m = [arena |-> r.m.arena, memory |-> r.m.memory] /\ r.m.arena \in Arenas
      /\ r.m.arena.prot = "rw"
  BY <1>2 DEF Good, Writable
<1>6. CASE cs = <<>>
  <2>1. k = r.m
    BY <1>1, <1>6 DEF arena_temp_end
  <2>2. bs = <<>>
    BY <1>2, <1>3, <1>6 DEF Filled
  <2> QED BY <1>2, <2>1, <2>2
<1>7. CASE cs # <<>> /\ bs = <<>>
  <2>1. pos.block = 0
    BY <1>4, <1>7
  <2>2. k = [r.m EXCEPT !.memory = Unmapped(@, BytesAfter(cs, 1))]
    BY <1>1, <1>7, <2>1 DEF arena_temp_end
  <2>3. k = [arena |-> r.m.arena, memory |-> Unmapped(r.m.memory, BytesAfter(cs, 1))]
    BY <1>5, <2>2
  <2> HIDE DEF bs, cs
  <2>4. Len(cs) = 1
    <3> DEFINE l == Len(cs)
    <3>1. l \in Nat /\ l # 0
      BY <1>3, <1>7
    <3>2. l <= 1
      BY <1>2, <1>7, Zenon
    <3> HIDE DEF l
    <3>3. l = 1
      BY <3>1, <3>2
    <3> QED BY <3>3 DEF l
  <2>5. Good(k) /\ Writable(k)
    <3>1. 1 \in 1 .. Len(cs)
      BY <2>4
    <3> QED BY <1>2, <1>3, <1>5, <2>3, <2>4, <3>1, UnmappedGood DEF cs
  <2> QED BY <1>7, <2>5 DEF bs
<1>8. CASE cs # <<>> /\ bs # <<>>
  <2> DEFINE n == Len(bs)
             b == [cs[n] EXCEPT !.offset = bs[n].offset]
             ds == [SubSeq(cs, 1, n) EXCEPT ![n] = b]
             a == [r.m.arena EXCEPT !.blocks = ds]
  <2>1. n \in Nat \ {0} /\ n \in 1 .. Len(cs) /\ n \in 1 .. n
    BY <1>2, <1>3, <1>8 DEF Filled
  <2>2. pos.block # 0 /\ pos.block = n /\ pos.offset = bs[n].offset
    BY <1>4, <1>8, <2>1 DEF arena_temp_begin, Newest
  <2>3. SubSeq(cs, 1, n) \in Seq(BlockType) /\ Len(SubSeq(cs, 1, n)) = n
        /\ \A i \in 1 .. n : SubSeq(cs, 1, n)[i] = cs[i]
    BY <1>3, <2>1
  <2>4. k = [arena |-> a, memory |-> Unmapped(r.m.memory, BytesAfter(cs, n))]
    BY <1>1, <1>8, <2>1, <2>2, <2>3 DEF arena_temp_end
  <2>5. bs[n].offset \in Nat /\ cs[n] \in BlockType
    BY <1>3, <2>1, BlockFields
  <2>6. /\ b \in BlockType
        /\ b.base = cs[n].base /\ b.size = cs[n].size /\ b.offset = bs[n].offset
    <3> HIDE DEF n, bs, cs
    <3> QED BY <2>5, BlockExcept
  <2>7. ds \in Seq(BlockType) /\ Len(ds) = n /\ ds[n] = b
        /\ \A i \in 1 .. n : i # n => ds[i] = cs[i]
    <3> DEFINE es == SubSeq(cs, 1, n)
    <3>1. es \in Seq(BlockType) /\ Len(es) = n /\ (\A i \in 1 .. n : es[i] = cs[i])
          /\ ds = [es EXCEPT ![n] = b]
      BY <2>3
    <3> HIDE DEF b, es, ds, n
    <3> QED BY <2>1, <2>6, <3>1
  <2>8. a \in Arenas /\ a.blocks = ds /\ a.prot = "rw"
    <3> HIDE DEF ds
    <3> QED BY <1>5, <2>7 DEF Arenas
  <2> HIDE DEF n, b, ds, a, bs, cs
  <2>9. \A i \in 1 .. n : ds[i].base = cs[i].base /\ ds[i].size = cs[i].size
    BY <2>6, <2>7
  <2>10. \A i \in 1 .. n : cs[i].base = bs[i].base /\ bs[i].offset <= cs[i].offset
                           /\ (i # Len(cs) => cs[i].offset = bs[i].offset)
    BY <1>2 DEF Filled, n
  <2>11. \A i \in 1 .. n : ds[i].base = bs[i].base /\ ds[i].offset = bs[i].offset
    <3>1. \A i \in 1 .. n : i # n => i # Len(cs)
      BY <2>1, <1>3
    <3> QED BY <2>6, <2>7, <2>9, <2>10, <3>1
  <2>12. BlocksOk(ds)
    <3>1. \A i \in 1 .. n : i \in 1 .. Len(cs)
      BY <2>1, <1>3
    <3>2. \A i \in 1 .. n : HEADER <= ds[i].offset /\ ds[i].offset <= ds[i].size
      <4> TAKE i \in 1 .. n
      <4>1. HEADER <= bs[i].offset /\ bs[i].offset \in Nat
        BY <1>3, BlockFields DEF BlocksOk, n
      <4>2. cs[i].offset <= cs[i].size /\ cs[i].offset \in Nat /\ cs[i].size \in Nat
        BY <1>3, <3>1, BlockFields DEF BlocksOk
      <4>3. bs[i].offset <= cs[i].offset
        BY <2>10
      <4>4. bs[i].offset <= cs[i].size
        BY ONLY <4>1, <4>2, <4>3
      <4> QED BY <2>9, <2>11, <4>1, <4>4
    <3> QED BY <1>3, <2>7, <2>9, <3>1, <3>2 DEF BlocksOk, Apart
  <2>13. Good(k) /\ Writable(k)
    BY <1>2, <2>1, <2>4, <2>7, <2>8, <2>9, <2>12, UnmappedGood DEF cs
  <2>14. k.arena.blocks = ds
    BY <2>4, <2>8
  <2> QED BY <2>7, <2>11, <2>13, <2>14 DEF n, bs
<1> QED BY <1>6, <1>7, <1>8

-----------------------------------------------------------------------------
(* The life of an arena *)

Before(o, p) == o.addr + o.size <= p.addr

\* Every object lies in the part of a block that has been given out.
Inside(bs, os) == \A o \in os :
    /\ o.addr \in Nat /\ o.size \in Nat
    /\ \E i \in 1 .. Len(bs) : /\ bs[i].base + HEADER <= o.addr
                               /\ o.addr + o.size <= bs[i].base + bs[i].offset

\* The inductive invariant.
Inv ==
    /\ Good(State)
    /\ life = "filling" => Writable(State)
    /\ life = "sealed" => \A x \in DOMAIN memory : memory[x] = "rx"
    /\ life = "freed" => arena.blocks = <<>>
    /\ Inside(arena.blocks, objects)
    /\ \A o, p \in objects : o = p \/ Before(o, p) \/ Before(p, o)

\* The state the operations work on.
LEMMA StateFields ==
    /\ State = [arena |-> arena, memory |-> memory]
    /\ State.arena = arena /\ State.memory = memory
  BY DEF State

\* An operation's outcome becomes the state.
LEMMA NewState ==
    ASSUME NEW m, Good(m), BecomesState(m)
    PROVE  State' = m /\ arena' = m.arena /\ memory' = m.memory
  BY DEF BecomesState, State, Good

\* Objects stay inside when blocks keep their place and what they hold.
LEMMA InsideFilled ==
    ASSUME NEW bs \in Seq(BlockType), NEW cs \in Seq(BlockType), Len(bs) <= Len(cs),
           \A i \in 1 .. Len(bs) : cs[i].base = bs[i].base /\ bs[i].offset <= cs[i].offset,
           NEW os, Inside(bs, os)
    PROVE  Inside(cs, os)
<1> SUFFICES ASSUME NEW o \in os
             PROVE  /\ o.addr \in Nat /\ o.size \in Nat
                    /\ \E i \in 1 .. Len(cs) : /\ cs[i].base + HEADER <= o.addr
                                               /\ o.addr + o.size <= cs[i].base + cs[i].offset
  BY DEF Inside
<1>1. o.addr \in Nat /\ o.size \in Nat
  BY DEF Inside
<1>2. PICK i \in 1 .. Len(bs) : /\ bs[i].base + HEADER <= o.addr
                                /\ o.addr + o.size <= bs[i].base + bs[i].offset
  BY DEF Inside
<1>3. i \in 1 .. Len(cs)
  OBVIOUS
<1>4. bs[i].base \in Nat /\ bs[i].offset \in Nat /\ cs[i].offset \in Nat
  BY <1>3, BlockFields
<1>5. cs[i].base = bs[i].base /\ bs[i].offset <= cs[i].offset
  OBVIOUS
<1>6. o.addr + o.size <= bs[i].base + cs[i].offset
  BY ONLY <1>1, <1>2, <1>4, <1>5
<1> QED BY <1>1, <1>2, <1>3, <1>5, <1>6

\* A span inside one block is before what is inside a later one.
LEMMA SpanBefore ==
    ASSUME NEW b \in Nat, NEW l \in Nat, NEW c \in Nat,
           NEW a \in Nat, NEW s \in Nat, NEW d \in Nat,
           a + s <= b + l, b + l <= c, c <= d
    PROVE  a + s <= d
OBVIOUS

\* A new object is inside its block and apart from the others.
LEMMA ObjectPlaced ==
    ASSUME NEW bs \in Seq(BlockType), NEW cs \in Seq(BlockType), BlocksOk(cs), Filled(bs, cs),
           NEW os, Inside(bs, os),
           NEW o, o.addr \in Nat, o.size \in Nat, Placed(bs, cs, o.addr, o.size)
    PROVE  /\ Inside(cs, os \cup {o})
           /\ \A p \in os : Before(p, o) \/ Before(o, p)
<1> DEFINE n == Len(cs)
<1>1. Inside(cs, os)
  BY InsideFilled DEF Filled
<1>2. /\ n \in 1 .. n
      /\ cs[n].base + HEADER <= o.addr
      /\ o.addr + o.size <= cs[n].base + cs[n].offset
      /\ n <= Len(bs) => bs[n].base + bs[n].offset <= o.addr
  BY DEF Placed
<1>3. Inside(cs, os \cup {o})
  BY <1>1, <1>2 DEF Inside
<1>4. ASSUME NEW p \in os PROVE Before(p, o) \/ Before(o, p)
  <2>1. p.addr \in Nat /\ p.size \in Nat
    BY DEF Inside
  <2>2. PICK i \in 1 .. Len(bs) : /\ bs[i].base + HEADER <= p.addr
                                  /\ p.addr + p.size <= bs[i].base + bs[i].offset
    BY DEF Inside
  <2>3. /\ i \in 1 .. n
        /\ cs[i].base = bs[i].base
        /\ bs[i].offset <= cs[i].offset
    BY DEF Filled
  <2>4. /\ cs[i].base \in Nat /\ cs[i].offset \in Nat /\ cs[i].size \in Nat
        /\ cs[n].base \in Nat /\ cs[n].offset \in Nat /\ cs[n].size \in Nat
        /\ bs[i].offset \in Nat
    BY <1>2, <2>3, BlockFields
  <2>5. CASE i = n
    <3>1. bs[n].base + bs[n].offset <= o.addr
      BY <1>2, <2>2, <2>5
    <3>2. p.addr + p.size <= bs[n].base + bs[n].offset
      BY <2>2, <2>5
    <3>3. bs[n].base \in Nat /\ bs[n].offset \in Nat
      BY <2>5, BlockFields
    <3> HIDE DEF n
    <3> QED BY ONLY <2>1, <3>1, <3>2, <3>3, o.addr \in Nat DEF Before
  <2>6. CASE i # n
    <3>1. Apart(cs[i], cs[n])
      BY <1>2, <2>3, <2>6 DEF BlocksOk
    <3>2. cs[i].offset <= cs[i].size /\ cs[n].offset <= cs[n].size
      BY <1>2, <2>3 DEF BlocksOk
    <3>3. cs[i].base + HEADER <= p.addr /\ p.addr + p.size <= cs[i].base + bs[i].offset
      BY <2>2, <2>3
    <3> HIDE DEF n
    <3>4. cs[i].base <= p.addr /\ p.addr + p.size <= cs[i].base + cs[i].size
      <4>1. p.addr + p.size <= cs[i].base + cs[i].offset
        BY ONLY <2>1, <2>3, <2>4, <3>3, Raised
      <4> QED BY <2>1, <2>4, <3>2, <3>3, <4>1, InBlock, HeaderSize
    <3>5. cs[n].base <= o.addr /\ o.addr + o.size <= cs[n].base + cs[n].size
      BY <1>2, <2>4, <3>2, InBlock, HeaderSize
    <3>6. \/ cs[i].base + cs[i].size <= cs[n].base
          \/ cs[n].base + cs[n].size <= cs[i].base
      BY <3>1, Zenon DEF Apart
    <3>7. p.addr + p.size <= o.addr \/ o.addr + o.size <= p.addr
      <4>1. CASE cs[i].base + cs[i].size <= cs[n].base
        <5>1. p.addr + p.size <= o.addr
          BY <2>1, <2>4, <3>4, <3>5, <4>1, SpanBefore, Zenon
        <5> QED BY <5>1, Zenon
      <4>2. CASE cs[n].base + cs[n].size <= cs[i].base
        <5>1. o.addr + o.size <= p.addr
          BY <2>1, <2>4, <3>4, <3>5, <4>2, SpanBefore, Zenon
        <5> QED BY <5>1, Zenon
      <4> QED BY <3>6, <4>1, <4>2
    <3> QED BY <3>7, Zenon DEF Before
  <2> QED BY <2>5, <2>6
<1> QED BY <1>3, <1>4

\* What Alloc does.
LEMMA AllocStep ==
    ASSUME Inv, NEW size \in Sizes, NEW align \in Aligns, Alloc(size, align)
    PROVE  /\ Inv'
           /\ UNCHANGED life /\ life = "filling"
           /\ \/ UNCHANGED objects
              \/ \E ptr \in Nat :
                    LET o == [addr |-> ptr, size |-> size, align |-> align] IN
                    /\ size # 0
                    /\ ptr % align = 0
                    /\ objects' = objects \cup {o}
                    /\ \A p \in objects : Before(p, o) \/ Before(o, p)
<1>1. PICK r \in arena_alloc_aligned(State, size, align) :
         /\ BecomesState(r.m)
         /\ objects' = IF r.ptr = NULL THEN objects
                       ELSE objects \cup {[addr |-> r.ptr, size |-> size, align |-> align]}
  BY DEF Alloc
<1>2. life = "filling" /\ life' = "filling" /\ UNCHANGED life
  BY DEF Alloc
<1>3. size \in Nat /\ align \in Nat \ {0}
  BY SizeAssumption
<1>4. Good(State) /\ Writable(State)
  BY <1>2 DEF Inv
<1>5. /\ Good(r.m) /\ Writable(r.m)
      /\ Filled(arena.blocks, r.m.arena.blocks)
      /\ r.ptr # NULL => /\ size # 0
                         /\ r.ptr \in Nat /\ r.ptr % align = 0
                         /\ Placed(arena.blocks, r.m.arena.blocks, r.ptr, size)
  BY <1>3, <1>4, AllocOk, StateFields
<1>6. State' = r.m /\ arena' = r.m.arena
  BY <1>1, <1>5, NewState
<1>7. Good(State)' /\ Writable(State)'
  BY <1>5, <1>6 DEF Good, Writable
<1>8. /\ arena.blocks \in Seq(BlockType) /\ arena'.blocks \in Seq(BlockType)
      /\ BlocksOk(arena'.blocks) /\ Filled(arena.blocks, arena'.blocks)
  BY <1>4, <1>5, <1>6, StateFields DEF Good, Arenas
<1>9. Inside(arena.blocks, objects) /\ \A o, p \in objects : o = p \/ Before(o, p) \/ Before(p, o)
  BY DEF Inv
<1>10. CASE r.ptr = NULL
  <2>1. UNCHANGED objects
    BY <1>1, <1>10
  <2>2. Inside(arena'.blocks, objects)
    BY <1>8, <1>9, InsideFilled DEF Filled
  <2>3. Inv'
    BY <1>2, <1>7, <1>9, <2>1, <2>2 DEF Inv, Inside, Before
  <2> QED BY <1>2, <2>1, <2>3
<1>11. CASE r.ptr # NULL
  <2> DEFINE o == [addr |-> r.ptr, size |-> size, align |-> align]
  <2>1. objects' = objects \cup {o}
    BY <1>1, <1>11
  <2>2. o.addr = r.ptr /\ o.size = size /\ r.ptr \in Nat
    BY <1>5, <1>11
  <2> HIDE DEF o
  <2>3. Placed(arena.blocks, arena'.blocks, o.addr, o.size)
    BY <1>5, <1>6, <1>11, <2>2
  <2>4. /\ Inside(arena'.blocks, objects \cup {o})
        /\ \A p \in objects : Before(p, o) \/ Before(o, p)
    BY <1>3, <1>8, <1>9, <2>2, <2>3, ObjectPlaced
  <2>5. \A a, b \in objects' : a = b \/ Before(a, b) \/ Before(b, a)
    BY <1>9, <2>1, <2>4
  <2>6. Inv'
    BY <1>2, <1>7, <2>1, <2>4, <2>5 DEF Inv, Inside, Before
  <2>7. r.ptr \in Nat /\ size # 0 /\ r.ptr % align = 0
    BY <1>5, <1>11
  <2> QED BY <1>2, <2>1, <2>4, <2>6, <2>7 DEF o
<1> QED BY <1>10, <1>11

\* What a conversion does.
LEMMA ScratchStep ==
    ASSUME Inv, NEW len \in Sizes, Scratch(len)
    PROVE  /\ Inv'
           /\ UNCHANGED <<objects, life>>
           /\ arena.blocks # <<>> => Position(arena.blocks)' = Position(arena.blocks)
<1>1. PICK k \in sv_to_int64(State, len) : BecomesState(k)
  BY DEF Scratch
<1>2. life = "filling" /\ life' = "filling" /\ UNCHANGED <<objects, life>>
  BY DEF Scratch
<1>3. Good(State) /\ Writable(State) /\ len \in Nat
  BY <1>2, SizeAssumption DEF Inv
<1>4. /\ Good(k) /\ Writable(k)
      /\ arena.blocks # <<>> =>
            /\ Len(k.arena.blocks) = Len(arena.blocks)
            /\ \A i \in 1 .. Len(arena.blocks) :
                  /\ k.arena.blocks[i].base = arena.blocks[i].base
                  /\ k.arena.blocks[i].offset = arena.blocks[i].offset
  BY <1>3, ScratchOk, StateFields
<1>5. State' = k /\ arena' = k.arena
  BY <1>1, <1>4, NewState
<1>6. Good(State)' /\ Writable(State)'
  BY <1>4, <1>5 DEF Good, Writable
<1>7. arena.blocks \in Seq(BlockType) /\ arena'.blocks \in Seq(BlockType)
  BY <1>3, <1>4, <1>5, StateFields DEF Good, Arenas
<1>8. Inside(arena'.blocks, objects)
  <2>1. CASE arena.blocks = <<>>
    <3>1. objects = {}
      BY <2>1 DEF Inv, Inside
    <3> QED BY <3>1 DEF Inside
  <2>2. CASE arena.blocks # <<>>
    <3>1. /\ Len(arena.blocks) <= Len(arena'.blocks)
          /\ \A i \in 1 .. Len(arena.blocks) :
                /\ arena'.blocks[i].base = arena.blocks[i].base
                /\ arena.blocks[i].offset <= arena'.blocks[i].offset
      BY <1>4, <1>5, <1>7, <2>2, BlockFields
    <3> QED BY <1>7, <3>1, InsideFilled DEF Inv
  <2> QED BY <2>1, <2>2
<1>9. Inv'
  BY <1>2, <1>6, <1>8 DEF Inv, Inside, Before
<1>10. arena.blocks # <<>> => Position(arena.blocks)' = Position(arena.blocks)
  BY <1>4, <1>5 DEF Position
<1> QED BY <1>2, <1>9, <1>10

\* What making the code executable does.
LEMMA SealStep ==
    ASSUME Inv, Seal
    PROVE  /\ Inv'
           /\ life = "filling" /\ life' \in {"sealed", "failed"} /\ UNCHANGED objects
<1>1. PICK r \in arena_set_prot(State, "rx") :
         BecomesState(r.m) /\ life' = IF r.ok THEN "sealed" ELSE "failed"
  BY DEF Seal
<1>2. life = "filling" /\ UNCHANGED objects
  BY DEF Seal
<1> DEFINE a(stop) == IF stop = 0 THEN [arena EXCEPT !.prot = "rx"] ELSE arena
           mem(stop) == Protect(memory, BytesAfter(arena.blocks, stop), "rx")
<1>3. PICK stop \in 0 .. Len(arena.blocks) :
         r = [ok |-> stop = 0, m |-> [arena |-> a(stop), memory |-> mem(stop)]]
  BY StateFields DEF arena_set_prot
<1>4. /\ arena' = a(stop)
      /\ memory' = mem(stop)
      /\ life' = IF stop = 0 THEN "sealed" ELSE "failed"
  BY <1>1, <1>3 DEF BecomesState
<1>5. arena \in Arenas /\ BlocksOk(arena.blocks) /\ DOMAIN memory = BytesAfter(arena.blocks, 0)
  BY StateFields DEF Inv, Good
<1>6. arena' \in Arenas /\ arena'.blocks = arena.blocks
  BY <1>4, <1>5 DEF Arenas, Protections
<1>7. DOMAIN memory' = DOMAIN memory
  BY <1>4 DEF Protect
<1>8. life' = "sealed" => \A x \in DOMAIN memory' : memory'[x] = "rx"
  BY <1>4, <1>5, <1>7 DEF Protect
<1>9. Good(State)'
  BY <1>5, <1>6, <1>7 DEF Good, State
<1>10. Inv'
  BY <1>2, <1>4, <1>6, <1>8, <1>9 DEF Inv, Inside, Before
<1> QED BY <1>2, <1>4, <1>10

\* What freeing the arena does.
LEMMA FreeStep ==
    ASSUME Inv, arena_free
    PROVE  Inv' /\ life # "freed" /\ life' = "freed" /\ objects' = {}
<1>1. /\ life # "freed" /\ life' = "freed" /\ objects' = {}
      /\ arena' = [arena EXCEPT !.blocks = <<>>]
      /\ memory' = Unmapped(memory, BytesAfter(arena.blocks, 0))
  BY DEF arena_free
<1>2. arena \in Arenas /\ DOMAIN memory = BytesAfter(arena.blocks, 0)
  BY StateFields DEF Inv, Good
<1>3. <<>> \in Seq(BlockType)
  OBVIOUS
<1>4. arena' \in Arenas /\ arena'.blocks = <<>>
  BY <1>1, <1>2, <1>3 DEF Arenas
<1>5. DOMAIN memory' = {}
  BY <1>1, <1>2 DEF Unmapped
<1>6. BytesAfter(<<>>, 0) = {}
  BY NoBytes
<1>7. BlocksOk(<<>>)
  BY DEF BlocksOk
<1>8. Good(State)'
  BY <1>4, <1>5, <1>6, <1>7 DEF Good, State
<1> QED BY <1>1, <1>4, <1>8 DEF Inv, Inside

\* The invariant holds throughout the life of an arena.
LEMMA Invariance == Spec => []Inv
<1>1. Init => Inv
  <2> SUFFICES ASSUME Init PROVE Inv
    OBVIOUS
  <2>1. <<>> \in Seq(BlockType)
    OBVIOUS
  <2>2. /\ arena = [blocks |-> <<>>, prot |-> "rw"] /\ DOMAIN memory = {}
        /\ objects = {} /\ life = "filling"
    BY DEF Init, arena_init
  <2>3. arena \in Arenas /\ arena.blocks = <<>> /\ arena.prot = "rw"
    BY <2>1, <2>2 DEF Arenas, Protections
  <2>4. BytesAfter(<<>>, 0) = {}
    BY NoBytes
  <2>5. BlocksOk(<<>>)
    BY DEF BlocksOk
  <2>6. Good(State) /\ Writable(State)
    BY <2>2, <2>3, <2>4, <2>5 DEF Good, Writable, State
  <2> QED BY <2>2, <2>6 DEF Inv, Inside
<1>2. Inv /\ [Next]_vars => Inv'
  <2> SUFFICES ASSUME Inv, [Next]_vars PROVE Inv'
    OBVIOUS
  <2>1. CASE UNCHANGED vars
    BY <2>1 DEF Inv, vars, Good, Writable, State, Inside, Before
  <2> QED BY <2>1, AllocStep, ScratchStep, SealStep, FreeStep DEF Next
<1> QED BY <1>1, <1>2, PTL DEF Spec

-----------------------------------------------------------------------------
(* Theorems *)

\* Live objects are in mapped memory, off the headers and off each other, whatever
\* the kernel answers and however blocks are extended, chained and given back.
THEOREM ObjectsSafe == Spec => []ObjectsApart
<1>1. Inv => ObjectsApart
  <2> SUFFICES ASSUME Inv PROVE ObjectsApart
    OBVIOUS
  <2> DEFINE bs == arena.blocks
  <2>1. bs \in Seq(BlockType) /\ BlocksOk(bs) /\ DOMAIN memory = BytesAfter(bs, 0)
    BY StateFields DEF Inv, Good, Arenas
  <2>2. ASSUME NEW o \in objects
        PROVE  /\ ObjectBytes(o) \subseteq DOMAIN memory
               /\ \A b \in Blocks : ObjectBytes(o) \cap HeaderBytes(b) = {}
    <3>1. o.addr \in Nat /\ o.size \in Nat
      BY DEF Inv, Inside
    <3>2. PICK i \in 1 .. Len(bs) : /\ bs[i].base + HEADER <= o.addr
                                    /\ o.addr + o.size <= bs[i].base + bs[i].offset
      BY DEF Inv, Inside
    <3> HIDE DEF bs
    <3>3. /\ bs[i].base \in Nat /\ bs[i].size \in Nat /\ bs[i].offset \in Nat
          /\ bs[i].offset <= bs[i].size
      BY <2>1, BlockFields DEF BlocksOk
    <3>4. ASSUME NEW x \in ObjectBytes(o) PROVE x \in DOMAIN memory
      <4>1. x \in Int /\ o.addr <= x /\ x < o.addr + o.size
        BY <3>1 DEF ObjectBytes, Span
      <4>2. Within(x, bs[i])
        BY ONLY <3>1, <3>2, <3>3, <4>1, HeaderSize, SMTT(30) DEF Within
      <4> QED BY <2>1, <4>2, InBytes
    <3>5. ASSUME NEW b \in Blocks PROVE ObjectBytes(o) \cap HeaderBytes(b) = {}
      <4>1. PICK j \in 1 .. Len(bs) : b = bs[j]
        BY DEF Blocks, bs
      <4>2. b.base \in Nat /\ b.size \in Nat /\ b.offset \in Nat
            /\ HEADER <= b.offset /\ b.offset <= b.size
        BY <2>1, <4>1, BlockFields DEF BlocksOk
      <4>3. b.base + HEADER <= o.addr \/ o.addr + o.size <= b.base
        <5>1. CASE i = j
          BY <3>2, <4>1, <5>1
        <5>2. CASE i # j
          <6>1. Apart(bs[i], b)
            BY <2>1, <4>1, <5>2 DEF BlocksOk
          <6>2. bs[i].base <= o.addr /\ o.addr + o.size <= bs[i].base + bs[i].size
            BY <3>1, <3>2, <3>3, InBlock, HeaderSize
          <6>3. b.base <= b.base /\ b.base + HEADER <= b.base + b.size
            BY ONLY <4>2, HeaderSize
          <6>4. bs[i].base + bs[i].size <= b.base \/ b.base + b.size <= bs[i].base
            BY <6>1, Zenon DEF Apart
          <6>5. CASE bs[i].base + bs[i].size <= b.base
            BY ONLY <3>1, <3>3, <4>2, <6>2, <6>5, SMTT(30)
          <6>6. CASE b.base + b.size <= bs[i].base
            <7>1. b.base + HEADER \in Int /\ b.base + b.size \in Int
              BY ONLY <4>2, HeaderSize
            <7>2. b.base + HEADER <= o.addr
              BY ONLY <3>1, <3>3, <6>2, <6>3, <6>6, <7>1, Chained
            <7> QED BY <7>2, Zenon
          <6> QED BY <6>4, <6>5, <6>6
        <5> QED BY <5>1, <5>2
      <4> QED BY <3>1, <4>2, <4>3, Spans, HeaderSize DEF ObjectBytes, HeaderBytes
    <3> QED BY <3>4, <3>5
  <2>3. ASSUME NEW o \in objects, NEW p \in objects
        PROVE  o = p \/ ObjectBytes(o) \cap ObjectBytes(p) = {}
    <3>1. /\ o.addr \in Nat /\ o.size \in Nat
          /\ p.addr \in Nat /\ p.size \in Nat
          /\ o = p \/ Before(o, p) \/ Before(p, o)
      BY DEF Inv, Inside
    <3> QED BY <3>1, Spans DEF Before, ObjectBytes
  <2> QED BY <2>2, <2>3 DEF ObjectsApart
<1> QED BY <1>1, Invariance, PTL

\* The chain of blocks covers exactly what is mapped, and nothing is mapped once
\* the arena was freed.
THEOREM NothingLost == Spec => []MappedExactly
<1>1. Inv => MappedExactly
  <2> SUFFICES ASSUME Inv PROVE MappedExactly
    OBVIOUS
  <2>1. DOMAIN memory = BytesAfter(arena.blocks, 0)
    BY StateFields DEF Inv, Good
  <2> QED BY <2>1, NoBytes DEF MappedExactly, Inv
<1> QED BY <1>1, Invariance, PTL

\* Memory is never writable and executable at once.
THEOREM WriteOrExecute == Spec => []WriteXorExecute
<1>1. Inv => WriteXorExecute
  BY StateFields DEF Inv, Writable, WriteXorExecute
<1> QED BY <1>1, Invariance, PTL

\* Converting a number leaves an arena in use at the position where it was.
THEOREM ScratchGivesBack == Spec => ScratchReturned
<1>1. Inv /\ [Next]_vars =>
         [(\E len \in Sizes : Scratch(len)) /\ arena.blocks # <<>>
             => Position(arena.blocks') = Position(arena.blocks)]_vars
  BY ScratchStep
<1> QED BY <1>1, Invariance, PTL DEF Spec, ScratchReturned

\* The arena implements a pool.
THEOREM ArenaImplementsPool == Spec => ImplementsPool
<1>1. Init => Promise!Init
  BY DEF Init, Promise!Init
<1>2. Inv /\ Inv' /\ [Next]_vars => [Promise!Next]_(Promise!vars)
  <2> SUFFICES ASSUME Inv, Inv', [Next]_vars PROVE [Promise!Next]_(Promise!vars)
    OBVIOUS
  <2>1. ASSUME NEW size \in Sizes, NEW align \in Aligns, Alloc(size, align)
        PROVE  [Promise!Next]_(Promise!vars)
    <3>1. UNCHANGED life /\ life = "filling"
      BY <2>1, AllocStep
    <3>2. CASE UNCHANGED objects
      BY <3>1, <3>2 DEF Promise!vars
    <3>3. CASE \E ptr \in Nat :
                  LET o == [addr |-> ptr, size |-> size, align |-> align] IN
                  /\ size # 0
                  /\ ptr % align = 0
                  /\ objects' = objects \cup {o}
                  /\ \A p \in objects : Before(p, o) \/ Before(o, p)
      <4>1. PICK ptr \in Nat :
                  LET o == [addr |-> ptr, size |-> size, align |-> align] IN
                  /\ size # 0
                  /\ ptr % align = 0
                  /\ objects' = objects \cup {o}
                  /\ \A p \in objects : Before(p, o) \/ Before(o, p)
        BY <3>3
      <4> DEFINE o == [addr |-> ptr, size |-> size, align |-> align]
      <4>2. size \in Nat \ {0} /\ align \in Nat \ {0}
        BY <4>1, SizeAssumption
      <4>3. o.addr = ptr /\ o.size = size /\ o \in objects'
        BY <4>1
      <4>4. Promise!Bytes(o) \subseteq Addresses /\ ptr \in Addresses
        <5> DEFINE bs == arena'.blocks
        <5>1. bs \in Seq(BlockType) /\ BlocksOk(bs)
          BY DEF Inv, Good, Arenas, State
        <5> HIDE DEF o
        <5>2. PICK i \in 1 .. Len(bs) : /\ bs[i].base + HEADER <= o.addr
                                        /\ o.addr + o.size <= bs[i].base + bs[i].offset
          BY <4>3 DEF Inv, Inside
        <5> HIDE DEF bs
        <5>3. /\ bs[i].base \in Nat /\ bs[i].size \in Nat /\ bs[i].offset \in Nat
              /\ bs[i].offset <= bs[i].size
              /\ PAGE <= bs[i].base
              /\ bs[i].base + bs[i].size <= TOP
          BY <5>1, BlockFields DEF BlocksOk
        <5>4. PAGE <= ptr /\ ptr + size <= TOP
          <6> DEFINE b == bs[i].base
                     m == bs[i].size
                     k == bs[i].offset
          <6>1. b \in Nat /\ m \in Nat /\ k \in Nat /\ k <= m /\ PAGE <= b /\ b + m <= TOP
            BY <5>3
          <6>2. b + HEADER <= ptr /\ ptr + size <= b + k
            BY <4>3, <5>2
          <6> HIDE DEF b, m, k
          <6>3. PAGE \in Nat /\ TOP \in Nat /\ size \in Nat
            BY <4>2, PageAssumption, SizeAssumption
          <6> QED BY ONLY <6>1, <6>2, <6>3, ptr \in Nat, HeaderSize
        <5> QED BY ONLY <4>2, <4>3, <5>4, ptr \in Nat, PageAssumption, SizeAssumption
                DEF Promise!Bytes, Addresses
      <4>5. ASSUME NEW p \in objects PROVE Promise!Bytes(p) \cap Promise!Bytes(o) = {}
        <5>1. p.addr \in Nat /\ p.size \in Nat
          BY DEF Inv, Inside
        <5>2. Before(p, o) \/ Before(o, p)
          BY <4>1
        <5> HIDE DEF o
        <5>3. Span(p.addr, p.size) \cap Span(o.addr, o.size) = {}
          BY <4>2, <4>3, <5>1, <5>2, Spans DEF Before
        <5> QED BY <5>3 DEF Promise!Bytes, Span
      <4>6. Promise!Alloc
        <5>1. /\ life = "filling"
              /\ ptr % align = 0
              /\ Promise!Bytes(o) \subseteq Addresses
              /\ \A p \in objects : Promise!Bytes(p) \cap Promise!Bytes(o) = {}
              /\ objects' = objects \cup {o}
              /\ UNCHANGED life
          BY <3>1, <4>1, <4>4, <4>5
        <5>2. size \in Sizes \ {0} /\ ptr \in Addresses
          BY <4>2, <4>4
        <5> QED BY <5>1, <5>2, Zenon DEF Promise!Alloc
      <4> QED BY <4>6 DEF Promise!Next
    <3> QED BY <2>1, <3>2, <3>3, AllocStep
  <2>2. ASSUME NEW len \in Sizes, Scratch(len) PROVE [Promise!Next]_(Promise!vars)
    BY <2>2, ScratchStep DEF Promise!vars
  <2>3. CASE Seal
    BY <2>3, SealStep DEF Promise!Next, Promise!Seal
  <2>4. CASE arena_free
    BY <2>4, FreeStep DEF Promise!Next, Promise!Free
  <2>5. CASE UNCHANGED vars
    BY <2>5 DEF vars, Promise!vars
  <2> QED BY <2>1, <2>2, <2>3, <2>4, <2>5 DEF Next
<1> QED BY <1>1, <1>2, Invariance, PTL DEF Spec, ImplementsPool, Promise!Spec
=============================================================================
