------------------------- MODULE TegraStreamProofs -------------------------
(***************************************************************************)
(* Proofs about TegraStream for every page size, growth, bound and set of  *)
(* targets, classes and fences: no word is written outside of a command    *)
(* buffer, the words that are left out are known, fences and buffers are   *)
(* counted exactly, and both interfaces implement CommandStream.           *)
(***************************************************************************)
EXTENDS TegraStream, FiniteSetTheorems, SequenceTheorems, WellFoundedInduction, TLAPS

-----------------------------------------------------------------------------
(* Command buffers that are as they should be.                             *)

Ops == {"data", "wait", "class", "op_done", "rd_done", "reloc", "hole", "slot", "host1x",
        "opcode"}
Words == [op : Ops, arg : Targets \cup Classes \cup {None} \cup Nat]
Buffers == [cap : Nat, mem : Seq(Words)]
Pushes == [bufs : Seq(Buffers), cur : Nat, cmdbufs : Seq([buf : Nat, words : Nat]),
           relocs : SUBSET [buf : Nat, at : Nat, target : Targets], increments : Nat,
           refs : Nat, maps : Nat, table : Seq(Targets), slots : Nat]

\* Who holds what, of the two interfaces; and every buffer is large enough, but for
\* the word tegra_stream_end_v2 does not prepare.
HeldV1(p) == /\ p.cur \in 0..Len(p.bufs)
             /\ p.refs = Len(p.bufs)
             /\ p.maps = IF p.cur = 0 THEN 0 ELSE 1
HeldV2(p) == Len(p.bufs) = 1 /\ p.cur = 1 /\ p.refs = 0 /\ p.maps = 0
Fit(p) == "full_end" \notin Admits =>
            \A b \in DOMAIN p.bufs : Len(p.bufs[b].mem) <= p.bufs[b].cap

GoodV1(p) == p \in Pushes /\ HeldV1(p) /\ Fit(p)
GoodV2(p) == p \in Pushes /\ HeldV2(p) /\ Fit(p)

\* What is in the buffers that are listed and in the current one is the stream ws:
\* a listed buffer is complete, a relocation is at a word that was written.
Patch(p, b) == [i \in 1..Len(p.bufs[b].mem) |-> Patched(p, b, i)]
WholeV1(p, ws) ==
  /\ p.cur # 0
  /\ \A k \in DOMAIN p.cmdbufs : /\ p.cmdbufs[k].buf \in DOMAIN p.bufs \ {p.cur}
                                 /\ p.cmdbufs[k].words = Len(p.bufs[p.cmdbufs[k].buf].mem)
  /\ \A r \in p.relocs : r.buf \in DOMAIN p.bufs /\ r.at \in 1..Len(p.bufs[r.buf].mem)
  /\ ReceivedV1(p) \o Patch(p, p.cur) = ws
WholeV2(p, ws) ==
  /\ \A i \in DOMAIN p.bufs[1].mem : p.bufs[1].mem[i].op = "slot" =>
       p.bufs[1].mem[i].arg \in DOMAIN p.table
  /\ ReceivedV2(p) = ws

-----------------------------------------------------------------------------
(* Induction, by a least counterexample; maxima; what FlattenSeq joins.    *)

Less == {pair \in Nat \X Nat : pair[1] < pair[2]}

LEMMA Least ==
  ASSUME NEW T \in SUBSET Nat, T # {}
  PROVE  \E x \in T : \A y \in T : x <= y
<1>1. IsWellFoundedOn(Less, Nat)  BY NatLessThanWellFounded, Zenon DEF OpToRel, Less
<1>2. PICK x \in T : \A y \in T : ~(<<y, x>> \in Less)  BY <1>1, WFMin
<1>3. \A y \in T : ~(y < x)  BY <1>2 DEF Less
<1> QED  BY <1>3

LEMMA MaxIn ==
  ASSUME NEW n \in Nat, NEW T \in SUBSET (1..n), T # {}
  PROVE  Max(T) \in T /\ \A y \in T : y <= Max(T)
<1> DEFINE Above == {m \in Nat : \A y \in T : y <= m}
<1>1. Above # {}
  <2>1. n \in Above  OBVIOUS
  <2> QED  BY <2>1
<1>2. PICK m \in Above : \A a \in Above : m <= a  BY <1>1, Least
<1>3. m \in T
  <2> SUFFICES ASSUME m \notin T PROVE FALSE  OBVIOUS
  <2>1. PICK y \in T : TRUE  OBVIOUS
  <2>2. y \in 1..n /\ y <= m  BY <1>2, <2>1
  <2>3. m - 1 \in Nat /\ ~(m <= m - 1)  BY <1>2, <2>2
  <2>4. \A z \in T : z <= m - 1
    <3> TAKE z \in T
    <3>1. z \in 1..n /\ z <= m /\ z # m  BY <1>2
    <3> QED  BY <3>1, <1>2
  <2> QED  BY <2>3, <2>4, <1>2
<1>4. \E x \in T : \A y \in T : x >= y  BY <1>2, <1>3
<1>5. Max(T) \in T /\ \A y \in T : Max(T) >= y  BY <1>4, Zenon DEF Max
<1> QED  BY <1>5

\* The larger one of two.
LEMMA MaxOfTwo ==
  ASSUME NEW a \in Int, NEW b \in Int
  PROVE  Max({a, b}) = IF a >= b THEN a ELSE b
<1> DEFINE m == IF a >= b THEN a ELSE b
<1>1. m \in {a, b} /\ \A y \in {a, b} : m >= y  OBVIOUS
<1>2. Max({a, b}) \in {a, b} /\ \A y \in {a, b} : Max({a, b}) >= y
  <2>1. \E x \in {a, b} : \A y \in {a, b} : x >= y  BY <1>1
  <2> QED  BY <2>1, Zenon DEF Max
<1> HIDE DEF m
<1>3. m \in Int  BY <1>1
<1>4. Max({a, b}) >= m /\ m >= Max({a, b})  BY <1>1, <1>2
<1>5. Max({a, b}) \in Int  BY <1>2
<1>6. Max({a, b}) = m  BY <1>3, <1>4, <1>5
<1> QED  BY <1>6 DEF m

\* The partial joins of a sequence of sequences, and what they are up to.
Joins(f, s, n) == \A i \in 1..n : f[i] = IF i = 1 THEN s[i] ELSE f[i - 1] \o s[i]

HasJoins(S, s, n) == \E f \in [1..n -> Seq(S)] : Joins(f, s, n)

LEMMA JoinsExist ==
  ASSUME NEW S, NEW s \in Seq(Seq(S)), NEW n \in 0..Len(s)
  PROVE  HasJoins(S, s, n)
<1> DEFINE Bad == {k \in Nat : k <= Len(s) /\ ~HasJoins(S, s, k)}
<1> SUFFICES ASSUME ~HasJoins(S, s, n) PROVE FALSE  OBVIOUS
<1>1. PICK k \in Bad : \A j \in Bad : k <= j
  <2>1. Bad \in SUBSET Nat /\ n \in Bad
    <3>1. Len(s) \in Nat  BY LenProperties
    <3> QED  BY <3>1
  <2> HIDE DEF Bad
  <2> QED  BY <2>1, Least
<1>2. k \in Nat /\ k <= Len(s) /\ ~HasJoins(S, s, k)  BY <1>1
<1>3. k # 0
  <2>1. [i \in 1..0 |-> <<>>] \in [1..0 -> Seq(S)]  OBVIOUS
  <2>2. Joins([i \in 1..0 |-> <<>>], s, 0)  BY DEF Joins
  <2>3. HasJoins(S, s, 0)  BY <2>1, <2>2, Zenon DEF HasJoins
  <2> QED  BY <1>2, <2>3
<1>4. k - 1 \in Nat /\ ~(k <= k - 1) /\ k - 1 <= Len(s)  BY <1>2, <1>3
<1>5. HasJoins(S, s, k - 1)
  <2>1. k - 1 \notin Bad  BY <1>1, <1>4
  <2> QED  BY <2>1, <1>4
<1>6. PICK f \in [1..k - 1 -> Seq(S)] : Joins(f, s, k - 1)  BY <1>5 DEF HasJoins
<1> DEFINE last == IF k = 1 THEN s[k] ELSE f[k - 1] \o s[k]
           g == [i \in 1..k |-> IF i = k THEN last ELSE f[i]]
<1>7. k \in 1..Len(s) /\ s[k] \in Seq(S)  BY <1>2, <1>3, ElementOfSeq
<1>8. last \in Seq(S)
  <2>1. CASE k = 1  BY <2>1, <1>7
  <2>2. CASE k # 1
    <3>1. f[k - 1] \in Seq(S)  BY <2>2, <1>2, <1>3
    <3> QED  BY <2>2, <3>1, <1>7, ConcatProperties
  <2> QED  BY <2>1, <2>2
<1>9. g \in [1..k -> Seq(S)]
  <2>1. \A i \in 1..k : i # k => i \in 1..k - 1  BY <1>2
  <2> HIDE DEF last
  <2> QED  BY <2>1, <1>8
<1>10. Joins(g, s, k)
  <2> SUFFICES ASSUME NEW i \in 1..k PROVE g[i] = IF i = 1 THEN s[i] ELSE g[i - 1] \o s[i]
    BY DEF Joins
  <2>1. CASE i = k
    <3>1. g[i] = last  BY <2>1
    <3>2. CASE k = 1  BY <2>1, <3>1, <3>2
    <3>3. CASE k # 1
      <4>1. k - 1 \in 1..k /\ k - 1 # k  BY <3>3, <1>2, <1>3
      <4>2. g[k - 1] = f[k - 1]  BY <4>1
      <4> QED  BY <2>1, <3>1, <3>3, <4>2
    <3> QED  BY <3>2, <3>3
  <2>2. CASE i # k
    <3>1. i \in 1..k - 1 /\ g[i] = f[i]  BY <2>2, <1>2
    <3>2. f[i] = IF i = 1 THEN s[i] ELSE f[i - 1] \o s[i]  BY <3>1, <1>6 DEF Joins
    <3>3. i # 1 => i - 1 \in 1..k /\ i - 1 # k  BY <3>1, <1>2
    <3>4. i # 1 => g[i - 1] = f[i - 1]  BY <3>3
    <3> HIDE DEF g
    <3> QED  BY <3>1, <3>2, <3>4
  <2> QED  BY <2>1, <2>2
<1> HIDE DEF g
<1> QED  BY <1>2, <1>9, <1>10 DEF HasJoins

LEMMA JoinsUnique ==
  ASSUME NEW f, NEW g, NEW s, NEW t, NEW n \in Nat, NEW m \in Nat, n <= m,
         Joins(f, s, n), Joins(g, t, m), \A i \in 1..n : s[i] = t[i]
  PROVE  \A i \in 1..n : f[i] = g[i]
<1> DEFINE Bad == {i \in 1..n : f[i] # g[i]}
<1> SUFFICES ASSUME Bad # {} PROVE FALSE  OBVIOUS
<1>0. Bad \in SUBSET Nat  OBVIOUS
<1>1. PICK i \in Bad : \A j \in Bad : i <= j  BY <1>0, Least
<1>2. i \in 1..n /\ i \in 1..m /\ f[i] # g[i] /\ s[i] = t[i]  BY <1>1
<1>3. i # 1  BY <1>2 DEF Joins
<1>4. i - 1 \in 1..n /\ ~(i <= i - 1)  BY <1>2, <1>3
<1>5. f[i - 1] = g[i - 1]  BY <1>1, <1>4
<1> QED  BY <1>2, <1>3, <1>5 DEF Joins

LEMMA JoinsLast ==
  ASSUME NEW g, NEW t, NEW n \in Nat, n # 0, Joins(g, t, n + 1)
  PROVE  g[n + 1] = g[n] \o t[n + 1]
<1>1. PICK k \in 1..n + 1 : k = n + 1  OBVIOUS
<1>2. k # 1 /\ k - 1 = n  BY <1>1
<1>3. g[k] = g[k - 1] \o t[k]  BY <1>2 DEF Joins
<1> QED  BY <1>1, <1>2, <1>3

LEMMA FlattenIs ==
  ASSUME NEW S, NEW s \in Seq(Seq(S)), s # <<>>
  PROVE  \E f : /\ \A i \in 1..Len(s) : f[i] \in Seq(S)
                /\ Joins(f, s, Len(s)) /\ FlattenSeq(s) = f[Len(s)]
<1> DEFINE F(f) == [i \in 1..Len(s) |-> IF i = 1 THEN s[i] ELSE f[i - 1] \o s[i]]
           flat == CHOOSE f : f = F(f)
<1>1. Len(s) \in 0..Len(s) /\ Len(s) # 0 /\ Len(s) \in Nat  BY EmptySeq, LenProperties
<1>2. PICK f \in [1..Len(s) -> Seq(S)] : Joins(f, s, Len(s))  BY <1>1, JoinsExist DEF HasJoins
<1>3. f = F(f)
  <2>1. \A i \in 1..Len(s) : f[i] = F(f)[i]  BY <1>2 DEF Joins
  <2> QED  BY <2>1, <1>2
<1>4. flat = F(flat)  BY <1>3, Zenon
<1>5. Joins(flat, s, Len(s))
  <2> HIDE DEF flat
  <2> QED  BY <1>4 DEF Joins
<1>6. FlattenSeq(s) = flat[Len(s)]  BY <1>1, Zenon DEF FlattenSeq
<1> HIDE DEF flat
<1>7. \A i \in 1..Len(s) : f[i] = flat[i]  BY <1>1, <1>2, <1>5, JoinsUnique
<1>8. \A i \in 1..Len(s) : flat[i] \in Seq(S)  BY <1>7, <1>2
<1> QED  BY <1>5, <1>6, <1>8

LEMMA FlattenEmpty == FlattenSeq(<<>>) = <<>>
  BY EmptySeq, Zenon DEF FlattenSeq

LEMMA FlattenType ==
  ASSUME NEW S, NEW s \in Seq(Seq(S))
  PROVE  FlattenSeq(s) \in Seq(S)
<1>1. CASE s = <<>>  BY <1>1, FlattenEmpty, EmptySeq
<1>2. CASE s # <<>>
  <2>1. Len(s) \in 1..Len(s)  BY <1>2, EmptySeq, LenProperties
  <2> QED  BY <1>2, <2>1, FlattenIs
<1> QED  BY <1>1, <1>2

LEMMA FlattenAppend ==
  ASSUME NEW S, NEW s \in Seq(Seq(S)), NEW x \in Seq(S)
  PROVE  FlattenSeq(Append(s, x)) = FlattenSeq(s) \o x
<1> DEFINE t == Append(s, x)
           n == Len(s)
<1>1. /\ t \in Seq(Seq(S)) /\ t # <<>> /\ Len(t) = n + 1 /\ t[n + 1] = x
      /\ \A i \in 1..n : t[i] = s[i]
  BY AppendProperties
<1>2. n \in Nat  BY LenProperties
<1> HIDE DEF t
<1>3. PICK g : Joins(g, t, n + 1) /\ FlattenSeq(t) = g[n + 1]  BY <1>1, FlattenIs
<1>4. CASE s = <<>>
  <2>1. n = 0  BY <1>4, EmptySeq
  <2>2. g[1] = x  BY <1>1, <1>3, <2>1 DEF Joins
  <2> QED  BY <1>3, <1>4, <2>1, <2>2, FlattenEmpty, ConcatEmptySeq DEF t
<1>5. CASE s # <<>>
  <2>1. n # 0 /\ n \in 1..n /\ n + 1 \in 1..n + 1 /\ n + 1 # 1 /\ n + 1 - 1 = n
    BY <1>2, <1>5, EmptySeq
  <2>2. PICK f : Joins(f, s, n) /\ FlattenSeq(s) = f[n]  BY <1>5, FlattenIs
  <2>3. n + 1 \in Nat /\ n <= n + 1 /\ \A i \in 1..n : s[i] = t[i]  BY <1>1, <1>2
  <2>4. \A i \in 1..n : f[i] = g[i]  BY <1>2, <1>3, <2>2, <2>3, JoinsUnique
  <2>6. g[n + 1] = g[n] \o t[n + 1]  BY <1>2, <1>3, <2>1, JoinsLast
  <2>7. g[n + 1] = g[n] \o x  BY <1>1, <2>6
  <2> QED  BY <1>3, <2>1, <2>2, <2>4, <2>7 DEF t
<1> QED  BY <1>4, <1>5

-----------------------------------------------------------------------------
(* One change of the command buffers at a time.                            *)

LEMMA PushFields ==
  ASSUME NEW p \in Pushes
  PROVE  /\ p.bufs \in Seq(Buffers) /\ p.cur \in Nat
         /\ p.cmdbufs \in Seq([buf : Nat, words : Nat])
         /\ p.relocs \in SUBSET [buf : Nat, at : Nat, target : Targets]
         /\ p.increments \in Nat /\ p.refs \in Nat /\ p.maps \in Nat
         /\ p.table \in Seq(Targets) /\ p.slots \in Nat
         /\ Len(p.bufs) \in Nat /\ DOMAIN p.bufs = 1..Len(p.bufs)
         /\ \A b \in 1..Len(p.bufs) :
              /\ p.bufs[b] \in Buffers
              /\ p.bufs[b].cap \in Nat /\ p.bufs[b].mem \in Seq(Words)
              /\ Len(p.bufs[b].mem) \in Nat
              /\ DOMAIN p.bufs[b].mem = 1..Len(p.bufs[b].mem)
<1>1. p.bufs \in Seq(Buffers)  BY DEF Pushes
<1>2. \A b \in 1..Len(p.bufs) : p.bufs[b] \in Buffers  BY <1>1, ElementOfSeq
<1>3. \A b \in 1..Len(p.bufs) : p.bufs[b].cap \in Nat /\ p.bufs[b].mem \in Seq(Words)
  BY <1>2 DEF Buffers
<1>4. \A b \in 1..Len(p.bufs) : /\ Len(p.bufs[b].mem) \in Nat
                                /\ DOMAIN p.bufs[b].mem = 1..Len(p.bufs[b].mem)
  BY <1>3, LenProperties
<1>5. Len(p.bufs) \in Nat /\ DOMAIN p.bufs = 1..Len(p.bufs)  BY <1>1, LenProperties
<1> QED  BY <1>1, <1>2, <1>3, <1>4, <1>5 DEF Pushes

\* The fields that concern nothing but the buffers themselves.
Alike(p, q) ==
  /\ q.cur = p.cur /\ q.cmdbufs = p.cmdbufs /\ q.relocs = p.relocs
  /\ q.increments = p.increments /\ q.refs = p.refs /\ q.maps = p.maps
  /\ Len(q.bufs) = Len(p.bufs)

LEMMA WrittenIs ==
  ASSUME NEW p \in Pushes, p.cur \in 1..Len(p.bufs), NEW ws \in Seq(Words)
  PROVE  /\ Written(p, ws) \in Pushes /\ Alike(p, Written(p, ws))
         /\ Written(p, ws).table = p.table /\ Written(p, ws).slots = p.slots
         /\ \A b \in 1..Len(p.bufs) :
              /\ Written(p, ws).bufs[b].cap = p.bufs[b].cap
              /\ Written(p, ws).bufs[b].mem = IF b = p.cur THEN p.bufs[b].mem \o ws
                                                          ELSE p.bufs[b].mem
<1> DEFINE b == [Current(p) EXCEPT !.mem = @ \o ws]
           bs == [p.bufs EXCEPT ![p.cur] = b]
           q == Written(p, ws)
<1>1. /\ p.bufs \in Seq(Buffers) /\ Current(p) \in Buffers
      /\ Current(p).mem \in Seq(Words) /\ Current(p).cap \in Nat
  BY PushFields DEF Current
<1>2. Current(p).mem \o ws \in Seq(Words)  BY <1>1, ConcatProperties
<1>3. b \in Buffers /\ b.cap = Current(p).cap /\ b.mem = Current(p).mem \o ws
  BY <1>1, <1>2 DEF Buffers
<1>4. q = [p EXCEPT !.bufs = bs]  BY DEF Written, Current
<1> HIDE DEF b
<1>5. /\ bs \in Seq(Buffers) /\ Len(bs) = Len(p.bufs)
      /\ \A i \in 1..Len(p.bufs) : bs[i] = IF i = p.cur THEN b ELSE p.bufs[i]
  BY <1>1, <1>3, ExceptSeq
<1> HIDE DEF bs, q
<1>6. q \in Pushes /\ q.bufs = bs /\ Alike(p, q) /\ q.table = p.table /\ q.slots = p.slots
  BY <1>4, <1>5 DEF Pushes, Alike
<1> QED  BY <1>3, <1>5, <1>6 DEF q, Current

LEMMA NewBufferIs ==
  ASSUME NEW p \in Pushes, NEW n \in Nat, AlignUp(n) \in Nat
  PROVE  /\ NewBuffer(p, n) \in Pushes
         /\ NewBuffer(p, n).cur = Len(p.bufs) + 1
         /\ Len(NewBuffer(p, n).bufs) = Len(p.bufs) + 1
         /\ NewBuffer(p, n).refs = p.refs + 1 /\ NewBuffer(p, n).maps = p.maps + 1
         /\ NewBuffer(p, n).cmdbufs = p.cmdbufs /\ NewBuffer(p, n).relocs = p.relocs
         /\ NewBuffer(p, n).increments = p.increments
         /\ NewBuffer(p, n).bufs[Len(p.bufs) + 1] = [cap |-> AlignUp(n), mem |-> <<>>]
         /\ \A b \in 1..Len(p.bufs) : NewBuffer(p, n).bufs[b] = p.bufs[b]
<1> DEFINE new == [cap |-> AlignUp(n), mem |-> <<>>]
           bs == Append(p.bufs, new)
           q == NewBuffer(p, n)
<1>1. p.bufs \in Seq(Buffers) /\ Len(p.bufs) \in Nat  BY PushFields
<1>2. new \in Buffers  BY EmptySeq DEF Buffers
<1>3. q = [p EXCEPT !.bufs = bs, !.cur = Len(p.bufs) + 1, !.refs = @ + 1, !.maps = @ + 1]
  BY DEF NewBuffer
<1> HIDE DEF new
<1>4. /\ bs \in Seq(Buffers) /\ Len(bs) = Len(p.bufs) + 1 /\ bs[Len(p.bufs) + 1] = new
      /\ \A i \in 1..Len(p.bufs) : bs[i] = p.bufs[i]
  BY <1>1, <1>2, AppendProperties
<1> HIDE DEF bs, q
<1>5. /\ q \in Pushes /\ q.bufs = bs /\ q.cur = Len(p.bufs) + 1 /\ q.refs = p.refs + 1
      /\ q.maps = p.maps + 1 /\ q.cmdbufs = p.cmdbufs /\ q.relocs = p.relocs
      /\ q.increments = p.increments
  <2> DEFINE r == [p EXCEPT !.bufs = bs]
             s == [r EXCEPT !.cur = Len(p.bufs) + 1]
             t == [s EXCEPT !.refs = p.refs + 1]
  <2>1. /\ r \in Pushes /\ r.bufs = bs /\ r.refs = p.refs /\ r.maps = p.maps
        /\ r.cmdbufs = p.cmdbufs /\ r.relocs = p.relocs /\ r.increments = p.increments
    BY <1>4 DEF Pushes
  <2>2. q = [t EXCEPT !.maps = p.maps + 1]  BY <1>3 DEF Pushes
  <2> HIDE DEF r
  <2>a. s \in Pushes
    <3>1. Len(p.bufs) + 1 \in Nat  BY <1>1
    <3> QED  BY <2>1, <3>1 DEF Pushes
  <2>3. /\ s \in Pushes /\ s.bufs = bs /\ s.cur = Len(p.bufs) + 1 /\ s.refs = p.refs
        /\ s.maps = p.maps /\ s.cmdbufs = p.cmdbufs /\ s.relocs = p.relocs
        /\ s.increments = p.increments
    BY <2>1, <2>a DEF Pushes
  <2> HIDE DEF s
  <2>4. /\ t \in Pushes /\ t.bufs = bs /\ t.cur = Len(p.bufs) + 1 /\ t.refs = p.refs + 1
        /\ t.maps = p.maps /\ t.cmdbufs = p.cmdbufs /\ t.relocs = p.relocs
        /\ t.increments = p.increments
    <3>1. p.refs + 1 \in Nat  BY PushFields
    <3> QED  BY <2>3, <3>1 DEF Pushes
  <2> HIDE DEF t
  <2>5. p.maps + 1 \in Nat  BY PushFields
  <2> QED  BY <2>2, <2>4, <2>5 DEF Pushes
<1> QED  BY <1>4, <1>5 DEF q, new

\* The job after drm_tegra_pushbuf_queue has listed the current buffer.
Queued(p) == [CutOff(p) EXCEPT !.cmdbufs = Append(@, [buf |-> p.cur, words |-> Used(p)])]

LEMMA CutOffIs ==
  ASSUME NEW p \in Pushes, p.maps > 0
  PROVE  /\ CutOff(p) \in Pushes /\ CutOff(p).cur = 0 /\ CutOff(p).maps = p.maps - 1
         /\ CutOff(p).bufs = p.bufs /\ CutOff(p).cmdbufs = p.cmdbufs
         /\ CutOff(p).relocs = p.relocs /\ CutOff(p).increments = p.increments
         /\ CutOff(p).refs = p.refs
<1> DEFINE r == [p EXCEPT !.maps = p.maps - 1]
<1>1. p.maps - 1 \in Nat  BY PushFields
<1>2. /\ r \in Pushes /\ r.maps = p.maps - 1 /\ r.bufs = p.bufs /\ r.cmdbufs = p.cmdbufs
      /\ r.relocs = p.relocs /\ r.increments = p.increments /\ r.refs = p.refs
  BY <1>1 DEF Pushes
<1> DEFINE c == CutOff(p)
<1>3. c = [r EXCEPT !.cur = 0]  BY DEF Pushes, CutOff
<1> HIDE DEF r, c
<1>4. c \in Pushes  BY <1>2, <1>3 DEF Pushes
<1>5. /\ c.cur = 0 /\ c.maps = r.maps /\ c.bufs = r.bufs /\ c.cmdbufs = r.cmdbufs
      /\ c.relocs = r.relocs /\ c.increments = r.increments /\ c.refs = r.refs
  BY <1>2, <1>3 DEF Pushes
<1> QED  BY <1>2, <1>4, <1>5 DEF c

LEMMA QueuedIs ==
  ASSUME NEW p \in Pushes, p.maps > 0, p.cur \in 1..Len(p.bufs)
  PROVE  /\ Queued(p) \in Pushes /\ Queued(p).cur = 0 /\ Queued(p).maps = p.maps - 1
         /\ Queued(p).bufs = p.bufs /\ Queued(p).relocs = p.relocs
         /\ Queued(p).increments = p.increments /\ Queued(p).refs = p.refs
         /\ Queued(p).cmdbufs = Append(p.cmdbufs, [buf |-> p.cur, words |-> Used(p)])
<1> DEFINE c == CutOff(p)
           cs == Append(p.cmdbufs, [buf |-> p.cur, words |-> Used(p)])
           q == Queued(p)
<1>1. /\ c \in Pushes /\ c.cur = 0 /\ c.maps = p.maps - 1 /\ c.bufs = p.bufs
      /\ c.cmdbufs = p.cmdbufs /\ c.relocs = p.relocs /\ c.increments = p.increments
      /\ c.refs = p.refs
  BY CutOffIs
<1>2. Used(p) \in Nat  BY PushFields DEF Used, Current
<1>3. cs \in Seq([buf : Nat, words : Nat])  BY <1>2, PushFields, AppendProperties
<1>4. q = [c EXCEPT !.cmdbufs = cs]  BY <1>1 DEF Queued
<1> HIDE DEF c, cs, q
<1>5. q \in Pushes  BY <1>1, <1>3, <1>4 DEF Pushes
<1>6. /\ q.cur = c.cur /\ q.maps = c.maps /\ q.bufs = c.bufs /\ q.relocs = c.relocs
      /\ q.increments = c.increments /\ q.refs = c.refs /\ q.cmdbufs = cs
  BY <1>1, <1>4 DEF Pushes
<1> QED  BY <1>1, <1>5, <1>6 DEF q, cs

LEMMA AlignUpHolds ==
  ASSUME NEW n \in Nat \ {0}
  PROVE  /\ AlignUp(n) \in Nat /\ n <= AlignUp(n) /\ Page <= AlignUp(n)
         /\ AlignUp(1) = Page
<1>1. Page \in Nat \ {0}  BY TegraStreamAssumption
<1> DEFINE m == n + Page - 1
           q == m \div Page
<1>2. m \in Nat  BY <1>1
<1>3. q \in Nat /\ m % Page \in 0..Page - 1 /\ m = Page * q + (m % Page)
  <2> HIDE DEF m
  <2> QED  BY <1>1, <1>2, SMTT(60)
<1>4. Page * q = q * Page /\ q * Page \in Nat
  <2> HIDE DEF q
  <2> QED  BY <1>1, <1>3
<1>5. AlignUp(n) = q * Page  BY DEF AlignUp
<1> HIDE DEF q
<1>6. n <= q * Page  BY <1>1, <1>3, <1>4
<1>7. Page <= q * Page
  <2>1. q >= 1
    <3> SUFFICES ASSUME q = 0 PROVE FALSE  BY <1>3
    <3> QED  BY <1>1, <1>6
  <2> QED  BY <1>1, <1>3, <2>1
<1>8. AlignUp(1) = Page
  <2>1. (1 + Page - 1) \div Page = 1  BY <1>1
  <2> QED  BY <1>1, <2>1 DEF AlignUp
<1> QED  BY <1>4, <1>5, <1>6, <1>7, <1>8

-----------------------------------------------------------------------------
(* What the kernel gets of a job of the old interface.                     *)

Part(p, k) == [i \in 1..p.cmdbufs[k].words |-> Patched(p, p.cmdbufs[k].buf, i)]
Parts(p) == [k \in DOMAIN p.cmdbufs |-> Part(p, k)]

LEMMA ReceivedIs ==
  ASSUME NEW p
  PROVE  ReceivedV1(p) = FlattenSeq(Parts(p))
  BY Zenon DEF ReceivedV1, Parts, Part

\* The relocations of one word.
RelocsAt(p, b, i) == {r \in p.relocs : r.buf = b /\ r.at = i}

Relocated(at, w) == IF at # {} THEN Reloc((CHOOSE r \in at : TRUE).target) ELSE w

LEMMA PatchedIs ==
  ASSUME NEW p, NEW b, NEW i
  PROVE  Patched(p, b, i) = Relocated(RelocsAt(p, b, i), p.bufs[b].mem[i])
  BY Zenon DEF Patched, RelocsAt, Relocated

LEMMA RelocIsWord == \A t \in Targets : Reloc(t) \in Words
  BY DEF Reloc, Word, Words, Ops

LEMMA PatchType ==
  ASSUME NEW p \in Pushes, NEW b \in 1..Len(p.bufs)
  PROVE  Patch(p, b) \in Seq(Words) /\ Len(Patch(p, b)) = Len(p.bufs[b].mem)
<1> DEFINE n == Len(p.bufs[b].mem)
<1>1. /\ n \in Nat /\ p.bufs[b].mem \in Seq(Words)
      /\ p.relocs \in SUBSET [buf : Nat, at : Nat, target : Targets]
  BY PushFields
<1>2. ASSUME NEW i \in 1..n PROVE Patched(p, b, i) \in Words
  <2>1. CASE RelocsAt(p, b, i) # {}
    <3> DEFINE r == CHOOSE r \in RelocsAt(p, b, i) : TRUE
    <3>1. r \in RelocsAt(p, b, i)  BY <2>1
    <3> HIDE DEF r
    <3>2. r.target \in Targets  BY <1>1, <3>1 DEF RelocsAt
    <3>3. Patched(p, b, i) = Reloc(r.target)  BY <2>1, PatchedIs, Zenon DEF r, Relocated
    <3> QED  BY <3>2, <3>3, RelocIsWord
  <2>2. CASE RelocsAt(p, b, i) = {}
    <3>1. p.bufs[b].mem[i] \in Words  BY <1>1, ElementOfSeq
    <3> QED  BY <2>2, <3>1, PatchedIs DEF Relocated
  <2> QED  BY <2>1, <2>2
<1> HIDE DEF n
<1>3. [i \in 1..n |-> Patched(p, b, i)] \in Seq(Words)
  <2>1. [i \in 1..n |-> Patched(p, b, i)] \in [1..n -> Words]  BY <1>2
  <2> QED  BY <1>1, <2>1, SeqDef
<1>4. Len([i \in 1..n |-> Patched(p, b, i)]) = n  BY <1>1
<1> QED  BY <1>3, <1>4 DEF n, Patch

\* A listed buffer is complete.
Complete(p) ==
  \A k \in DOMAIN p.cmdbufs : /\ p.cmdbufs[k].buf \in 1..Len(p.bufs)
                              /\ p.cmdbufs[k].words = Len(p.bufs[p.cmdbufs[k].buf].mem)

LEMMA PartsType ==
  ASSUME NEW p \in Pushes, Complete(p)
  PROVE  /\ Parts(p) \in Seq(Seq(Words)) /\ Len(Parts(p)) = Len(p.cmdbufs)
         /\ ReceivedV1(p) \in Seq(Words)
         /\ DOMAIN p.cmdbufs = 1..Len(p.cmdbufs) /\ Len(p.cmdbufs) \in Nat
<1>1. DOMAIN p.cmdbufs = 1..Len(p.cmdbufs) /\ Len(p.cmdbufs) \in Nat
  BY PushFields, LenProperties
<1>2. ASSUME NEW k \in 1..Len(p.cmdbufs) PROVE Part(p, k) \in Seq(Words)
  <2>1. Part(p, k) = Patch(p, p.cmdbufs[k].buf)  BY <1>1 DEF Complete, Part, Patch
  <2> QED  BY <2>1, <1>1, PatchType DEF Complete
<1>3. Parts(p) \in [1..Len(p.cmdbufs) -> Seq(Words)]  BY <1>1, <1>2 DEF Parts
<1>4. Parts(p) \in Seq(Seq(Words)) /\ Len(Parts(p)) = Len(p.cmdbufs)
  BY <1>1, <1>3, SeqDef, LenProperties
<1> QED  BY <1>1, <1>4, ReceivedIs, FlattenType

\* A buffer whose words and relocations stay is received as before.
LEMMA PartsKept ==
  ASSUME NEW p \in Pushes, NEW q \in Pushes, Complete(p), q.cmdbufs = p.cmdbufs,
         \A k \in DOMAIN p.cmdbufs : \A i \in 1..p.cmdbufs[k].words :
           Patched(q, p.cmdbufs[k].buf, i) = Patched(p, p.cmdbufs[k].buf, i)
  PROVE  Parts(q) = Parts(p)
<1>1. \A k \in DOMAIN p.cmdbufs : Part(q, k) = Part(p, k)  BY DEF Part
<1> QED  BY <1>1 DEF Parts

LEMMA JoinWords ==
  \A s, t \in Seq(Words) :
    /\ s \o t \in Seq(Words) /\ Len(s \o t) = Len(s) + Len(t)
    /\ \A i \in 1..Len(s) + Len(t) :
         (s \o t)[i] = IF i <= Len(s) THEN s[i] ELSE t[i - Len(s)]
    /\ \A u \in Seq(Words) : (s \o t) \o u = s \o (t \o u)
  BY ConcatProperties, ConcatAssociative, SMTT(60)

LEMMA JoinAssociative == \A s, t, u \in Seq(Words) : (s \o t) \o u = s \o (t \o u)
  BY JoinWords

\* Words that are written to the current buffer, with their relocations.
LEMMA WholeExtended ==
  ASSUME NEW p \in Pushes, NEW q \in Pushes, NEW ws \in Seq(Words), NEW xs \in Seq(Words),
         NEW ys \in Seq(Words), WholeV1(p, ws), p.cur \in 1..Len(p.bufs),
         q.cur = p.cur, q.cmdbufs = p.cmdbufs, Len(q.bufs) = Len(p.bufs),
         \A b \in 1..Len(p.bufs) : q.bufs[b].mem = IF b = p.cur THEN p.bufs[b].mem \o ys
                                                                ELSE p.bufs[b].mem,
         p.relocs \subseteq q.relocs,
         \A r \in q.relocs \ p.relocs : r.buf = p.cur /\ r.at \in Used(p) + 1..Used(p) + Len(ys),
         Len(xs) = Len(ys),
         \A i \in 1..Len(xs) : Patched(q, p.cur, Used(p) + i) = xs[i]
  PROVE  WholeV1(q, ws \o xs)
<1> DEFINE n == Used(p)
           m == Len(ys)
<1>1. /\ n \in Nat /\ n = Len(p.bufs[p.cur].mem) /\ p.bufs[p.cur].mem \in Seq(Words)
      /\ DOMAIN p.bufs = 1..Len(p.bufs) /\ DOMAIN q.bufs = 1..Len(q.bufs) /\ p.cur # 0
  <2>1. n = Len(p.bufs[p.cur].mem)  BY DEF Used, Current
  <2> HIDE DEF n
  <2>2. n \in Nat /\ p.bufs[p.cur].mem \in Seq(Words)  BY <2>1, PushFields
  <2>3. DOMAIN p.bufs = 1..Len(p.bufs) /\ Len(p.bufs) \in Nat  BY PushFields
  <2>4. DOMAIN q.bufs = 1..Len(q.bufs)  BY PushFields
  <2> QED  BY <2>1, <2>2, <2>3, <2>4
<1>2. m \in Nat /\ DOMAIN ys = 1..m  BY LenProperties
<1>3. /\ Complete(p)
      /\ \A k \in DOMAIN p.cmdbufs : p.cmdbufs[k].buf # p.cur
      /\ \A r \in p.relocs : r.buf \in 1..Len(p.bufs) /\ r.at \in 1..Len(p.bufs[r.buf].mem)
      /\ ReceivedV1(p) \o Patch(p, p.cur) = ws
  BY <1>1 DEF WholeV1, Complete
<1>4. /\ Len(q.bufs[p.cur].mem) = n + m
      /\ \A i \in 1..n : q.bufs[p.cur].mem[i] = p.bufs[p.cur].mem[i]
  <2> DEFINE old == p.bufs[p.cur].mem
             new == q.bufs[p.cur].mem
  <2>1. new = old \o ys /\ old \in Seq(Words) /\ Len(old) = n  BY <1>1
  <2> HIDE DEF old, new
  <2>2. /\ Len(old \o ys) = n + m
        /\ \A i \in 1..n + m : i <= n => (old \o ys)[i] = old[i]
    <3>1. /\ Len(old \o ys) = Len(old) + Len(ys)
          /\ \A i \in 1..Len(old) + Len(ys) :
               (old \o ys)[i] = IF i <= Len(old) THEN old[i] ELSE ys[i - Len(old)]
      BY <2>1, JoinWords
    <3> QED  BY <2>1, <3>1
  <2>3. \A i \in 1..n : i \in 1..n + m /\ i <= n  BY <1>1, <1>2
  <2>4. Len(new) = n + m /\ \A i \in 1..n : new[i] = old[i]  BY <2>1, <2>2, <2>3
  <2> QED  BY <2>4 DEF old, new
<1>5. \A b \in 1..Len(p.bufs) : \A i \in 1..Len(p.bufs[b].mem) :
       RelocsAt(q, b, i) = RelocsAt(p, b, i)
  <2> SUFFICES ASSUME NEW b \in 1..Len(p.bufs), NEW i \in 1..Len(p.bufs[b].mem),
                      NEW r \in q.relocs, r.buf = b, r.at = i
               PROVE  r \in p.relocs
    BY DEF RelocsAt
  <2>1. CASE b = p.cur
    <3>1. i <= n /\ i \in Nat  BY <1>1, <2>1
    <3>2. ~(r.at \in n + 1..n + m)  BY <1>1, <1>2, <3>1
    <3> QED  BY <3>2
  <2>2. CASE b # p.cur  BY <2>2
  <2> QED  BY <2>1, <2>2
<1>6. \A b \in 1..Len(p.bufs) : \A i \in 1..Len(p.bufs[b].mem) :
       Patched(q, b, i) = Patched(p, b, i)
  <2> TAKE b \in 1..Len(p.bufs)
  <2> TAKE i \in 1..Len(p.bufs[b].mem)
  <2>1. RelocsAt(q, b, i) = RelocsAt(p, b, i)  BY <1>5
  <2>2. q.bufs[b].mem[i] = p.bufs[b].mem[i]
    <3>1. CASE b = p.cur  BY <1>1, <1>4, <3>1
    <3>2. CASE b # p.cur  BY <3>2
    <3> QED  BY <3>1, <3>2
  <2> QED  BY <2>1, <2>2, PatchedIs
<1>7. Parts(q) = Parts(p)
  <2>1. \A k \in DOMAIN p.cmdbufs : \A i \in 1..p.cmdbufs[k].words :
          Patched(q, p.cmdbufs[k].buf, i) = Patched(p, p.cmdbufs[k].buf, i)
    BY <1>3, <1>6 DEF Complete
  <2> QED  BY <1>3, <2>1, PartsKept
<1>8. ReceivedV1(q) = ReceivedV1(p)  BY <1>7, ReceivedIs
<1> DEFINE old == Patch(p, p.cur)
           new == Patch(q, p.cur)
           received == ReceivedV1(p)
<1>9. new = old \o xs
  <2>1. old \in Seq(Words) /\ Len(old) = n  BY <1>1, PatchType
  <2>2. new \in Seq(Words) /\ Len(new) = n + m  BY <1>4, PatchType
  <2>3. /\ old \o xs \in Seq(Words) /\ Len(old \o xs) = n + m
        /\ \A i \in 1..n + m : (old \o xs)[i] = IF i <= n THEN old[i] ELSE xs[i - n]
    <3> HIDE DEF old, n, m
    <3>1. /\ old \o xs \in Seq(Words) /\ Len(old \o xs) = Len(old) + Len(xs)
          /\ \A i \in 1..Len(old) + Len(xs) :
               (old \o xs)[i] = IF i <= Len(old) THEN old[i] ELSE xs[i - Len(old)]
      BY <2>1, JoinWords
    <3>2. Len(old) = n /\ Len(xs) = m  BY <2>1 DEF m
    <3> QED  BY <3>1, <3>2
  <2>4. ASSUME NEW i \in 1..n + m
        PROVE  new[i] = (old \o xs)[i]
    <3>1. new[i] = Patched(q, p.cur, i)  BY <1>4, <2>4 DEF Patch
    <3>2. CASE i <= n
      <4>1. i \in 1..Len(p.bufs[p.cur].mem)  BY <1>1, <1>2, <3>2
      <4>2. Patched(q, p.cur, i) = Patched(p, p.cur, i)  BY <1>6, <4>1
      <4>3. old[i] = Patched(p, p.cur, i)  BY <4>1 DEF Patch
      <4> HIDE DEF old, new
      <4> QED  BY <2>3, <3>1, <3>2, <4>2, <4>3
    <3>3. CASE ~(i <= n)
      <4> DEFINE j == i - n
      <4>1. j \in 1..Len(xs) /\ n + j = i  BY <1>1, <1>2, <3>3
      <4> HIDE DEF j, old, new
      <4>2. Patched(q, p.cur, i) = xs[j]  BY <4>1
      <4> QED  BY <2>3, <3>1, <3>3, <4>2 DEF j
    <3> QED  BY <3>2, <3>3
  <2> HIDE DEF old, new
  <2> QED  BY <2>2, <2>3, <2>4, SeqEqual
<1>10. ReceivedV1(q) \o new = ws \o xs
  <2>1. received \in Seq(Words) /\ old \in Seq(Words)  BY <1>3, PartsType, PatchType
  <2>2. received \o old = ws /\ ReceivedV1(q) = received  BY <1>3, <1>8
  <2> HIDE DEF received, old, new
  <2>3. (received \o old) \o xs = received \o (old \o xs)
    BY <2>1, JoinAssociative, ZenonT(60)
  <2> QED  BY <1>9, <2>2, <2>3
<1>11. \A r \in q.relocs : r.buf \in 1..Len(q.bufs) /\ r.at \in 1..Len(q.bufs[r.buf].mem)
  <2> TAKE r \in q.relocs
  <2>1. CASE r \in p.relocs
    <3>1. r.buf \in 1..Len(p.bufs) /\ r.at \in 1..Len(p.bufs[r.buf].mem)  BY <1>3, <2>1
    <3>2. CASE r.buf = p.cur
      <4>1. r.at \in 1..n /\ Len(q.bufs[r.buf].mem) = n + m  BY <1>1, <1>4, <3>1, <3>2
      <4> HIDE DEF n, m
      <4>2. r.at \in 1..n + m  BY <1>1, <1>2, <4>1
      <4> QED  BY <3>1, <4>1, <4>2
    <3>3. CASE r.buf # p.cur  BY <3>1, <3>3
    <3> QED  BY <3>2, <3>3
  <2>2. CASE r \notin p.relocs
    <3>1. r.buf = p.cur /\ r.at \in n + 1..n + m  BY <2>2
    <3> QED  BY <1>1, <1>2, <1>4, <3>1, SMTT(60)
  <2> QED  BY <2>1, <2>2
<1>12. \A k \in DOMAIN q.cmdbufs : /\ q.cmdbufs[k].buf \in DOMAIN q.bufs \ {q.cur}
                                   /\ q.cmdbufs[k].words = Len(q.bufs[q.cmdbufs[k].buf].mem)
  <2> TAKE k \in DOMAIN q.cmdbufs
  <2> DEFINE b == q.cmdbufs[k].buf
  <2>1. /\ k \in DOMAIN p.cmdbufs /\ q.cmdbufs[k] = p.cmdbufs[k]  OBVIOUS
  <2>2. /\ b \in 1..Len(p.bufs) /\ b # p.cur /\ q.cmdbufs[k].words = Len(p.bufs[b].mem)
    BY <1>1, <1>3, <2>1 DEF Complete
  <2> HIDE DEF b
  <2>3. q.bufs[b].mem = p.bufs[b].mem  BY <2>2
  <2>4. b \in DOMAIN q.bufs /\ b # q.cur  BY <1>1, <2>2
  <2> QED  BY <2>2, <2>3, <2>4 DEF b
<1> QED  BY <1>1, <1>10, <1>11, <1>12 DEF WholeV1

\* A new buffer takes over.
LEMMA WholeNewBuffer ==
  ASSUME NEW p \in Pushes, NEW ws \in Seq(Words), WholeV1(p, ws), p.cur \in 1..Len(p.bufs),
         p.maps > 0, NEW n \in Nat, AlignUp(n) \in Nat
  PROVE  WholeV1(NewBuffer(Queued(p), n), ws) /\ ReceivedV1(NewBuffer(Queued(p), n)) = ws
<1> DEFINE c == Queued(p)
           q == NewBuffer(c, n)
           l == Len(p.bufs)
           entry == [buf |-> p.cur, words |-> Used(p)]
<1>1. /\ c \in Pushes /\ c.cur = 0 /\ c.bufs = p.bufs /\ c.relocs = p.relocs
      /\ c.cmdbufs = Append(p.cmdbufs, entry)
  BY QueuedIs
<1> HIDE DEF c
<1>2. /\ q \in Pushes /\ q.cur = l + 1 /\ Len(q.bufs) = l + 1 /\ q.relocs = p.relocs
      /\ q.cmdbufs = Append(p.cmdbufs, entry)
      /\ q.bufs[l + 1] = [cap |-> AlignUp(n), mem |-> <<>>]
      /\ \A b \in 1..l : q.bufs[b] = p.bufs[b]
  <2>1. /\ q \in Pushes /\ q.cur = Len(c.bufs) + 1 /\ Len(q.bufs) = Len(c.bufs) + 1
        /\ q.relocs = c.relocs /\ q.cmdbufs = c.cmdbufs
        /\ q.bufs[Len(c.bufs) + 1] = [cap |-> AlignUp(n), mem |-> <<>>]
        /\ \A b \in 1..Len(c.bufs) : q.bufs[b] = c.bufs[b]
    BY <1>1, NewBufferIs
  <2> HIDE DEF q
  <2> QED  BY <1>1, <2>1
<1> HIDE DEF q
<1>3. /\ l \in Nat /\ DOMAIN p.bufs = 1..l /\ DOMAIN q.bufs = 1..l + 1
      /\ Used(p) = Len(p.bufs[p.cur].mem) /\ Used(p) \in Nat
      /\ q.bufs[l + 1].mem = <<>> /\ p.cmdbufs \in Seq([buf : Nat, words : Nat])
      /\ p.cur \in 1..l /\ p.cur # l + 1
  <2>1. Used(p) = Len(p.bufs[p.cur].mem)  BY DEF Used, Current
  <2>2. l \in Nat /\ DOMAIN p.bufs = 1..l /\ p.cmdbufs \in Seq([buf : Nat, words : Nat])
    BY PushFields
  <2>3. Len(p.bufs[p.cur].mem) \in Nat  BY PushFields
  <2>4. DOMAIN q.bufs = 1..l + 1  BY <1>2, PushFields
  <2>5. q.bufs[l + 1].mem = <<>>  BY <1>2
  <2> QED  BY <2>1, <2>2, <2>3, <2>4, <2>5
<1>4. /\ Complete(p)
      /\ \A r \in p.relocs : r.buf \in 1..l /\ r.at \in 1..Len(p.bufs[r.buf].mem)
      /\ ReceivedV1(p) \o Patch(p, p.cur) = ws
  BY <1>3 DEF WholeV1, Complete
<1>5. /\ Parts(p) \in Seq(Seq(Words)) /\ Len(Parts(p)) = Len(p.cmdbufs)
      /\ ReceivedV1(p) \in Seq(Words) /\ DOMAIN p.cmdbufs = 1..Len(p.cmdbufs)
      /\ Len(p.cmdbufs) \in Nat
  BY <1>4, PartsType
<1> DEFINE m == Len(p.cmdbufs)
<1>6. entry \in [buf : Nat, words : Nat]  BY <1>3
<1>7. /\ Len(q.cmdbufs) = m + 1 /\ DOMAIN q.cmdbufs = 1..m + 1
      /\ q.cmdbufs[m + 1] = entry /\ \A k \in 1..m : q.cmdbufs[k] = p.cmdbufs[k]
  BY <1>2, <1>3, <1>6, AppendProperties, LenProperties, SMTT(60)
<1>8. \A b \in 1..l : \A i : Patched(q, b, i) = Patched(p, b, i)
  <2> TAKE b \in 1..l
  <2> TAKE i
  <2>1. RelocsAt(q, b, i) = RelocsAt(p, b, i) /\ q.bufs[b].mem[i] = p.bufs[b].mem[i]
    BY <1>2 DEF RelocsAt
  <2> QED  BY <2>1, PatchedIs
<1>9. Parts(q) = Append(Parts(p), Patch(p, p.cur))
  <2>1. Patch(p, p.cur) \in Seq(Words)  BY PatchType
  <2> DEFINE both == Append(Parts(p), Patch(p, p.cur))
  <2>2. /\ both \in Seq(Seq(Words)) /\ Len(both) = m + 1 /\ both[m + 1] = Patch(p, p.cur)
        /\ \A k \in 1..m : both[k] = Parts(p)[k]
    <3> DEFINE ps == Parts(p)
               x == Patch(p, p.cur)
    <3>1. ps \in Seq(Seq(Words)) /\ Len(ps) = m /\ x \in Seq(Words)  BY <1>5, <2>1
    <3> HIDE DEF ps, x, m
    <3>2. /\ Append(ps, x) \in Seq(Seq(Words)) /\ Len(Append(ps, x)) = Len(ps) + 1
          /\ Append(ps, x)[Len(ps) + 1] = x /\ \A k \in 1..Len(ps) : Append(ps, x)[k] = ps[k]
      BY <3>1, AppendProperties
    <3>3. both = Append(ps, x)  BY DEF ps, x
    <3> HIDE DEF both
    <3> QED  BY <3>1, <3>2, <3>3 DEF ps, x
  <2> HIDE DEF both
  <2>3. \A k \in 1..m + 1 : Part(q, k) = both[k]
    <3> TAKE k \in 1..m + 1
    <3>1. CASE k = m + 1
      <4>1. q.cmdbufs[k].buf = p.cur /\ q.cmdbufs[k].words = Len(p.bufs[p.cur].mem)
        <5>1. q.cmdbufs[k] = entry  BY <1>7, <3>1
        <5>2. entry.buf = p.cur /\ entry.words = Used(p)  OBVIOUS
        <5> HIDE DEF entry
        <5> QED  BY <1>3, <5>1, <5>2
      <4>2. Part(q, k) = Patch(p, p.cur)  BY <1>8, <4>1 DEF Part, Patch
      <4> QED  BY <2>2, <3>1, <4>2
    <3>2. CASE k # m + 1
      <4>1. k \in 1..m /\ q.cmdbufs[k] = p.cmdbufs[k]  BY <1>5, <1>7, <3>2, SMTT(60)
      <4>2. Part(q, k) = Part(p, k)  BY <1>4, <1>5, <1>8, <4>1 DEF Part, Complete
      <4>3. Parts(p)[k] = Part(p, k)  BY <1>5, <4>1 DEF Parts
      <4> QED  BY <2>2, <4>1, <4>2, <4>3
    <3> QED  BY <3>1, <3>2
  <2>4. Parts(q) = [k \in 1..m + 1 |-> Part(q, k)]  BY <1>7 DEF Parts
  <2>5. both = [k \in 1..m + 1 |-> both[k]]  BY <2>2, LenProperties
  <2> QED  BY <2>3, <2>4, <2>5 DEF both
<1>10. ReceivedV1(q) = ws
  <2>1. Patch(p, p.cur) \in Seq(Words)  BY PatchType
  <2> QED  BY <1>4, <1>5, <1>9, <2>1, ReceivedIs, FlattenAppend
<1>11. Patch(q, q.cur) = <<>>
  <2>1. Len(q.bufs[q.cur].mem) = 0  BY <1>2, <1>3
  <2>2. l + 1 \in 1..Len(q.bufs)  BY <1>2, <1>3
  <2>3. Patch(q, q.cur) \in Seq(Words) /\ Len(Patch(q, q.cur)) = 0
    BY <1>2, <2>1, <2>2, PatchType
  <2> QED  BY <2>3, EmptySeq
<1>12. ReceivedV1(q) \o Patch(q, q.cur) = ws  BY <1>10, <1>11, ConcatEmptySeq
<1>13. \A k \in DOMAIN q.cmdbufs : /\ q.cmdbufs[k].buf \in DOMAIN q.bufs \ {q.cur}
                                   /\ q.cmdbufs[k].words = Len(q.bufs[q.cmdbufs[k].buf].mem)
  <2> TAKE k \in DOMAIN q.cmdbufs
  <2>1. CASE k = m + 1  BY <1>2, <1>3, <1>7, <2>1, SMTT(60)
  <2>2. CASE k # m + 1
    <3>1. k \in DOMAIN p.cmdbufs /\ q.cmdbufs[k] = p.cmdbufs[k]
      <4>1. k \in 1..m + 1 /\ m \in Nat /\ DOMAIN p.cmdbufs = 1..m  BY <1>5, <1>7
      <4> HIDE DEF m
      <4>2. k \in 1..m  BY <2>2, <4>1
      <4> QED  BY <1>7, <4>1, <4>2
    <3>2. p.cmdbufs[k].buf \in 1..l /\ p.cmdbufs[k].words = Len(p.bufs[p.cmdbufs[k].buf].mem)
      BY <1>4, <3>1 DEF Complete
    <3>3. q.cmdbufs[k].buf \in DOMAIN q.bufs \ {q.cur}
      <4>1. \A x \in 1..l : x \in 1..l + 1 /\ x # l + 1  BY <1>3, SMTT(60)
      <4>2. q.cmdbufs[k].buf \in 1..l  BY <3>1, <3>2
      <4>3. DOMAIN q.bufs = 1..l + 1 /\ q.cur = l + 1  BY <1>2, <1>3
      <4> QED  BY <4>1, <4>2, <4>3
    <3>4. q.bufs[q.cmdbufs[k].buf] = p.bufs[p.cmdbufs[k].buf]  BY <1>2, <3>1, <3>2
    <3> QED  BY <3>1, <3>2, <3>3, <3>4
  <2> QED  BY <2>1, <2>2
<1>14. \A r \in q.relocs : r.buf \in DOMAIN q.bufs /\ r.at \in 1..Len(q.bufs[r.buf].mem)
  <2> TAKE r \in q.relocs
  <2>1. r.buf \in 1..l /\ r.at \in 1..Len(p.bufs[r.buf].mem)  BY <1>2, <1>4
  <2>2. q.bufs[r.buf] = p.bufs[r.buf]  BY <1>2, <2>1
  <2>3. r.buf \in DOMAIN q.bufs  BY <1>2, <1>3, <2>1
  <2> QED  BY <2>1, <2>2, <2>3
<1>15. q.cur # 0  BY <1>2, <1>3
<1>16. WholeV1(q, ws)  BY <1>12, <1>13, <1>14, <1>15 DEF WholeV1
<1> QED  BY <1>10, <1>16 DEF c, q

\* The first buffer of a job.
LEMMA WholeFirst ==
  ASSUME NEW p \in Pushes, p.bufs = <<>>, p.cmdbufs = <<>>, p.relocs = {}, NEW n \in Nat,
         AlignUp(n) \in Nat
  PROVE  WholeV1(NewBuffer(p, n), <<>>)
<1> DEFINE q == NewBuffer(p, n)
<1>1. /\ q \in Pushes /\ q.cur = 1 /\ Len(q.bufs) = 1 /\ q.cmdbufs = <<>> /\ q.relocs = {}
      /\ q.bufs[1] = [cap |-> AlignUp(n), mem |-> <<>>]
  <2>1. /\ q \in Pushes /\ q.cur = Len(p.bufs) + 1 /\ Len(q.bufs) = Len(p.bufs) + 1
        /\ q.relocs = p.relocs /\ q.cmdbufs = p.cmdbufs
        /\ q.bufs[Len(p.bufs) + 1] = [cap |-> AlignUp(n), mem |-> <<>>]
    BY NewBufferIs
  <2>2. Len(p.bufs) = 0  BY EmptySeq
  <2> HIDE DEF q
  <2> QED  BY <2>1, <2>2
<1> HIDE DEF q
<1>2. Parts(q) = <<>>
  <2>1. DOMAIN q.cmdbufs = {}  BY <1>1
  <2>2. Complete(q)  BY <2>1 DEF Complete
  <2>3. Parts(q) \in Seq(Seq(Words)) /\ Len(Parts(q)) = 0  BY <1>1, <2>2, PartsType, EmptySeq
  <2> QED  BY <2>3, EmptySeq
<1>3. ReceivedV1(q) = <<>>  BY <1>2, ReceivedIs, FlattenEmpty
<1>4. Patch(q, 1) \in Seq(Words) /\ Len(Patch(q, 1)) = 0  BY <1>1, PatchType
<1>5. Patch(q, 1) = <<>>  BY <1>4, EmptySeq
<1>6. ReceivedV1(q) \o Patch(q, q.cur) = <<>>  BY <1>1, <1>3, <1>5, EmptySeq, ConcatEmptySeq
<1> QED  BY <1>1, <1>6 DEF WholeV1, q

-----------------------------------------------------------------------------
(* The operations of the old interface.                                    *)

LEMMA WordTypes ==
  /\ Data \in Words /\ Wait \in Words /\ Hole \in Words /\ Host1x \in Words /\ Opcode \in Words
  /\ \A c \in Classes \cup {None} : SetClass(c) \in Words
  /\ \A cond \in Conds : Increment(cond) \in Words
  /\ \A i \in Nat : Slot(i) \in Words
  BY DEF Data, Wait, Hole, Host1x, Opcode, SetClass, Increment, Slot, Word, Words, Ops, Conds

LEMMA InPrepareV1 ==
  ASSUME NEW p, NEW n, NEW o \in PrepareV1(p, n)
  PROVE  \/ o = Ok(p) /\ p.cur # 0 /\ Used(p) + n < Current(p).cap
         \/ /\ ~(p.cur # 0 /\ Used(p) + n < Current(p).cap)
            /\ \/ o = Err(p)
               \/ p.cur # 0 /\ o = Err(CutOff(p))
               \/ p.cur = 0 /\ o = Ok(NewBuffer(p, n))
               \/ p.cur # 0 /\ o = Ok(NewBuffer(Queued(p), n))
<1> DEFINE Step(q) == {Ok(NewBuffer(q, n))}
<1>1. CASE p.cur # 0 /\ Used(p) + n < Current(p).cap
  BY <1>1, Zenon DEF PrepareV1
<1>2. CASE ~(p.cur # 0 /\ Used(p) + n < Current(p).cap)
  <2>1. o = Err(p) \/ o \in Then(Queue(p), Step)  BY <1>2, Zenon DEF PrepareV1
  <2>2. ASSUME o \in Then(Queue(p), Step)
        PROVE  \E r \in Queue(p) : IF r.ok THEN o = Ok(NewBuffer(r.p, n)) ELSE o = r
    BY <2>2 DEF Then
  <2>3. ASSUME NEW r \in Queue(p), IF r.ok THEN o = Ok(NewBuffer(r.p, n)) ELSE o = r
        PROVE  \/ p.cur # 0 /\ o = Err(CutOff(p))
               \/ p.cur = 0 /\ o = Ok(NewBuffer(p, n))
               \/ p.cur # 0 /\ o = Ok(NewBuffer(Queued(p), n))
    <3>1. CASE p.cur = 0
      <4>1. r = Ok(p)  BY <3>1 DEF Queue
      <4> QED  BY <2>3, <3>1, <4>1 DEF Ok
    <3>2. CASE p.cur # 0
      <4>1. r = Err(CutOff(p)) \/ r = Ok(Queued(p))  BY <3>2, Zenon DEF Queue, Queued
      <4>2. CASE r = Err(CutOff(p))  BY <2>3, <3>2, <4>2 DEF Err
      <4>3. CASE r = Ok(Queued(p))  BY <2>3, <3>2, <4>3 DEF Ok
      <4> QED  BY <4>1, <4>2, <4>3
    <3> QED  BY <3>1, <3>2
  <2> QED  BY <1>2, <2>1, <2>2, <2>3
<1> QED  BY <1>1, <1>2

\* A job that keeps its count of buffers and its mapping in step.
LEMMA GoodIs ==
  ASSUME NEW p, GoodV1(p)
  PROVE  /\ p \in Pushes /\ p.refs = Len(p.bufs) /\ Len(p.bufs) \in Nat /\ p.cur \in Nat
         /\ p.cur # 0 => p.cur \in 1..Len(p.bufs) /\ p.maps = 1 /\ Used(p) \in Nat
                         /\ Current(p).cap \in Nat
         /\ p.cur = 0 => p.maps = 0
<1>1. p \in Pushes /\ p.cur \in 0..Len(p.bufs) /\ p.refs = Len(p.bufs)
      /\ p.maps = IF p.cur = 0 THEN 0 ELSE 1
  BY DEF GoodV1, HeldV1
<1>2. Len(p.bufs) \in Nat  BY <1>1, PushFields
<1>3. p.cur # 0 => p.cur \in 1..Len(p.bufs)  BY <1>1, <1>2
<1>4. p.cur # 0 => Used(p) \in Nat /\ Current(p).cap \in Nat
  BY <1>1, <1>3, PushFields DEF Used, Current
<1> QED  BY <1>1, <1>2, <1>3, <1>4

LEMMA GoodEmpty ==
  /\ GoodV1(Empty) /\ Empty.bufs = <<>> /\ Empty.cmdbufs = <<>> /\ Empty.relocs = {}
  /\ Empty.cur = 0 /\ Empty.increments = 0 /\ Empty.refs = 0 /\ Empty.maps = 0
<1>1. /\ Empty.bufs = <<>> /\ Empty.cmdbufs = <<>> /\ Empty.relocs = {} /\ Empty.cur = 0
      /\ Empty.increments = 0 /\ Empty.refs = 0 /\ Empty.maps = 0 /\ Empty.slots = 0
      /\ Empty.table = <<>>
  BY DEF Empty
<1>2. /\ <<>> \in Seq(Buffers) /\ <<>> \in Seq([buf : Nat, words : Nat])
      /\ <<>> \in Seq(Targets) /\ Len(<<>>) = 0
  BY EmptySeq
<1>3. Empty \in Pushes  BY <1>2 DEF Empty, Pushes
<1>4. HeldV1(Empty) /\ Fit(Empty)
  BY <1>1, <1>2 DEF HeldV1, Fit
<1> QED  BY <1>1, <1>3, <1>4 DEF GoodV1

LEMMA GoodNewBuffer ==
  ASSUME NEW p, p \in Pushes, Fit(p), p.cur = 0, p.refs = Len(p.bufs), p.maps = 0,
         NEW n \in Nat \ {0}
  PROVE  /\ GoodV1(NewBuffer(p, n)) /\ NewBuffer(p, n).cur # 0
         /\ Used(NewBuffer(p, n)) = 0 /\ Current(NewBuffer(p, n)).cap = AlignUp(n)
         /\ NewBuffer(p, n).increments = p.increments
<1> DEFINE q == NewBuffer(p, n)
           l == Len(p.bufs)
<1>1. AlignUp(n) \in Nat  BY AlignUpHolds
<1>2. /\ q \in Pushes /\ q.cur = l + 1 /\ Len(q.bufs) = l + 1
      /\ q.refs = p.refs + 1 /\ q.maps = p.maps + 1 /\ q.increments = p.increments
      /\ q.bufs[l + 1] = [cap |-> AlignUp(n), mem |-> <<>>]
      /\ \A b \in 1..l : q.bufs[b] = p.bufs[b]
  BY <1>1, NewBufferIs
<1> HIDE DEF q
<1>3. l \in Nat /\ DOMAIN p.bufs = 1..l /\ DOMAIN q.bufs = 1..l + 1  BY <1>2, PushFields
<1>4. Current(q) = [cap |-> AlignUp(n), mem |-> <<>>]  BY <1>2 DEF Current
<1>5. Used(q) = 0 /\ Current(q).cap = AlignUp(n)  BY <1>4, EmptySeq DEF Used
<1>6. HeldV1(q)
  <2>1. q.cur \in 0..Len(q.bufs) /\ q.cur # 0  BY <1>2, <1>3
  <2> QED  BY <1>2, <2>1 DEF HeldV1
<1>7. Fit(q)
  <2> SUFFICES ASSUME "full_end" \notin Admits, NEW b \in 1..l + 1
               PROVE  Len(q.bufs[b].mem) <= q.bufs[b].cap
    BY <1>3 DEF Fit
  <2>1. CASE b = l + 1
    <3>1. q.bufs[b].mem = <<>> /\ q.bufs[b].cap = AlignUp(n)  BY <1>2, <2>1
    <3> QED  BY <1>1, <3>1, EmptySeq
  <2>2. CASE b # l + 1
    <3>1. b \in 1..l  BY <1>3, <2>2
    <3>2. q.bufs[b] = p.bufs[b]  BY <1>2, <3>1
    <3> QED  BY <1>3, <3>1, <3>2 DEF Fit
  <2> QED  BY <2>1, <2>2
<1>8. q.cur # 0  BY <1>2, <1>3
<1> QED  BY <1>2, <1>5, <1>6, <1>7, <1>8 DEF GoodV1, q

LEMMA PrepareV1Holds ==
  ASSUME NEW p, GoodV1(p), NEW n \in Nat \ {0}, NEW o \in PrepareV1(p, n)
  PROVE  /\ GoodV1(o.p) /\ o.p.increments = p.increments /\ o.ok \in BOOLEAN
         /\ o.ok => /\ o.p.cur # 0 /\ Used(o.p) + n <= Current(o.p).cap
                    /\ p.cur # 0 => o.p = p \/ Used(p) + n >= Current(p).cap
                    /\ \A ws \in Seq(Words) : WholeV1(p, ws) => WholeV1(o.p, ws)
                    /\ p.cur = 0 => /\ o.p = NewBuffer(p, n) /\ Used(o.p) = 0
                                    /\ Current(o.p).cap = AlignUp(n)
<1>1. /\ p \in Pushes /\ p.refs = Len(p.bufs) /\ Len(p.bufs) \in Nat /\ p.cur \in Nat
      /\ p.cur # 0 => p.cur \in 1..Len(p.bufs) /\ p.maps = 1 /\ Used(p) \in Nat
                      /\ Current(p).cap \in Nat
      /\ p.cur = 0 => p.maps = 0
  BY GoodIs
<1>2. AlignUp(n) \in Nat /\ n <= AlignUp(n)  BY AlignUpHolds
<1>3. CASE o = Ok(p) /\ p.cur # 0 /\ Used(p) + n < Current(p).cap
  <2>1. o.p = p /\ o.ok = TRUE  BY <1>3 DEF Ok
  <2>2. Used(p) + n <= Current(p).cap  BY <1>1, <1>3
  <2> QED  BY <1>3, <2>1, <2>2
<1>4. CASE o = Err(p)
  <2>1. o.p = p /\ o.ok = FALSE  BY <1>4 DEF Err
  <2> QED  BY <2>1
<1>5. CASE p.cur # 0 /\ o = Err(CutOff(p))
  <2> DEFINE q == CutOff(p)
  <2>1. o.p = q /\ o.ok = FALSE  BY <1>5 DEF Err
  <2>2. /\ q \in Pushes /\ q.cur = 0 /\ q.maps = 0 /\ q.bufs = p.bufs
        /\ q.increments = p.increments /\ q.refs = p.refs
    <3>1. p.maps > 0 /\ p.maps - 1 = 0  BY <1>1, <1>5
    <3> QED  BY <1>1, <3>1, CutOffIs
  <2> HIDE DEF q
  <2>3. HeldV1(q) /\ Fit(q)  BY <1>1, <2>2 DEF HeldV1, Fit, GoodV1
  <2> QED  BY <2>1, <2>2, <2>3 DEF GoodV1
<1>6. CASE p.cur = 0 /\ o = Ok(NewBuffer(p, n))
  <2>1. o.p = NewBuffer(p, n) /\ o.ok = TRUE  BY <1>6 DEF Ok
  <2>2. /\ GoodV1(o.p) /\ o.p.cur # 0 /\ Used(o.p) = 0 /\ Current(o.p).cap = AlignUp(n)
        /\ o.p.increments = p.increments
    BY <1>1, <1>6, <2>1, GoodNewBuffer DEF GoodV1
  <2>3. Used(o.p) + n <= Current(o.p).cap  BY <1>2, <2>2
  <2>4. \A ws \in Seq(Words) : ~WholeV1(p, ws)  BY <1>6 DEF WholeV1
  <2> QED  BY <1>6, <2>1, <2>2, <2>3, <2>4
<1>7. CASE /\ ~(p.cur # 0 /\ Used(p) + n < Current(p).cap)
           /\ p.cur # 0 /\ o = Ok(NewBuffer(Queued(p), n))
  <2> DEFINE c == Queued(p)
  <2>1. o.p = NewBuffer(c, n) /\ o.ok = TRUE  BY <1>7 DEF Ok
  <2>2. /\ c \in Pushes /\ c.cur = 0 /\ c.maps = 0 /\ c.bufs = p.bufs
        /\ c.increments = p.increments /\ c.refs = p.refs
    <3>1. p.maps > 0 /\ p.maps - 1 = 0  BY <1>1, <1>7
    <3> QED  BY <1>1, <1>7, <3>1, QueuedIs
  <2>3. \A ws \in Seq(Words) : WholeV1(p, ws) => WholeV1(o.p, ws)
    <3>1. p.maps > 0  BY <1>1, <1>7
    <3> QED  BY <1>1, <1>2, <1>7, <2>1, <3>1, WholeNewBuffer
  <2> HIDE DEF c
  <2>4. Fit(c)  BY <2>2 DEF Fit, GoodV1
  <2>5. /\ GoodV1(o.p) /\ o.p.cur # 0 /\ Used(o.p) = 0 /\ Current(o.p).cap = AlignUp(n)
        /\ o.p.increments = p.increments
    <3>1. c.refs = Len(c.bufs)  BY <1>1, <2>2
    <3> QED  BY <2>1, <2>2, <2>4, <3>1, GoodNewBuffer
  <2>6. Used(o.p) + n <= Current(o.p).cap  BY <1>2, <2>5
  <2>7. Used(p) + n >= Current(p).cap  BY <1>1, <1>7
  <2> QED  BY <1>7, <2>1, <2>3, <2>5, <2>6, <2>7
<1> QED  BY <1>3, <1>4, <1>5, <1>6, <1>7, InPrepareV1

\* Words that were prepared for, without a relocation.
LEMMA WrittenHolds ==
  ASSUME NEW p, GoodV1(p), p.cur # 0, NEW ws \in Seq(Words),
         Used(p) + Len(ws) <= Current(p).cap, \A i \in DOMAIN ws : ws[i].op # "reloc"
  PROVE  /\ GoodV1(Written(p, ws)) /\ Written(p, ws).increments = p.increments
         /\ Written(p, ws).cur # 0
         /\ Used(Written(p, ws)) = Used(p) + Len(ws)
         /\ Current(Written(p, ws)).cap = Current(p).cap
         /\ \A bs \in Seq(Words) : WholeV1(p, bs) => WholeV1(Written(p, ws), bs \o ws)
<1> DEFINE q == Written(p, ws)
<1>1. /\ p \in Pushes /\ p.refs = Len(p.bufs) /\ Len(p.bufs) \in Nat
      /\ p.cur \in 1..Len(p.bufs) /\ p.maps = 1 /\ Used(p) \in Nat /\ Current(p).cap \in Nat
  BY GoodIs
<1>2. /\ q \in Pushes /\ Alike(p, q)
      /\ \A b \in 1..Len(p.bufs) :
           /\ q.bufs[b].cap = p.bufs[b].cap
           /\ q.bufs[b].mem = IF b = p.cur THEN p.bufs[b].mem \o ws ELSE p.bufs[b].mem
  BY <1>1, WrittenIs
<1> HIDE DEF q
<1>3. /\ q.cur = p.cur /\ q.cmdbufs = p.cmdbufs /\ q.relocs = p.relocs
      /\ q.increments = p.increments /\ q.refs = p.refs /\ q.maps = p.maps
      /\ Len(q.bufs) = Len(p.bufs)
  BY <1>2 DEF Alike
<1>4. p.bufs[p.cur].mem \in Seq(Words) /\ Len(ws) \in Nat /\ DOMAIN ws = 1..Len(ws)
  BY <1>1, PushFields, LenProperties
<1>5. /\ Used(q) = Used(p) + Len(ws) /\ Current(q).cap = Current(p).cap
      /\ q.bufs[p.cur].mem = p.bufs[p.cur].mem \o ws
  <2>1. q.bufs[p.cur].mem = p.bufs[p.cur].mem \o ws  BY <1>1, <1>2
  <2>2. Len(p.bufs[p.cur].mem \o ws) = Len(p.bufs[p.cur].mem) + Len(ws)  BY <1>4, JoinWords
  <2> QED  BY <1>1, <1>2, <1>3, <2>1, <2>2 DEF Used, Current
<1>6. HeldV1(q)  BY <1>1, <1>3 DEF HeldV1
<1>7. Fit(q)
  <2> SUFFICES ASSUME "full_end" \notin Admits, NEW b \in 1..Len(p.bufs)
               PROVE  Len(q.bufs[b].mem) <= q.bufs[b].cap
    <3>1. DOMAIN q.bufs = 1..Len(p.bufs)  BY <1>2, <1>3, PushFields
    <3> QED  BY <3>1 DEF Fit
  <2>1. CASE b = p.cur  BY <1>1, <1>3, <1>5, <2>1 DEF Used, Current
  <2>2. CASE b # p.cur
    <3>1. DOMAIN p.bufs = 1..Len(p.bufs)  BY <1>1, PushFields
    <3>2. Len(p.bufs[b].mem) <= p.bufs[b].cap  BY <3>1 DEF GoodV1, Fit
    <3> QED  BY <1>2, <2>2, <3>2
  <2> QED  BY <2>1, <2>2
<1>8. ASSUME NEW bs \in Seq(Words), WholeV1(p, bs) PROVE WholeV1(q, bs \o ws)
  <2>1. \A i \in 1..Len(ws) : Patched(q, p.cur, Used(p) + i) = ws[i]
    <3> TAKE i \in 1..Len(ws)
    <3> DEFINE n == Used(p)
    <3>1. n = Len(p.bufs[p.cur].mem) /\ n \in Nat  BY <1>1 DEF Used, Current
    <3>2. RelocsAt(q, p.cur, n + i) = {}
      <4> SUFFICES ASSUME NEW r \in p.relocs, r.buf = p.cur, r.at = n + i PROVE FALSE
        BY <1>3 DEF RelocsAt
      <4>1. r.at \in 1..Len(p.bufs[r.buf].mem)  BY <1>8 DEF WholeV1
      <4> HIDE DEF n
      <4> QED  BY <3>1, <4>1, <1>4
    <3> HIDE DEF n
    <3>3. q.bufs[p.cur].mem[n + i] = ws[i]
      <4> DEFINE old == p.bufs[p.cur].mem
      <4>1. old \in Seq(Words) /\ Len(old) = n  BY <1>4, <3>1
      <4>2. q.bufs[p.cur].mem = old \o ws  BY <1>5
      <4> HIDE DEF old
      <4> DEFINE k == n + i
      <4>3. k \in 1..Len(old) + Len(ws) /\ ~(k <= Len(old)) /\ k - n = i
        BY <1>4, <3>1, <4>1
      <4> HIDE DEF k
      <4>4. (old \o ws)[k] = IF k <= Len(old) THEN old[k] ELSE ws[k - Len(old)]
        BY <4>1, <4>3, JoinWords
      <4>5. k - Len(old) = i /\ ~(k <= Len(old))  BY <4>1, <4>3
      <4>6. (old \o ws)[k] = ws[i]  BY <4>4, <4>5
      <4> QED  BY <4>2, <4>6 DEF k
    <3> QED  BY <3>2, <3>3, PatchedIs DEF n, Relocated
  <2>2. /\ p.relocs \subseteq q.relocs
        /\ \A r \in q.relocs \ p.relocs :
             r.buf = p.cur /\ r.at \in Used(p) + 1..Used(p) + Len(ws)
    BY <1>3
  <2> QED  BY <1>1, <1>2, <1>3, <1>8, <2>1, <2>2, WholeExtended
<1> QED  BY <1>1, <1>3, <1>5, <1>2, <1>6, <1>7, <1>8 DEF GoodV1, q

\* A relocation of a word there is room for.
Marked(p, t) == [p EXCEPT !.relocs = @ \cup {[buf |-> p.cur, at |-> Used(p) + 1, target |-> t]}]

LEMMA MarkedHolds ==
  ASSUME NEW p, GoodV1(p), p.cur # 0, NEW t \in Targets, Used(p) + 1 <= Current(p).cap
  PROVE  LET q == Written(Marked(p, t), <<Hole>>) IN
         /\ GoodV1(q) /\ q.increments = p.increments /\ q.cur # 0
         /\ Used(q) = Used(p) + 1 /\ Current(q).cap = Current(p).cap
         /\ \A bs \in Seq(Words) : WholeV1(p, bs) => WholeV1(q, bs \o <<Reloc(t)>>)
<1> DEFINE entry == [buf |-> p.cur, at |-> Used(p) + 1, target |-> t]
           m == Marked(p, t)
           ws == <<Hole>>
           q == Written(m, ws)
<1>1. /\ p \in Pushes /\ p.refs = Len(p.bufs) /\ Len(p.bufs) \in Nat
      /\ p.cur \in 1..Len(p.bufs) /\ p.maps = 1 /\ Used(p) \in Nat /\ Current(p).cap \in Nat
  BY GoodIs
<1>2. entry \in [buf : Nat, at : Nat, target : Targets]  BY <1>1
<1>3. /\ m \in Pushes /\ m.bufs = p.bufs /\ m.cur = p.cur /\ m.cmdbufs = p.cmdbufs
      /\ m.relocs = p.relocs \cup {entry} /\ m.increments = p.increments /\ m.refs = p.refs
      /\ m.maps = p.maps
  <2>1. m = [p EXCEPT !.relocs = p.relocs \cup {entry}]  BY <1>1 DEF Marked, Pushes
  <2>2. p.relocs \cup {entry} \in SUBSET [buf : Nat, at : Nat, target : Targets]
    BY <1>1, <1>2, PushFields
  <2> HIDE DEF m, entry
  <2> QED  BY <1>1, <2>1, <2>2 DEF Pushes
<1>4. ws \in Seq(Words) /\ Len(ws) = 1 /\ ws[1] = Hole  BY WordTypes
<1> HIDE DEF m, ws
<1>5. /\ q \in Pushes /\ Alike(m, q)
      /\ \A b \in 1..Len(m.bufs) :
           /\ q.bufs[b].cap = m.bufs[b].cap
           /\ q.bufs[b].mem = IF b = m.cur THEN m.bufs[b].mem \o ws ELSE m.bufs[b].mem
  BY <1>1, <1>3, <1>4, WrittenIs
<1> HIDE DEF q
<1>6. /\ q.cur = p.cur /\ q.cmdbufs = p.cmdbufs /\ q.relocs = p.relocs \cup {entry}
      /\ q.increments = p.increments /\ q.refs = p.refs /\ q.maps = p.maps
      /\ Len(q.bufs) = Len(p.bufs)
      /\ \A b \in 1..Len(p.bufs) :
           /\ q.bufs[b].cap = p.bufs[b].cap
           /\ q.bufs[b].mem = IF b = p.cur THEN p.bufs[b].mem \o ws ELSE p.bufs[b].mem
  BY <1>3, <1>5 DEF Alike
<1>7. p.bufs[p.cur].mem \in Seq(Words)  BY <1>1, PushFields
<1>8. /\ Used(q) = Used(p) + 1 /\ Current(q).cap = Current(p).cap
      /\ q.bufs[p.cur].mem = p.bufs[p.cur].mem \o ws
  <2>1. q.bufs[p.cur].mem = p.bufs[p.cur].mem \o ws  BY <1>1, <1>6
  <2>2. Len(p.bufs[p.cur].mem \o ws) = Len(p.bufs[p.cur].mem) + 1  BY <1>4, <1>7, JoinWords
  <2> QED  BY <1>1, <1>6, <2>1, <2>2 DEF Used, Current
<1>9. HeldV1(q)  BY <1>1, <1>6 DEF HeldV1
<1>10. Fit(q)
  <2> SUFFICES ASSUME "full_end" \notin Admits, NEW b \in 1..Len(p.bufs)
               PROVE  Len(q.bufs[b].mem) <= q.bufs[b].cap
    <3>1. DOMAIN q.bufs = 1..Len(p.bufs)  BY <1>5, <1>6, PushFields
    <3> QED  BY <3>1 DEF Fit
  <2>1. CASE b = p.cur
    <3>1. q.cur = b  BY <1>6, <2>1
    <3>2. Used(q) <= Current(q).cap  BY <1>1, <1>8
    <3> QED  BY <3>1, <3>2 DEF Used, Current
  <2>2. CASE b # p.cur
    <3>1. DOMAIN p.bufs = 1..Len(p.bufs)  BY <1>1, PushFields
    <3>2. Len(p.bufs[b].mem) <= p.bufs[b].cap  BY <3>1 DEF GoodV1, Fit
    <3> QED  BY <1>6, <2>2, <3>2
  <2> QED  BY <2>1, <2>2
<1>11. ASSUME NEW bs \in Seq(Words), WholeV1(p, bs) PROVE WholeV1(q, bs \o <<Reloc(t)>>)
  <2> DEFINE n == Used(p)
             xs == <<Reloc(t)>>
  <2>1. n = Len(p.bufs[p.cur].mem) /\ n \in Nat  BY <1>1 DEF Used, Current
  <2>2. RelocsAt(q, p.cur, n + 1) = {entry}
    <3>1. \A r \in p.relocs : ~(r.buf = p.cur /\ r.at = n + 1)
      <4> SUFFICES ASSUME NEW r \in p.relocs, r.buf = p.cur, r.at = n + 1 PROVE FALSE
        OBVIOUS
      <4>1. r.at \in 1..Len(p.bufs[r.buf].mem)  BY <1>11 DEF WholeV1
      <4>2. Len(p.bufs[r.buf].mem) = n  BY <2>1
      <4> HIDE DEF n
      <4>3. n + 1 \in 1..n  BY <4>1, <4>2
      <4>4. n \in Nat  BY <2>1
      <4> QED  BY <4>3, <4>4
    <3>2. entry.buf = p.cur /\ entry.at = n + 1  OBVIOUS
    <3> HIDE DEF n, entry
    <3> QED  BY <1>6, <3>1, <3>2 DEF RelocsAt
  <2>3. Patched(q, p.cur, n + 1) = Reloc(t)
    <3>1. (CHOOSE r \in {entry} : TRUE) = entry  OBVIOUS
    <3>2. entry.target = t  OBVIOUS
    <3> HIDE DEF entry, n
    <3> QED  BY <2>2, <3>1, <3>2, PatchedIs DEF Relocated
  <2>4. xs \in Seq(Words) /\ Len(xs) = 1 /\ xs[1] = Reloc(t)  BY RelocIsWord
  <2> HIDE DEF xs
  <2>5. \A i \in 1..Len(xs) : Patched(q, p.cur, Used(p) + i) = xs[i]
    <3> TAKE i \in 1..Len(xs)
    <3>1. i = 1  BY <2>4
    <3> QED  BY <2>3, <2>4, <3>1
  <2>6. /\ p.relocs \subseteq q.relocs
        /\ \A r \in q.relocs \ p.relocs :
             r.buf = p.cur /\ r.at \in Used(p) + 1..Used(p) + Len(ws)
    <3>1. entry.buf = p.cur /\ entry.at = n + 1 /\ n + 1 \in n + 1..n + Len(ws)
      BY <1>4, <2>1
    <3> HIDE DEF entry
    <3> QED  BY <1>6, <3>1
  <2>7. WholeV1(q, bs \o xs)
    <3>1. Len(xs) = Len(ws)  BY <1>4, <2>4
    <3>2. /\ p \in Pushes /\ q \in Pushes /\ xs \in Seq(Words) /\ ws \in Seq(Words)
          /\ bs \in Seq(Words) /\ WholeV1(p, bs) /\ p.cur \in 1..Len(p.bufs)
          /\ q.cur = p.cur /\ q.cmdbufs = p.cmdbufs /\ Len(q.bufs) = Len(p.bufs)
      BY <1>1, <1>4, <1>5, <1>6, <1>11, <2>4
    <3>3. \A b \in 1..Len(p.bufs) : q.bufs[b].mem = IF b = p.cur THEN p.bufs[b].mem \o ws
                                                                  ELSE p.bufs[b].mem
      BY <1>6
    <3> QED  BY <2>5, <2>6, <3>1, <3>2, <3>3, WholeExtended
  <2> QED  BY <2>7 DEF xs
<1>12. GoodV1(q) /\ q.increments = p.increments /\ q.cur # 0
  BY <1>1, <1>5, <1>6, <1>9, <1>10 DEF GoodV1
<1> QED  BY <1>8, <1>11, <1>12 DEF q, m, ws

\* The outcomes, one step after another.
LEMMA InRelocateV1 ==
  ASSUME NEW p, NEW t, NEW o \in RelocateV1(p, t)
  PROVE  \E a \in PrepareV1(p, 1) :
           IF a.ok THEN o = Err(a.p) \/ o = Ok(Written(Marked(a.p, t), <<Hole>>)) ELSE o = a
  BY Zenon DEF RelocateV1, Then, Marked

\* One increment more.
Counted(p) == [p EXCEPT !.increments = @ + 1]

LEMMA InSyncV1 ==
  ASSUME NEW p, NEW cond, NEW o \in SyncV1(p, cond)
  PROVE  \E a \in PrepareV1(p, 2) :
           IF a.ok THEN o = Ok(Counted(Written(a.p, SyncWordsV1(cond)))) ELSE o = a
  BY DEF SyncV1, Then, Counted

LEMMA RelocateV1Holds ==
  ASSUME NEW p, GoodV1(p), p.cur # 0, NEW t \in Targets, NEW o \in RelocateV1(p, t)
  PROVE  /\ GoodV1(o.p) /\ o.p.increments = p.increments /\ o.ok \in BOOLEAN
         /\ o.ok => /\ o.p.cur # 0
                    /\ \A bs \in Seq(Words) : WholeV1(p, bs) => WholeV1(o.p, bs \o <<Reloc(t)>>)
                    /\ Used(o.p) <= Current(o.p).cap
                    /\ \A r \in Nat \ {0} : Used(p) + r <= Current(p).cap =>
                                              Used(o.p) + (r - 1) <= Current(o.p).cap
<1>1. PICK a \in PrepareV1(p, 1) :
         IF a.ok THEN o = Err(a.p) \/ o = Ok(Written(Marked(a.p, t), <<Hole>>)) ELSE o = a
  BY InRelocateV1
<1>2. /\ GoodV1(a.p) /\ a.p.increments = p.increments /\ a.ok \in BOOLEAN
      /\ a.ok => /\ a.p.cur # 0 /\ Used(a.p) + 1 <= Current(a.p).cap
                 /\ a.p = p \/ Used(p) + 1 >= Current(p).cap
                 /\ \A ws \in Seq(Words) : WholeV1(p, ws) => WholeV1(a.p, ws)
  BY PrepareV1Holds
<1>3. CASE ~a.ok  BY <1>1, <1>2, <1>3
<1>4. CASE a.ok /\ o = Err(a.p)
  <2>1. o.p = a.p /\ o.ok = FALSE  BY <1>4 DEF Err
  <2> QED  BY <1>2, <2>1
<1>5. CASE a.ok /\ o = Ok(Written(Marked(a.p, t), <<Hole>>))
  <2> DEFINE q == Written(Marked(a.p, t), <<Hole>>)
  <2>1. o.p = q /\ o.ok = TRUE  BY <1>5 DEF Ok
  <2>2. /\ GoodV1(q) /\ q.increments = a.p.increments /\ q.cur # 0
        /\ Used(q) = Used(a.p) + 1 /\ Current(q).cap = Current(a.p).cap
        /\ \A bs \in Seq(Words) : WholeV1(a.p, bs) => WholeV1(q, bs \o <<Reloc(t)>>)
    BY <1>2, <1>5, MarkedHolds
  <2> HIDE DEF q
  <2>3. Used(p) \in Nat /\ Current(p).cap \in Nat  BY GoodIs
  <2>4. Used(a.p) \in Nat /\ Current(a.p).cap \in Nat  BY <1>2, <1>5, GoodIs
  <2>5. Used(q) <= Current(q).cap  BY <1>2, <1>5, <2>2
  <2>6. ASSUME NEW r \in Nat \ {0}, Used(p) + r <= Current(p).cap
        PROVE  Used(q) + (r - 1) <= Current(q).cap
    <3>1. CASE a.p = p  BY <2>2, <2>3, <2>6, <3>1
    <3>2. CASE Used(p) + 1 >= Current(p).cap
      <4>1. r = 1  BY <2>3, <2>6, <3>2
      <4> QED  BY <2>2, <2>4, <2>5, <4>1
    <3> QED  BY <1>2, <1>5, <3>1, <3>2
  <2> QED  BY <1>2, <1>5, <2>1, <2>2, <2>5, <2>6
<1> QED  BY <1>1, <1>2, <1>3, <1>4, <1>5

LEMMA SyncV1Holds ==
  ASSUME NEW p, GoodV1(p), p.cur # 0, NEW cond \in Conds, NEW o \in SyncV1(p, cond)
  PROVE  /\ GoodV1(o.p) /\ o.ok \in BOOLEAN
         /\ o.ok => /\ o.p.cur # 0 /\ o.p.increments = p.increments + 1
                    /\ \A bs \in Seq(Words) : WholeV1(p, bs) =>
                                                WholeV1(o.p, bs \o SyncWordsV1(cond))
<1>1. PICK a \in PrepareV1(p, 2) :
         IF a.ok THEN o = Ok(Counted(Written(a.p, SyncWordsV1(cond)))) ELSE o = a
  BY InSyncV1
<1> DEFINE ws == SyncWordsV1(cond)
<1>2. /\ GoodV1(a.p) /\ a.p.increments = p.increments /\ a.ok \in BOOLEAN
      /\ a.ok => /\ a.p.cur # 0 /\ Used(a.p) + 2 <= Current(a.p).cap
                 /\ \A bs \in Seq(Words) : WholeV1(p, bs) => WholeV1(a.p, bs)
  BY PrepareV1Holds
<1>3. /\ ws \in Seq(Words) /\ Len(ws) = 2 /\ DOMAIN ws = 1..2
      /\ \A i \in DOMAIN ws : ws[i].op # "reloc"
  <2>1. ws = <<Opcode, Increment(cond)>>  BY DEF SyncWordsV1
  <2>2. Opcode.op # "reloc" /\ Increment(cond).op # "reloc"
    BY DEF Opcode, Increment, Word, Conds
  <2>3. Opcode \in Words /\ Increment(cond) \in Words  BY WordTypes
  <2> HIDE DEF ws
  <2> QED  BY <2>1, <2>2, <2>3
<1> HIDE DEF ws
<1>4. CASE ~a.ok  BY <1>1, <1>2, <1>4
<1>5. CASE a.ok
  <2> DEFINE w == Written(a.p, ws)
             q == Counted(w)
  <2>1. o.p = q /\ o.ok = TRUE  BY <1>1, <1>5 DEF Ok, ws
  <2>2. /\ GoodV1(w) /\ w.increments = a.p.increments /\ w.cur # 0
        /\ \A bs \in Seq(Words) : WholeV1(a.p, bs) => WholeV1(w, bs \o ws)
    BY <1>2, <1>3, <1>5, WrittenHolds
  <2> HIDE DEF w
  <2>3. w \in Pushes /\ w.increments \in Nat  BY <2>2, PushFields DEF GoodV1
  <2> DEFINE n == w.increments + 1
  <2>a. n \in Nat  BY <2>3
  <2>b. q = [w EXCEPT !.increments = n]  BY <2>3 DEF Counted, Pushes
  <2> HIDE DEF n, q
  <2>c. q \in Pushes  BY <2>3, <2>a, <2>b DEF Pushes
  <2>d. /\ q.increments = n /\ q.bufs = w.bufs
        /\ q.cur = w.cur /\ q.cmdbufs = w.cmdbufs /\ q.relocs = w.relocs /\ q.refs = w.refs
        /\ q.maps = w.maps
    BY <2>3, <2>b DEF Pushes
  <2>4. /\ q \in Pushes /\ q.increments = w.increments + 1 /\ q.bufs = w.bufs
        /\ q.cur = w.cur /\ q.cmdbufs = w.cmdbufs /\ q.relocs = w.relocs /\ q.refs = w.refs
        /\ q.maps = w.maps
    BY <2>c, <2>d DEF n
  <2>5. GoodV1(q)  BY <2>2, <2>4 DEF GoodV1, HeldV1, Fit
  <2>6. \A bs \in Seq(Words) : WholeV1(w, bs) => WholeV1(q, bs)
    <3>1. \A b, i : Patched(q, b, i) = Patched(w, b, i)  BY <2>4, PatchedIs DEF RelocsAt
    <3>2. ReceivedV1(q) = ReceivedV1(w)
      <4>1. \A k : Part(q, k) = Part(w, k)  BY <2>4, <3>1 DEF Part
      <4> QED  BY <2>4, <4>1, ReceivedIs DEF Parts
    <3>3. Patch(q, q.cur) = Patch(w, w.cur)  BY <2>4, <3>1 DEF Patch
    <3> QED  BY <2>4, <3>2, <3>3 DEF WholeV1
  <2>7. \A bs \in Seq(Words) : WholeV1(p, bs) => WholeV1(q, bs \o ws)
    <3> TAKE bs \in Seq(Words)
    <3>1. bs \o ws \in Seq(Words)  BY <1>3, JoinWords
    <3> HIDE DEF q
    <3> QED  BY <1>2, <1>5, <2>2, <2>6, <3>1
  <2>8. q.cur # 0 /\ q.increments = p.increments + 1  BY <1>2, <2>2, <2>4
  <2> HIDE DEF q
  <2> QED  BY <2>1, <2>5, <2>7, <2>8 DEF ws
<1> QED  BY <1>2, <1>4, <1>5

LEMMA FreeJobHolds ==
  ASSUME NEW p, GoodV1(p)
  PROVE  /\ GoodV1(FreeJob(p)) /\ FreeJob(p).bufs = <<>>
<1>1. p.refs - Len(p.bufs) = 0 /\ p.maps - (IF p.cur = 0 THEN 0 ELSE 1) = 0
  <2>1. p.refs = Len(p.bufs) /\ Len(p.bufs) \in Nat  BY GoodIs
  <2>2. p.maps = IF p.cur = 0 THEN 0 ELSE 1  BY DEF GoodV1, HeldV1
  <2> QED  BY <2>1, <2>2
<1>2. FreeJob(p) = Empty
  <2> DEFINE r == p.refs - Len(p.bufs)
             m == p.maps - (IF p.cur = 0 THEN 0 ELSE 1)
  <2>1. FreeJob(p) = [Empty EXCEPT !.refs = r, !.maps = m]  BY DEF FreeJob
  <2>2. r = 0 /\ m = 0  BY <1>1
  <2> HIDE DEF r, m
  <2> QED  BY <2>1, <2>2 DEF Empty
<1> QED  BY <1>2, GoodEmpty

\* Once the last buffer is listed, the kernel gets all of it.
LEMMA WholeQueued ==
  ASSUME NEW p \in Pushes, NEW ws \in Seq(Words), WholeV1(p, ws), p.cur \in 1..Len(p.bufs),
         p.maps > 0
  PROVE  ReceivedV1(Queued(p)) = ws
<1> DEFINE c == Queued(p)
           q == NewBuffer(c, 1)
<1>1. AlignUp(1) \in Nat  BY AlignUpHolds
<1>2. ReceivedV1(q) = ws  BY <1>1, WholeNewBuffer
<1>3. c \in Pushes /\ c.bufs = p.bufs /\ c.relocs = p.relocs
      /\ c.cmdbufs = Append(p.cmdbufs, [buf |-> p.cur, words |-> Used(p)])
  BY QueuedIs
<1> HIDE DEF c
<1>4. q \in Pushes /\ q.cmdbufs = c.cmdbufs /\ q.relocs = c.relocs
      /\ \A b \in 1..Len(c.bufs) : q.bufs[b] = c.bufs[b]
  <2>1. c \in Pushes /\ 1 \in Nat  BY <1>3
  <2> QED  BY <1>1, <2>1, NewBufferIs
<1> HIDE DEF q
<1>5. \A b \in 1..Len(c.bufs) : \A i : Patched(q, b, i) = Patched(c, b, i)
  BY <1>4, PatchedIs DEF RelocsAt
<1>6. \A k \in DOMAIN c.cmdbufs : c.cmdbufs[k].buf \in 1..Len(c.bufs)
  <2> DEFINE entry == [buf |-> p.cur, words |-> Used(p)]
             m == Len(p.cmdbufs)
  <2>1. p.cmdbufs \in Seq([buf : Nat, words : Nat]) /\ Used(p) \in Nat /\ p.cur \in Nat
        /\ DOMAIN p.bufs = 1..Len(p.bufs)
    BY PushFields DEF Used, Current
  <2>2. entry \in [buf : Nat, words : Nat] /\ entry.buf = p.cur  BY <2>1
  <2> HIDE DEF entry
  <2>3. /\ DOMAIN c.cmdbufs = 1..m + 1 /\ DOMAIN p.cmdbufs = 1..m /\ m \in Nat
        /\ c.cmdbufs[m + 1] = entry /\ \A k \in 1..m : c.cmdbufs[k] = p.cmdbufs[k]
    BY <1>3, <2>1, <2>2, AppendProperties, LenProperties DEF entry
  <2> TAKE k \in DOMAIN c.cmdbufs
  <2>4. CASE k = m + 1  BY <1>3, <2>2, <2>3, <2>4
  <2>5. CASE k # m + 1
    <3>1. k \in DOMAIN p.cmdbufs /\ c.cmdbufs[k] = p.cmdbufs[k]  BY <2>3, <2>5
    <3> QED  BY <1>3, <2>1, <3>1 DEF WholeV1
  <2> QED  BY <2>4, <2>5
<1>7. \A k \in DOMAIN c.cmdbufs : Part(q, k) = Part(c, k)
  BY <1>4, <1>5, <1>6 DEF Part
<1>8. Parts(q) = Parts(c)  BY <1>4, <1>7 DEF Parts
<1> QED  BY <1>2, <1>8, ReceivedIs DEF c

-----------------------------------------------------------------------------
(* The operations of the new interface.                                    *)

LEMMA GoodIsV2 ==
  ASSUME NEW p, GoodV2(p)
  PROVE  /\ p \in Pushes /\ p.bufs \in Seq(Buffers) /\ Len(p.bufs) = 1 /\ DOMAIN p.bufs = 1..1
         /\ p.cur = 1 /\ p.refs = 0 /\ p.maps = 0
         /\ p.bufs[1] \in Buffers /\ p.bufs[1].mem \in Seq(Words) /\ p.bufs[1].cap \in Nat
         /\ Current(p) = p.bufs[1] /\ Used(p) = Len(p.bufs[1].mem) /\ Used(p) \in Nat
         /\ p.table \in Seq(Targets) /\ Len(p.table) \in Nat /\ DOMAIN p.table = 1..Len(p.table)
         /\ "full_end" \notin Admits => Used(p) <= Current(p).cap
<1>1. p \in Pushes /\ Len(p.bufs) = 1 /\ p.cur = 1 /\ p.refs = 0 /\ p.maps = 0
  BY DEF GoodV2, HeldV2
<1>2. 1 \in 1..Len(p.bufs)  BY <1>1
<1>3. Current(p) = p.bufs[1] /\ Used(p) = Len(p.bufs[1].mem)  BY <1>1 DEF Current, Used
<1>4. /\ p.bufs \in Seq(Buffers) /\ DOMAIN p.bufs = 1..Len(p.bufs) /\ p.bufs[1] \in Buffers
      /\ p.bufs[1].mem \in Seq(Words) /\ p.bufs[1].cap \in Nat /\ Len(p.bufs[1].mem) \in Nat
      /\ p.table \in Seq(Targets)
  BY <1>1, <1>2, PushFields
<1>5. Len(p.table) \in Nat /\ DOMAIN p.table = 1..Len(p.table)  BY <1>4, LenProperties
<1>6. "full_end" \notin Admits => Used(p) <= Current(p).cap  BY <1>2, <1>3, <1>4 DEF GoodV2, Fit
<1> QED  BY <1>1, <1>3, <1>4, <1>5, <1>6

\* The buffer, the table and its size change, each for itself.
Changed(p, b, table, slots) ==
  [p EXCEPT !.bufs = [p.bufs EXCEPT ![1] = b], !.table = table, !.slots = slots]

LEMMA ChangedV2 ==
  ASSUME NEW p, GoodV2(p), NEW b \in Buffers, NEW table \in Seq(Targets), NEW slots \in Nat,
         "full_end" \notin Admits => Len(b.mem) <= b.cap
  PROVE  /\ GoodV2(Changed(p, b, table, slots)) /\ Current(Changed(p, b, table, slots)) = b
         /\ Changed(p, b, table, slots).table = table
         /\ Changed(p, b, table, slots).slots = slots
<1> DEFINE bs == [p.bufs EXCEPT ![1] = b]
           r == [p EXCEPT !.bufs = bs]
           s == [r EXCEPT !.table = table]
           q == Changed(p, b, table, slots)
<1>1. p \in Pushes /\ p.bufs \in Seq(Buffers) /\ Len(p.bufs) = 1 /\ p.cur = 1 /\ p.refs = 0
      /\ p.maps = 0
  BY GoodIsV2
<1>2. bs \in Seq(Buffers) /\ Len(bs) = 1 /\ bs[1] = b
  BY <1>1, ExceptSeq
<1>3. q = [s EXCEPT !.slots = slots]  BY <1>1 DEF Pushes, Changed
<1> HIDE DEF bs, q
<1>4. r \in Pushes /\ r.bufs = bs /\ r.cur = 1 /\ r.refs = 0 /\ r.maps = 0
  BY <1>1, <1>2 DEF Pushes
<1> HIDE DEF r
<1>5. s \in Pushes  BY <1>4 DEF Pushes
<1>6. s.bufs = bs /\ s.cur = 1 /\ s.refs = 0 /\ s.maps = 0 /\ s.table = table
  BY <1>4 DEF Pushes
<1> HIDE DEF s
<1>7. q \in Pushes  BY <1>3, <1>5 DEF Pushes
<1>8. /\ q.bufs = bs /\ q.cur = 1 /\ q.refs = 0 /\ q.maps = 0 /\ q.table = table
      /\ q.slots = slots
  BY <1>3, <1>5, <1>6 DEF Pushes
<1>9. DOMAIN q.bufs = 1..1  BY <1>2, <1>8, LenProperties
<1>10. Fit(q)  BY <1>2, <1>8, <1>9 DEF Fit
<1>11. Current(q) = b  BY <1>2, <1>8 DEF Current
<1> QED  BY <1>2, <1>7, <1>8, <1>10, <1>11 DEF GoodV2, HeldV2, q

Grown(p, cap, slots) == Changed(p, [Current(p) EXCEPT !.cap = cap], p.table, slots)

LEMMA InResize ==
  ASSUME NEW p, GoodV2(p), NEW cap, NEW slots, NEW o \in Resize(p, cap, slots)
  PROVE  \/ o = Err(p)
         \/ o = Err(Grown(p, cap, p.slots))
         \/ o = Ok(Grown(p, cap, slots))
<1> DEFINE words == [p EXCEPT !.bufs[1].cap = cap]
<1>1. o = Ok([words EXCEPT !.slots = slots]) \/ o = Err(p) \/ o = Err(words)
  BY DEF Resize
<1>2. p \in Pushes /\ Current(p) = p.bufs[1]  BY GoodIsV2
<1>3. words = Grown(p, cap, p.slots)  BY <1>2 DEF Grown, Changed, Pushes
<1>4. [words EXCEPT !.slots = slots] = Grown(p, cap, slots)  BY <1>2 DEF Grown, Changed, Pushes
<1> HIDE DEF words
<1> QED  BY <1>1, <1>3, <1>4

LEMMA ResizeHolds ==
  ASSUME NEW p, GoodV2(p), NEW cap \in Nat, cap >= Current(p).cap, NEW slots \in Nat,
         NEW o \in Resize(p, cap, slots)
  PROVE  /\ GoodV2(o.p) /\ o.ok \in BOOLEAN /\ o.p.table = p.table
         /\ Current(o.p).mem = Current(p).mem
         /\ o.ok => Current(o.p).cap = cap
<1>1. /\ Current(p) \in Buffers /\ Current(p).mem \in Seq(Words)
      /\ Current(p).cap \in Nat /\ p.table \in Seq(Targets) /\ p.slots \in Nat
      /\ Len(Current(p).mem) \in Nat
      /\ "full_end" \notin Admits => Len(Current(p).mem) <= Current(p).cap
  <2>1. p \in Pushes /\ p.table \in Seq(Targets) /\ Current(p) = p.bufs[1]
        /\ p.bufs[1] \in Buffers
    BY GoodIsV2
  <2>2. p.slots \in Nat  BY <2>1, PushFields
  <2>3. Current(p) \in Buffers  BY <2>1
  <2>4. Current(p).mem \in Seq(Words) /\ Current(p).cap \in Nat  BY <2>3 DEF Buffers
  <2>5. Len(Current(p).mem) \in Nat  BY <2>4, LenProperties
  <2>6. "full_end" \notin Admits => Len(Current(p).mem) <= Current(p).cap
    BY GoodIsV2
  <2> QED  BY <2>1, <2>2, <2>3, <2>4, <2>5, <2>6
<1> DEFINE b == [Current(p) EXCEPT !.cap = cap]
<1>2. b \in Buffers /\ b.mem = Current(p).mem /\ b.cap = cap  BY <1>1 DEF Buffers
<1>3. PICK s \in {slots, p.slots} :
        o = Err(p) \/ o = Err(Grown(p, cap, s)) \/ (o = Ok(Grown(p, cap, slots)) /\ s = slots)
  <2>1. o = Err(p) \/ o = Err(Grown(p, cap, p.slots)) \/ o = Ok(Grown(p, cap, slots))
    BY InResize
  <2>2. slots \in {slots, p.slots} /\ p.slots \in {slots, p.slots}  OBVIOUS
  <2> QED  BY <2>1, <2>2, Zenon
<1> DEFINE q == Grown(p, cap, s)
<1>4. /\ GoodV2(q) /\ q.table = p.table /\ Current(q) = b
  <2>1. q = Changed(p, b, p.table, s)  BY DEF Grown
  <2> HIDE DEF b, q
  <2>2. "full_end" \notin Admits => Len(b.mem) <= b.cap  BY <1>1, <1>2
  <2>3. s \in Nat  BY <1>1
  <2>4. p.table \in Seq(Targets) /\ b \in Buffers  BY <1>1, <1>2
  <2>5. /\ GoodV2(Changed(p, b, p.table, s)) /\ Current(Changed(p, b, p.table, s)) = b
        /\ Changed(p, b, p.table, s).table = p.table
    BY <2>2, <2>3, <2>4, ChangedV2
  <2> QED  BY <2>1, <2>5
<1> HIDE DEF b, q
<1>5. o.p \in {p, q} /\ o.ok \in BOOLEAN /\ (o.ok => o.p = q)
  <2>1. o = Err(p) \/ o = Err(q) \/ o = Ok(q)  BY <1>3 DEF q
  <2>2. CASE o = Err(p)
    <3>1. o.p = p /\ o.ok = FALSE  BY <2>2 DEF Err
    <3> QED  BY <3>1
  <2>3. CASE o = Err(q)
    <3>1. o.p = q /\ o.ok = FALSE  BY <2>3 DEF Err
    <3> QED  BY <3>1
  <2>4. CASE o = Ok(q)
    <3>1. o.p = q /\ o.ok = TRUE  BY <2>4 DEF Ok
    <3> QED  BY <3>1
  <2> QED  BY <2>1, <2>2, <2>3, <2>4
<1>6. CASE o.p = q
  <2>1. Current(o.p).mem = Current(p).mem /\ Current(o.p).cap = cap  BY <1>2, <1>4, <1>6
  <2> QED  BY <1>4, <1>5, <1>6, <2>1
<1>7. CASE o.p = p /\ ~o.ok  BY <1>5, <1>7
<1> QED  BY <1>5, <1>6, <1>7

LEMMA PrepareV2Holds ==
  ASSUME NEW p, GoodV2(p), Used(p) <= Current(p).cap, NEW n \in Nat, NEW o \in PrepareV2(p, n)
  PROVE  /\ GoodV2(o.p) /\ o.ok \in BOOLEAN /\ o.p.table = p.table
         /\ Current(o.p).mem = Current(p).mem
         /\ o.ok => Used(o.p) + n <= Current(o.p).cap
<1>1. Current(p).cap \in Nat /\ Used(p) \in Nat /\ Len(p.table) \in Nat
  BY GoodIsV2
<1>2. CASE ~(Used(p) + n > Current(p).cap)
  <2>1. o = Ok(p)  BY <1>2 DEF PrepareV2
  <2>2. o.p = p /\ o.ok = TRUE  BY <2>1 DEF Ok
  <2>3. Used(p) + n <= Current(p).cap  BY <1>1, <1>2
  <2> QED  BY <2>2, <2>3
<1>3. CASE Used(p) + n > Current(p).cap
  <2> DEFINE more == Max({n, MinGrow})
             cap == Current(p).cap + more
  <2>1. MinGrow \in Nat  BY TegraStreamAssumption
  <2>2. more \in Nat /\ more >= n  BY <2>1, MaxOfTwo
  <2> HIDE DEF more
  <2>3. cap \in Nat /\ cap >= Current(p).cap  BY <1>1, <2>2
  <2>4. o \in Resize(p, cap, Len(p.table))  BY <1>3 DEF PrepareV2, more
  <2>a. Used(p) + n <= cap
    <3>1. Used(p) <= Current(p).cap  OBVIOUS
    <3> QED  BY <1>1, <2>2, <3>1
  <2> HIDE DEF cap
  <2>5. /\ GoodV2(o.p) /\ o.ok \in BOOLEAN /\ o.p.table = p.table
        /\ Current(o.p).mem = Current(p).mem
        /\ o.ok => Current(o.p).cap = cap
    BY <1>1, <2>3, <2>4, ResizeHolds
  <2>6. Used(o.p) = Used(p)  BY <2>5 DEF Used
  <2> QED  BY <2>5, <2>6, <2>a
<1> QED  BY <1>2, <1>3

\* What the kernel reads at a word of the new interface.
Read(table, w) == IF w.op = "slot" THEN Reloc(table[w.arg]) ELSE w

LEMMA ReceivedIsV2 ==
  ASSUME NEW p, GoodV2(p)
  PROVE  /\ ReceivedV2(p) = [i \in 1..Len(Current(p).mem) |-> Read(p.table, Current(p).mem[i])]
         /\ \A ws : WholeV2(p, ws) <=>
              /\ \A i \in 1..Len(Current(p).mem) : Current(p).mem[i].op = "slot" =>
                   Current(p).mem[i].arg \in DOMAIN p.table
              /\ ReceivedV2(p) = ws
<1>1. Current(p) = p.bufs[1]  BY GoodIsV2
<1>2. DOMAIN p.bufs[1].mem = 1..Len(p.bufs[1].mem)
  <2>1. p.bufs[1].mem \in Seq(Words)  BY GoodIsV2
  <2> QED  BY <2>1, LenProperties
<1>3. ReceivedV2(p) = [i \in DOMAIN p.bufs[1].mem |-> Read(p.table, p.bufs[1].mem[i])]
  BY Zenon DEF ReceivedV2, Read
<1> QED  BY <1>1, <1>2, <1>3, Zenon DEF WholeV2

\* Words that are written after those there are, while the table may grow.
LEMMA WholeExtendedV2 ==
  ASSUME NEW p, GoodV2(p), NEW q, GoodV2(q), NEW ws \in Seq(Words), NEW xs \in Seq(Words),
         NEW ys \in Seq(Words), WholeV2(p, ws), Current(q).mem = Current(p).mem \o ys,
         \A i \in DOMAIN p.table : i \in DOMAIN q.table /\ q.table[i] = p.table[i],
         Len(xs) = Len(ys),
         \A i \in 1..Len(ys) : /\ ys[i].op = "slot" => ys[i].arg \in DOMAIN q.table
                               /\ xs[i] = Read(q.table, ys[i])
  PROVE  WholeV2(q, ws \o xs)
<1> DEFINE old == Current(p).mem
           new == Current(q).mem
           n == Len(old)
           m == Len(ys)
<1>1. old \in Seq(Words) /\ n \in Nat /\ m \in Nat
  <2>1. old \in Seq(Words)  BY GoodIsV2
  <2> QED  BY <2>1, LenProperties
<1>2. /\ \A i \in 1..n : old[i].op = "slot" => old[i].arg \in DOMAIN p.table
      /\ ws = [i \in 1..n |-> Read(p.table, old[i])]
  BY ReceivedIsV2
<1>3. ReceivedV2(q) = [i \in 1..Len(new) |-> Read(q.table, new[i])]  BY ReceivedIsV2
<1>4. new = old \o ys  OBVIOUS
<1> HIDE DEF old, new
<1>5. /\ Len(new) = n + m
      /\ \A i \in 1..n + m : new[i] = IF i <= n THEN old[i] ELSE ys[i - n]
  BY <1>1, <1>4, JoinWords
<1>6. Len(ws) = n /\ \A i \in 1..n : ws[i] = Read(p.table, old[i])
  <2> HIDE DEF n
  <2> QED  BY <1>1, <1>2
<1>7. /\ Len(ws \o xs) = n + m /\ ws \o xs \in Seq(Words)
      /\ \A i \in 1..n + m : (ws \o xs)[i] = IF i <= n THEN ws[i] ELSE xs[i - n]
  <2>1. /\ Len(ws \o xs) = Len(ws) + Len(xs) /\ ws \o xs \in Seq(Words)
        /\ \A i \in 1..Len(ws) + Len(xs) :
             (ws \o xs)[i] = IF i <= Len(ws) THEN ws[i] ELSE xs[i - Len(ws)]
    BY JoinWords
  <2> HIDE DEF n, m
  <2>2. Len(ws) = n /\ Len(xs) = m  BY <1>6 DEF m
  <2> QED  BY <2>1, <2>2
<1>8. ASSUME NEW i \in 1..n + m
      PROVE  /\ new[i].op = "slot" => new[i].arg \in DOMAIN q.table
             /\ Read(q.table, new[i]) = (ws \o xs)[i]
  <2>1. CASE i <= n
    <3>1. i \in 1..n /\ new[i] = old[i]  BY <1>1, <1>5, <2>1
    <3>2. (ws \o xs)[i] = Read(p.table, old[i])  BY <1>6, <1>7, <2>1, <3>1
    <3>3. old[i].op = "slot" => /\ old[i].arg \in DOMAIN q.table
                                /\ q.table[old[i].arg] = p.table[old[i].arg]
      BY <1>2, <3>1
    <3> QED  BY <3>1, <3>2, <3>3 DEF Read
  <2>2. CASE ~(i <= n)
    <3> DEFINE j == i - n
    <3>1. j \in 1..m  BY <1>1, <2>2
    <3>2. new[i] = ys[j] /\ (ws \o xs)[i] = xs[j]  BY <1>5, <1>7, <2>2
    <3> HIDE DEF j
    <3> QED  BY <3>1, <3>2
  <2> QED  BY <2>1, <2>2
<1>9. ReceivedV2(q) = ws \o xs
  <2> DEFINE r == [i \in 1..n + m |-> Read(q.table, new[i])]
  <2>1. ReceivedV2(q) = r  BY <1>3, <1>5
  <2>2. ws \o xs = [i \in 1..n + m |-> (ws \o xs)[i]]
    <3> HIDE DEF n, m
    <3> QED  BY <1>7, LenProperties
  <2>3. \A i \in 1..n + m : Read(q.table, new[i]) = (ws \o xs)[i]  BY <1>8
  <2> HIDE DEF n, m
  <2> QED  BY <2>1, <2>2, <2>3
<1>10. \A i \in 1..Len(new) : new[i].op = "slot" => new[i].arg \in DOMAIN q.table
  BY <1>5, <1>8
<1> QED  BY <1>9, <1>10, ReceivedIsV2 DEF new

LEMMA WholeKeptV2 ==
  ASSUME NEW p, GoodV2(p), NEW q, GoodV2(q), NEW ws, WholeV2(p, ws),
         Current(q).mem = Current(p).mem, q.table = p.table
  PROVE  WholeV2(q, ws)
<1>1. ReceivedV2(p) = ReceivedV2(q)  BY ReceivedIsV2
<1> QED  BY <1>1, ReceivedIsV2

LEMMA WrittenHoldsV2 ==
  ASSUME NEW p, GoodV2(p), NEW ys \in Seq(Words),
         "full_end" \notin Admits => Used(p) + Len(ys) <= Current(p).cap
  PROVE  /\ GoodV2(Written(p, ys)) /\ Written(p, ys).table = p.table
         /\ Current(Written(p, ys)).mem = Current(p).mem \o ys
         /\ Current(Written(p, ys)).cap = Current(p).cap
         /\ Used(Written(p, ys)) = Used(p) + Len(ys)
<1> DEFINE q == Written(p, ys)
<1>1. /\ p \in Pushes /\ p.cur = 1 /\ Len(p.bufs) = 1 /\ p.refs = 0 /\ p.maps = 0
      /\ Current(p) = p.bufs[1] /\ p.bufs[1].mem \in Seq(Words) /\ p.bufs[1].cap \in Nat
  BY GoodIsV2
<1>2. /\ q \in Pushes /\ Alike(p, q) /\ q.table = p.table
      /\ \A b \in 1..Len(p.bufs) :
           /\ q.bufs[b].cap = p.bufs[b].cap
           /\ q.bufs[b].mem = IF b = p.cur THEN p.bufs[b].mem \o ys ELSE p.bufs[b].mem
  <2>1. p.cur \in 1..Len(p.bufs)  BY <1>1
  <2> QED  BY <1>1, <2>1, WrittenIs
<1> HIDE DEF q
<1>3. q.cur = 1 /\ Len(q.bufs) = 1 /\ q.refs = 0 /\ q.maps = 0  BY <1>1, <1>2 DEF Alike
<1>4. 1 \in 1..Len(p.bufs)  BY <1>1
<1>5. q.bufs[1].cap = p.bufs[1].cap /\ q.bufs[1].mem = p.bufs[1].mem \o ys
  BY <1>1, <1>2, <1>4
<1>6. Current(q) = q.bufs[1]  BY <1>3 DEF Current
<1>7. Len(q.bufs[1].mem) = Len(p.bufs[1].mem) + Len(ys)  BY <1>1, <1>5, JoinWords
<1>8. Used(q) = Used(p) + Len(ys)  BY <1>1, <1>6, <1>7 DEF Used
<1>9. DOMAIN q.bufs = 1..1  BY <1>2, <1>3, PushFields
<1>10. Fit(q)
  <2> SUFFICES ASSUME "full_end" \notin Admits PROVE Len(q.bufs[1].mem) <= q.bufs[1].cap
    BY <1>9 DEF Fit
  <2>1. Used(q) <= Current(p).cap  BY <1>8
  <2> QED  BY <1>1, <1>5, <1>6, <2>1 DEF Used
<1> QED  BY <1>1, <1>2, <1>3, <1>5, <1>6, <1>8, <1>10 DEF GoodV2, HeldV2, q

Listed(p, t) == [p EXCEPT !.table = Append(@, t)]

LEMMA InTabled ==
  ASSUME NEW p, NEW t, NEW o \in Tabled(p, t)
  PROVE  \/ t \in ToSet(p.table) /\ o = Ok(p)
         \/ /\ t \notin ToSet(p.table)
            /\ \E a \in Resize(p, Current(p).cap, p.slots + SlotGrow) \cup {Ok(p)} :
                 IF a.ok THEN o = Ok(Listed(a.p, t)) ELSE o = a
<1>1. CASE t \in ToSet(p.table)  BY <1>1 DEF Tabled
<1>2. CASE t \notin ToSet(p.table)
  <2> DEFINE outs == IF Len(p.table) = p.slots
                     THEN Resize(p, Current(p).cap, p.slots + SlotGrow) ELSE {Ok(p)}
  <2>1. \E a \in outs : o \in IF a.ok THEN {Ok(Listed(a.p, t))} ELSE {a}
    BY <1>2, Zenon DEF Tabled, Then, Listed
  <2> QED  BY <1>2, <2>1
<1> QED  BY <1>1, <1>2

\* The table only grows, and its entries keep their numbers.
Extends(table, more) == \A i \in DOMAIN table : i \in DOMAIN more /\ more[i] = table[i]

LEMMA ListedHolds ==
  ASSUME NEW p, GoodV2(p), NEW t \in Targets
  PROVE  /\ GoodV2(Listed(p, t)) /\ Current(Listed(p, t)) = Current(p)
         /\ Extends(p.table, Listed(p, t).table)
         /\ \E i \in DOMAIN Listed(p, t).table : Listed(p, t).table[i] = t
<1> DEFINE table == Append(p.table, t)
           n == Len(p.table)
           q == Listed(p, t)
<1>1. /\ p \in Pushes /\ p.bufs \in Seq(Buffers) /\ Current(p) = p.bufs[1]
      /\ p.bufs[1] \in Buffers /\ p.table \in Seq(Targets) /\ n \in Nat /\ DOMAIN p.table = 1..n
      /\ DOMAIN p.bufs = 1..1
  BY GoodIsV2
<1>2. p.slots \in Nat  BY <1>1, PushFields
<1>3. "full_end" \notin Admits => Len(p.bufs[1].mem) <= p.bufs[1].cap
  BY <1>1, GoodIsV2 DEF Used
<1>4. /\ table \in Seq(Targets) /\ Len(table) = n + 1 /\ table[n + 1] = t
      /\ \A i \in 1..n : table[i] = p.table[i]
  BY <1>1, AppendProperties
<1> HIDE DEF table
<1>5. DOMAIN table = 1..n + 1  BY <1>4, LenProperties
<1> HIDE DEF n
<1>6. q = Changed(p, p.bufs[1], table, p.slots)
  <2>1. [p.bufs EXCEPT ![1] = p.bufs[1]] = p.bufs  BY <1>1
  <2> DEFINE bs == [p.bufs EXCEPT ![1] = p.bufs[1]]
  <2>2. Changed(p, p.bufs[1], table, p.slots)
          = [p EXCEPT !.bufs = bs, !.table = table, !.slots = p.slots]
    BY DEF Changed
  <2>3. bs = p.bufs  BY <2>1
  <2> HIDE DEF bs
  <2>4. Changed(p, p.bufs[1], table, p.slots) = [p EXCEPT !.table = table]
    BY <1>1, <2>2, <2>3 DEF Pushes
  <2> QED  BY <2>4 DEF Listed, table
<1> HIDE DEF q
<1>7. GoodV2(q) /\ Current(q) = p.bufs[1] /\ q.table = table
  <2> DEFINE b == p.bufs[1]
  <2>1. b \in Buffers /\ ("full_end" \notin Admits => Len(b.mem) <= b.cap)  BY <1>1, <1>3
  <2>2. q = Changed(p, b, table, p.slots)  BY <1>6
  <2> HIDE DEF b
  <2>3. /\ GoodV2(Changed(p, b, table, p.slots)) /\ Current(Changed(p, b, table, p.slots)) = b
        /\ Changed(p, b, table, p.slots).table = table
    BY <1>2, <1>4, <2>1, ChangedV2
  <2> QED  BY <2>2, <2>3 DEF b
<1>8. Extends(p.table, table)
  <2>1. \A i \in 1..n : i \in 1..n + 1  BY <1>1
  <2> QED  BY <1>1, <1>4, <1>5, <2>1 DEF Extends
<1>9. n + 1 \in DOMAIN table /\ table[n + 1] = t  BY <1>1, <1>4, <1>5
<1> QED  BY <1>1, <1>7, <1>8, <1>9 DEF q

LEMMA TabledHolds ==
  ASSUME NEW p, GoodV2(p), NEW t \in Targets, NEW o \in Tabled(p, t)
  PROVE  /\ GoodV2(o.p) /\ o.ok \in BOOLEAN /\ Current(o.p).mem = Current(p).mem
         /\ o.ok => /\ Current(o.p).cap = Current(p).cap
                    /\ Extends(p.table, o.p.table)
                    /\ \E i \in DOMAIN o.p.table : o.p.table[i] = t
<1>1. p \in Pushes /\ p.table \in Seq(Targets) /\ Current(p).cap \in Nat
  BY GoodIsV2
<1>2. p.slots + SlotGrow \in Nat
  <2>1. p.slots \in Nat  BY <1>1, PushFields
  <2>2. SlotGrow \in Nat  BY TegraStreamAssumption
  <2> QED  BY <2>1, <2>2
<1>3. CASE t \in ToSet(p.table) /\ o = Ok(p)
  <2>1. o.p = p /\ o.ok = TRUE  BY <1>3 DEF Ok
  <2>2. \E i \in DOMAIN p.table : p.table[i] = t  BY <1>3 DEF ToSet
  <2>3. Extends(p.table, p.table)  BY DEF Extends
  <2> QED  BY <2>1, <2>2, <2>3
<1>4. CASE \E a \in Resize(p, Current(p).cap, p.slots + SlotGrow) \cup {Ok(p)} :
             IF a.ok THEN o = Ok(Listed(a.p, t)) ELSE o = a
  <2>1. PICK a \in Resize(p, Current(p).cap, p.slots + SlotGrow) \cup {Ok(p)} :
          IF a.ok THEN o = Ok(Listed(a.p, t)) ELSE o = a
    BY <1>4
  <2>2. /\ GoodV2(a.p) /\ a.ok \in BOOLEAN /\ a.p.table = p.table
        /\ Current(a.p).mem = Current(p).mem
        /\ a.ok => Current(a.p).cap = Current(p).cap
    <3>1. CASE a = Ok(p)
      <4>1. a.p = p /\ a.ok = TRUE  BY <3>1 DEF Ok
      <4> QED  BY <4>1
    <3>2. CASE a \in Resize(p, Current(p).cap, p.slots + SlotGrow)
      <4>1. Current(p).cap >= Current(p).cap  BY <1>1
      <4> QED  BY <1>1, <1>2, <3>2, <4>1, ResizeHolds
    <3> QED  BY <2>1, <3>1, <3>2
  <2>3. CASE ~a.ok  BY <2>1, <2>2, <2>3
  <2>4. CASE a.ok
    <3> DEFINE q == Listed(a.p, t)
    <3>1. o.p = q /\ o.ok = TRUE  BY <2>1, <2>4 DEF Ok
    <3>2. /\ GoodV2(q) /\ Current(q) = Current(a.p) /\ Extends(p.table, q.table)
          /\ \E i \in DOMAIN q.table : q.table[i] = t
      BY <2>2, ListedHolds
    <3> HIDE DEF q
    <3> QED  BY <2>2, <2>4, <3>1, <3>2
  <2> QED  BY <2>2, <2>3, <2>4
<1> QED  BY <1>3, <1>4, InTabled

LEMMA InRelocateV2 ==
  ASSUME NEW p, NEW t, NEW o \in RelocateV2(p, t)
  PROVE  \E a \in Tabled(p, t) :
           IF a.ok
           THEN \E b \in IF Used(a.p) = Current(a.p).cap
                         THEN Resize(a.p, Current(a.p).cap + RelocGrow, a.p.slots)
                         ELSE {Ok(a.p)} :
                  IF b.ok
                  THEN o = Ok(Written(b.p, <<Slot(CHOOSE i \in DOMAIN b.p.table :
                                                    b.p.table[i] = t)>>))
                  ELSE o = b
           ELSE o = a
<1> DEFINE Final(r) == {Ok(Written(r, <<Slot(CHOOSE i \in DOMAIN r.table : r.table[i] = t)>>))}
           grown(q) == IF Used(q) = Current(q).cap
                       THEN Resize(q, Current(q).cap + RelocGrow, q.slots) ELSE {Ok(q)}
<1>1. PICK a \in Tabled(p, t) : o \in IF a.ok THEN Then(grown(a.p), Final) ELSE {a}
  BY Zenon DEF RelocateV2, Then
<1>2. CASE a.ok
  <2>1. \E b \in grown(a.p) : o \in IF b.ok THEN Final(b.p) ELSE {b}
    BY <1>1, <1>2, Zenon DEF Then
  <2> QED  BY <1>2, <2>1, Zenon
<1> QED  BY <1>1, <1>2, Zenon

LEMMA RelocateV2Holds ==
  ASSUME NEW p, GoodV2(p), Used(p) <= Current(p).cap, NEW t \in Targets,
         NEW o \in RelocateV2(p, t)
  PROVE  /\ GoodV2(o.p) /\ o.ok \in BOOLEAN
         /\ o.ok => /\ Used(o.p) <= Current(o.p).cap
                    /\ \A r \in Nat \ {0} : Used(p) + r <= Current(p).cap =>
                                              Used(o.p) + (r - 1) <= Current(o.p).cap
                    /\ \A ws \in Seq(Words) : WholeV2(p, ws) => WholeV2(o.p, ws \o <<Reloc(t)>>)
<1>1. PICK a \in Tabled(p, t) :
        IF a.ok
        THEN \E b \in IF Used(a.p) = Current(a.p).cap
                      THEN Resize(a.p, Current(a.p).cap + RelocGrow, a.p.slots)
                      ELSE {Ok(a.p)} :
               IF b.ok
               THEN o = Ok(Written(b.p, <<Slot(CHOOSE i \in DOMAIN b.p.table :
                                                 b.p.table[i] = t)>>))
               ELSE o = b
        ELSE o = a
  BY InRelocateV2
<1>2. /\ GoodV2(a.p) /\ a.ok \in BOOLEAN /\ Current(a.p).mem = Current(p).mem
      /\ a.ok => /\ Current(a.p).cap = Current(p).cap
                 /\ Extends(p.table, a.p.table)
                 /\ \E i \in DOMAIN a.p.table : a.p.table[i] = t
  BY TabledHolds
<1>3. CASE ~a.ok  BY <1>1, <1>2, <1>3
<1>4. CASE a.ok
  <2>1. PICK b \in IF Used(a.p) = Current(a.p).cap
                   THEN Resize(a.p, Current(a.p).cap + RelocGrow, a.p.slots)
                   ELSE {Ok(a.p)} :
               IF b.ok
               THEN o = Ok(Written(b.p, <<Slot(CHOOSE i \in DOMAIN b.p.table :
                                                 b.p.table[i] = t)>>))
               ELSE o = b
    BY <1>1, <1>4
  <2>2. /\ Current(p).cap \in Nat /\ Used(p) \in Nat /\ Used(a.p) = Used(p)
        /\ a.p.slots \in Nat /\ RelocGrow \in Nat \ {0}
    <3>1. Current(p).cap \in Nat /\ Used(p) \in Nat  BY GoodIsV2
    <3>2. a.p.slots \in Nat  BY <1>2, PushFields DEF GoodV2
    <3>3. Used(a.p) = Used(p)  BY <1>2 DEF Used
    <3> QED  BY <3>1, <3>2, <3>3, TegraStreamAssumption
  <2>3. /\ GoodV2(b.p) /\ b.ok \in BOOLEAN /\ b.p.table = a.p.table
        /\ Current(b.p).mem = Current(p).mem
        /\ b.ok => /\ Used(p) + 1 <= Current(b.p).cap
                   /\ Current(b.p).cap >= Current(p).cap
    <3>1. CASE Used(a.p) = Current(a.p).cap
      <4> DEFINE cap == Current(a.p).cap + RelocGrow
      <4>1. cap \in Nat /\ cap >= Current(a.p).cap /\ Used(p) + 1 <= cap /\ cap >= Current(p).cap
        BY <1>2, <1>4, <2>2, <3>1
      <4>2. b \in Resize(a.p, cap, a.p.slots)  BY <2>1, <3>1
      <4> HIDE DEF cap
      <4>3. /\ GoodV2(b.p) /\ b.ok \in BOOLEAN /\ b.p.table = a.p.table
            /\ Current(b.p).mem = Current(a.p).mem
            /\ b.ok => Current(b.p).cap = cap
        BY <1>2, <2>2, <4>1, <4>2, ResizeHolds
      <4> QED  BY <1>2, <4>1, <4>3
    <3>2. CASE Used(a.p) # Current(a.p).cap
      <4>1. b = Ok(a.p)  BY <2>1, <3>2
      <4>2. b.p = a.p /\ b.ok = TRUE  BY <4>1 DEF Ok
      <4>3. Used(p) + 1 <= Current(a.p).cap /\ Current(a.p).cap >= Current(p).cap
        BY <1>2, <1>4, <2>2, <3>2
      <4> QED  BY <1>2, <4>2, <4>3
    <3> QED  BY <3>1, <3>2
  <2>4. CASE ~b.ok  BY <2>1, <2>3, <2>4
  <2>5. CASE b.ok
    <3> DEFINE i == CHOOSE j \in DOMAIN b.p.table : b.p.table[j] = t
               ys == <<Slot(i)>>
               xs == <<Reloc(t)>>
               q == Written(b.p, ys)
    <3>1. i \in DOMAIN b.p.table /\ b.p.table[i] = t  BY <1>2, <1>4, <2>3
    <3>2. o.p = q /\ o.ok = TRUE  BY <2>1, <2>5 DEF Ok
    <3> HIDE DEF i
    <3>3. i \in Nat
      <4>1. DOMAIN b.p.table = 1..Len(b.p.table) /\ Len(b.p.table) \in Nat  BY <2>3, GoodIsV2
      <4> QED  BY <3>1, <4>1
    <3>4. /\ ys \in Seq(Words) /\ xs \in Seq(Words) /\ Len(ys) = 1 /\ Len(xs) = 1
          /\ ys[1] = Slot(i) /\ xs[1] = Reloc(t)
      <4>1. Slot(i) \in Words /\ Reloc(t) \in Words  BY <3>3, WordTypes, RelocIsWord
      <4> QED  BY <4>1
    <3> HIDE DEF ys, xs
    <3>5. Used(b.p) = Used(p)  BY <2>3 DEF Used
    <3>6. /\ GoodV2(q) /\ q.table = b.p.table /\ Current(q).mem = Current(b.p).mem \o ys
          /\ Current(q).cap = Current(b.p).cap /\ Used(q) = Used(p) + 1
      <4>1. Used(b.p) + Len(ys) <= Current(b.p).cap  BY <2>3, <2>5, <3>4, <3>5
      <4>2. GoodV2(b.p) /\ ys \in Seq(Words)  BY <2>3, <3>4
      <4>3. /\ GoodV2(q) /\ q.table = b.p.table /\ Current(q).mem = Current(b.p).mem \o ys
            /\ Current(q).cap = Current(b.p).cap /\ Used(q) = Used(b.p) + Len(ys)
        BY <4>1, <4>2, WrittenHoldsV2
      <4> HIDE DEF q
      <4> QED  BY <3>4, <3>5, <4>3
    <3> HIDE DEF q
    <3>7. Used(q) <= Current(q).cap  BY <2>3, <2>5, <3>6
    <3>8. ASSUME NEW r \in Nat \ {0}, Used(p) + r <= Current(p).cap
          PROVE  Used(q) + (r - 1) <= Current(q).cap
      <4>1. Current(b.p).cap \in Nat  BY <2>3, GoodIsV2
      <4> QED  BY <2>2, <2>3, <2>5, <3>6, <3>8, <4>1
    <3>9. ASSUME NEW ws \in Seq(Words), WholeV2(p, ws) PROVE WholeV2(q, ws \o xs)
      <4>1. Current(q).mem = Current(p).mem \o ys  BY <2>3, <3>6
      <4>2. \A k \in DOMAIN p.table : k \in DOMAIN q.table /\ q.table[k] = p.table[k]
        BY <1>2, <1>4, <2>3, <3>6 DEF Extends
      <4>3. \A k \in 1..Len(ys) : /\ ys[k].op = "slot" => ys[k].arg \in DOMAIN q.table
                                  /\ xs[k] = Read(q.table, ys[k])
        <5> TAKE k \in 1..Len(ys)
        <5>1. ys[k] = Slot(i) /\ xs[k] = Reloc(t)  BY <3>4
        <5>2. Slot(i).op = "slot" /\ Slot(i).arg = i  BY DEF Slot, Word
        <5> QED  BY <3>1, <3>6, <5>1, <5>2 DEF Read
      <4>4. Len(xs) = Len(ys)  BY <3>4
      <4> QED  BY <3>4, <3>6, <3>9, <4>1, <4>2, <4>3, <4>4, WholeExtendedV2
    <3> QED  BY <3>2, <3>6, <3>7, <3>8, <3>9 DEF xs
  <2> QED  BY <2>3, <2>4, <2>5
<1> QED  BY <1>2, <1>3, <1>4

LEMMA SyncWordsIs ==
  ASSUME NEW cond \in Conds, NEW keep \in BOOLEAN, class_id \in Classes \cup {None}
  PROVE  /\ SyncWordsV2(cond, keep) \in Seq(Words)
         /\ Len(SyncWordsV2(cond, keep)) = IF keep THEN 4 ELSE 3
         /\ SyncWordsV2(cond, keep)[1] = Increment(cond)
         /\ SyncWordsV2(cond, keep)[2] = Host1x
         /\ SyncWordsV2(cond, keep)[3] = Wait
         /\ keep => SyncWordsV2(cond, keep)[4] = SetClass(class_id)
<1> DEFINE a == Increment(cond)
           c == SetClass(class_id)
<1>1. a \in Words /\ Host1x \in Words /\ Wait \in Words /\ c \in Words  BY WordTypes
<1>2. SyncWordsV2(cond, keep) = <<a, Host1x, Wait>> \o (IF keep THEN <<c>> ELSE <<>>)
  BY DEF SyncWordsV2
<1> HIDE DEF a, c
<1>3. CASE keep
  <2> DEFINE s == <<a, Host1x, Wait>>
             t == <<c>>
  <2>1. /\ s \in Seq(Words) /\ t \in Seq(Words) /\ Len(s) = 3 /\ Len(t) = 1
        /\ s[1] = a /\ s[2] = Host1x /\ s[3] = Wait /\ t[1] = c
    BY <1>1
  <2>2. SyncWordsV2(cond, keep) = s \o t  BY <1>2, <1>3
  <2> HIDE DEF s, t
  <2>3. /\ s \o t \in Seq(Words) /\ Len(s \o t) = Len(s) + Len(t)
        /\ \A i \in 1..Len(s) + Len(t) :
             (s \o t)[i] = IF i <= Len(s) THEN s[i] ELSE t[i - Len(s)]
    BY <2>1, JoinWords
  <2>4. /\ (s \o t)[1] = a /\ (s \o t)[2] = Host1x /\ (s \o t)[3] = Wait
        /\ (s \o t)[4] = c /\ Len(s \o t) = 4
    BY <2>1, <2>3
  <2> QED  BY <1>3, <2>2, <2>3, <2>4 DEF a, c
<1>4. CASE ~keep
  <2>1. SyncWordsV2(cond, keep) = <<a, Host1x, Wait>>  BY <1>1, <1>2, <1>4
  <2> QED  BY <1>1, <1>4, <2>1 DEF a
<1> QED  BY <1>3, <1>4

LEMMA NoSlot ==
  /\ \A cond \in Conds : Increment(cond).op \in Conds /\ Increment(cond).op # "slot"
  /\ Host1x.op = "host1x" /\ Wait.op = "wait" /\ Opcode.op = "opcode" /\ Data.op = "data"
  /\ \A c : SetClass(c).op = "class" /\ SetClass(c).arg = c
  /\ \A t : Reloc(t).op = "reloc"
  BY DEF Increment, Conds, Host1x, Wait, Opcode, Data, SetClass, Reloc, Word

\* Words without a slot are read as they are.
LEMMA WholePlainV2 ==
  ASSUME NEW p, GoodV2(p), NEW q, GoodV2(q), NEW ws \in Seq(Words), NEW ys \in Seq(Words),
         WholeV2(p, ws), Current(q).mem = Current(p).mem \o ys, q.table = p.table,
         \A i \in 1..Len(ys) : ys[i].op # "slot"
  PROVE  WholeV2(q, ws \o ys)
<1>1. \A i \in DOMAIN p.table : i \in DOMAIN q.table /\ q.table[i] = p.table[i]  OBVIOUS
<1>2. \A i \in 1..Len(ys) : /\ ys[i].op = "slot" => ys[i].arg \in DOMAIN q.table
                            /\ ys[i] = Read(q.table, ys[i])
  BY DEF Read
<1> QED  BY <1>1, <1>2, WholeExtendedV2

LEMMA SyncV2Holds ==
  ASSUME NEW p, GoodV2(p), Used(p) <= Current(p).cap, NEW cond \in Conds, NEW keep \in BOOLEAN,
         class_id \in Classes \cup {None}, NEW o \in SyncV2(p, cond, keep)
  PROVE  /\ GoodV2(o.p) /\ o.ok \in BOOLEAN
         /\ o.ok => /\ Used(o.p) <= Current(o.p).cap
                    /\ \A ws \in Seq(Words) : WholeV2(p, ws) =>
                                                WholeV2(o.p, ws \o SyncWordsV2(cond, keep))
<1> DEFINE ys == SyncWordsV2(cond, keep)
<1>1. PICK a \in PrepareV2(p, 4) : IF a.ok THEN o = Ok(Written(a.p, ys)) ELSE o = a
  BY Zenon DEF SyncV2, Then
<1>2. /\ GoodV2(a.p) /\ a.ok \in BOOLEAN /\ a.p.table = p.table
      /\ Current(a.p).mem = Current(p).mem
      /\ a.ok => Used(a.p) + 4 <= Current(a.p).cap
  BY PrepareV2Holds
<1>3. /\ ys \in Seq(Words) /\ Len(ys) \in 3..4 /\ \A i \in 1..Len(ys) : ys[i].op # "slot"
  <2>1. /\ ys \in Seq(Words) /\ Len(ys) = IF keep THEN 4 ELSE 3
        /\ ys[1] = Increment(cond) /\ ys[2] = Host1x /\ ys[3] = Wait
        /\ keep => ys[4] = SetClass(class_id)
    BY SyncWordsIs
  <2> HIDE DEF ys
  <2>2. ys[1].op # "slot" /\ ys[2].op # "slot" /\ ys[3].op # "slot"
        /\ (keep => ys[4].op # "slot")
    BY <2>1, NoSlot
  <2>3. \A i \in 1..Len(ys) : i = 1 \/ i = 2 \/ i = 3 \/ (keep /\ i = 4)  BY <2>1
  <2> QED  BY <2>1, <2>2, <2>3
<1> HIDE DEF ys
<1>4. CASE ~a.ok  BY <1>1, <1>2, <1>4
<1>5. CASE a.ok
  <2> DEFINE q == Written(a.p, ys)
  <2>1. o.p = q /\ o.ok = TRUE  BY <1>1, <1>5 DEF Ok
  <2>2. Used(a.p) \in Nat /\ Current(a.p).cap \in Nat  BY <1>2, GoodIsV2
  <2>3. Used(a.p) + Len(ys) <= Current(a.p).cap
    <3>1. Len(ys) \in Nat /\ Len(ys) <= 4  BY <1>3
    <3>2. Used(a.p) + 4 <= Current(a.p).cap  BY <1>2, <1>5
    <3> QED  BY <2>2, <3>1, <3>2
  <2>4. /\ GoodV2(q) /\ q.table = a.p.table /\ Current(q).mem = Current(a.p).mem \o ys
        /\ Current(q).cap = Current(a.p).cap /\ Used(q) = Used(a.p) + Len(ys)
    BY <1>2, <1>3, <2>3, WrittenHoldsV2
  <2> HIDE DEF q
  <2>5. Used(q) <= Current(q).cap  BY <2>3, <2>4
  <2>6. ASSUME NEW ws \in Seq(Words), WholeV2(p, ws) PROVE WholeV2(q, ws \o ys)
    <3>1. Current(q).mem = Current(p).mem \o ys /\ q.table = p.table  BY <1>2, <2>4
    <3> QED  BY <1>3, <2>4, <2>6, <3>1, WholePlainV2
  <2> QED  BY <2>1, <2>4, <2>5, <2>6 DEF ys
<1> QED  BY <1>4, <1>5

LEMMA ResetHolds ==
  ASSUME NEW p, GoodV2(p)
  PROVE  GoodV2(ResetJob(p)) /\ Current(ResetJob(p)).mem = <<>>
<1> DEFINE b == [Current(p) EXCEPT !.mem = <<>>]
           q == ResetJob(p)
<1>1. /\ p \in Pushes /\ Current(p) = p.bufs[1] /\ Current(p) \in Buffers /\ p.bufs[1].cap \in Nat
  BY GoodIsV2
<1>2. p.slots \in Nat  BY <1>1, PushFields
<1>3. /\ b \in Buffers /\ b.mem = <<>> /\ Len(b.mem) <= b.cap
  <2>1. <<>> \in Seq(Words) /\ Len(<<>>) = 0  BY EmptySeq
  <2>2. Current(p).cap \in Nat  BY <1>1
  <2>3. b \in Buffers  BY <1>1, <2>1 DEF Buffers
  <2>4. b.mem = <<>> /\ b.cap = Current(p).cap  BY <1>1 DEF Buffers
  <2>5. Len(b.mem) <= b.cap
    <3> HIDE DEF b
    <3>1. Len(b.mem) = 0  BY <2>1, <2>4
    <3> QED  BY <2>2, <2>4, <3>1
  <2> QED  BY <2>3, <2>4, <2>5
<1>4. q = Changed(p, b, <<>>, p.slots)
  BY <1>1 DEF ResetJob, Changed, Pushes
<1>5. <<>> \in Seq(Targets)  BY EmptySeq
<1> HIDE DEF b, q
<1>6. GoodV2(Changed(p, b, <<>>, p.slots)) /\ Current(Changed(p, b, <<>>, p.slots)) = b
  <2> DEFINE table == <<>>
  <2>1. "full_end" \notin Admits => Len(b.mem) <= b.cap  BY <1>3
  <2>2. b \in Buffers /\ table \in Seq(Targets)  BY <1>3, <1>5
  <2> HIDE DEF table
  <2>3. GoodV2(Changed(p, b, table, p.slots)) /\ Current(Changed(p, b, table, p.slots)) = b
    BY <1>2, <2>1, <2>2, ChangedV2
  <2> QED  BY <2>3 DEF table
<1> QED  BY <1>3, <1>4, <1>6 DEF q

-----------------------------------------------------------------------------
(* The inductive invariant.                                                *)

JobInv ==
  /\ api \in {None, "v1", "v2"} /\ job \in {"null", "live", "dangling"}
  /\ status \in {"free", "construct", "failed", "ready"}
  /\ api = None => status = "free" /\ job = "null" /\ last_fence = None
  /\ status # "free" => job = "live"
  /\ api = "v2" => job = "live"
  /\ built \in Seq(Words)

PushInv ==
  /\ api # "v2" => GoodV1(push) /\ (job # "live" => push.bufs = <<>>)
  /\ api = "v2" => GoodV2(push)
  /\ api = "v2" /\ status \in {"free", "construct"} => Used(push) <= Current(push).cap
  /\ room \in Nat
  /\ room > 0 => status = "construct" /\ Used(push) + room <= Current(push).cap

WholeInv ==
  /\ api = "v1" /\ status \in {"construct", "ready"} => WholeV1(push, built)
  /\ api = "v2" /\ status \in {"construct", "ready"} => WholeV2(push, built)
  /\ api = "v2" /\ status = "free" => push.bufs[1].mem = <<>>

\* What the library believes of the words, for callers that keep to its rules.
KnownInv ==
  /\ class_id \in Classes \cup {None} /\ op_done_synced \in BOOLEAN
  /\ "drop_class" \notin Admits => ClassIsTracked
  /\ "late_reloc" \notin Admits => DoneIsLast
  /\ api = "v1" /\ status \in {"construct", "ready"} =>
       push.increments = Cardinality({i \in DOMAIN built : built[i].op \in Conds})

FenceInv ==
  /\ fences \subseteq Fences /\ stray \subseteq fences /\ pending \subseteq fences
  /\ last_fence \in fences \cup {None}
  /\ refcnt \in [Fences -> -1..RefLimit + 1] /\ held \in [Fences -> 0..MaxHeld]
  /\ \A f \in Fences : (refcnt[f] >= 0) <=> f \in fences
  /\ \A f \in Fences \ fences : held[f] = 0
  /\ FencesAreCounted

IInv == JobInv /\ PushInv /\ WholeInv /\ KnownInv /\ FenceInv

-----------------------------------------------------------------------------
(* What the words say of the class, the end of the work and the increments. *)

Setters(ws) == {i \in DOMAIN ws : ws[i].op \in {"class", "host1x"}}
Counts(ws) == {i \in DOMAIN ws : ws[i].op \in Conds}

LEMMA JoinedDomain ==
  ASSUME NEW ws \in Seq(Words), NEW xs \in Seq(Words)
  PROVE  /\ Len(ws) \in Nat /\ Len(xs) \in Nat /\ Len(ws \o xs) = Len(ws) + Len(xs)
         /\ DOMAIN ws = 1..Len(ws) /\ DOMAIN xs = 1..Len(xs)
         /\ DOMAIN (ws \o xs) = 1..Len(ws) + Len(xs) /\ ws \o xs \in Seq(Words)
         /\ \A i \in 1..Len(ws) : (ws \o xs)[i] = ws[i] /\ i \in 1..Len(ws) + Len(xs)
         /\ \A i \in 1..Len(xs) : /\ (ws \o xs)[Len(ws) + i] = xs[i]
                                  /\ Len(ws) + i \in 1..Len(ws) + Len(xs)
         /\ \A i \in 1..Len(ws) + Len(xs) :
              i \in 1..Len(ws) \/ \E j \in 1..Len(xs) : i = Len(ws) + j
<1> DEFINE n == Len(ws)
           m == Len(xs)
           s == ws \o xs
<1>1. n \in Nat /\ m \in Nat /\ DOMAIN ws = 1..n /\ DOMAIN xs = 1..m  BY LenProperties
<1>2. /\ s \in Seq(Words) /\ Len(s) = n + m
      /\ \A i \in 1..n + m : s[i] = IF i <= n THEN ws[i] ELSE xs[i - n]
  BY JoinWords
<1> HIDE DEF n, m, s
<1>3. DOMAIN s = 1..n + m  BY <1>2, LenProperties
<1>4. \A i \in 1..n : s[i] = ws[i] /\ i \in 1..n + m  BY <1>1, <1>2
<1>5. ASSUME NEW i \in 1..m PROVE s[n + i] = xs[i] /\ n + i \in 1..n + m
  <2> DEFINE k == n + i
  <2>1. k \in 1..n + m /\ ~(k <= n) /\ k - n = i  BY <1>1
  <2> HIDE DEF k
  <2>2. s[k] = xs[i]  BY <1>2, <2>1
  <2> QED  BY <2>1, <2>2 DEF k
<1>6. ASSUME NEW i \in 1..n + m PROVE i \in 1..n \/ \E j \in 1..m : i = n + j
  <2>1. CASE i <= n  BY <1>1, <2>1
  <2>2. CASE ~(i <= n)
    <3>1. i - n \in 1..m /\ i = n + (i - n)  BY <1>1, <2>2
    <3> QED  BY <3>1
  <2> QED  BY <2>1, <2>2
<1> QED  BY <1>1, <1>2, <1>3, <1>4, <1>5, <1>6 DEF n, m, s

LEMMA ClassIs ==
  ASSUME NEW ws \in Seq(Words)
  PROVE  /\ Setters(ws) = {} => ClassAfter(ws) = None
         /\ \A k \in Setters(ws) : (\A i \in Setters(ws) : i <= k) =>
              ClassAfter(ws) = IF ws[k].op = "host1x" THEN Host1x ELSE ws[k].arg
<1>1. ASSUME Setters(ws) = {} PROVE ClassAfter(ws) = None
  BY <1>1, Zenon DEF ClassAfter, Setters
<1>2. ASSUME NEW k \in Setters(ws), \A i \in Setters(ws) : i <= k
      PROVE  ClassAfter(ws) = IF ws[k].op = "host1x" THEN Host1x ELSE ws[k].arg
  <2> DEFINE n == Len(ws)
  <2>1. n \in Nat /\ Setters(ws) \in SUBSET (1..n) /\ Setters(ws) # {}
    BY LenProperties DEF Setters
  <2>2. Max(Setters(ws)) \in Setters(ws) /\ \A y \in Setters(ws) : y <= Max(Setters(ws))
    <3> HIDE DEF n
    <3> QED  BY <2>1, MaxIn
  <2>3. Max(Setters(ws)) = k
    <3> DEFINE x == Max(Setters(ws))
    <3>1. x \in 1..n /\ k \in 1..n  BY <2>1, <2>2
    <3>2. x <= k /\ k <= x  BY <1>2, <2>2
    <3> HIDE DEF x, n
    <3>3. x = k  BY <3>1, <3>2
    <3> QED  BY <3>3 DEF x
  <2>4. ClassAfter(ws) = IF ws[Max(Setters(ws))].op = "host1x" THEN Host1x
                         ELSE ws[Max(Setters(ws))].arg
    BY <2>1, Zenon DEF ClassAfter, Setters
  <2> QED  BY <2>3, <2>4
<1> QED  BY <1>1, <1>2

\* Words that set no class leave it.
LEMMA ClassKept ==
  ASSUME NEW ws \in Seq(Words), NEW xs \in Seq(Words), Setters(xs) = {}
  PROVE  ClassAfter(ws \o xs) = ClassAfter(ws)
<1> DEFINE s == ws \o xs
           n == Len(ws)
           m == Len(xs)
<1>1. /\ s \in Seq(Words) /\ DOMAIN s = 1..n + m /\ DOMAIN ws = 1..n /\ DOMAIN xs = 1..m
      /\ \A i \in 1..n : s[i] = ws[i] /\ i \in 1..n + m
      /\ \A i \in 1..m : s[n + i] = xs[i]
      /\ \A i \in 1..n + m : i \in 1..n \/ \E j \in 1..m : i = n + j
      /\ n \in Nat
  BY JoinedDomain
<1> HIDE DEF n, m, s
<1>2. Setters(s) = Setters(ws) /\ \A i \in Setters(ws) : s[i] = ws[i]
  <2>1. \A i \in 1..m : ~(xs[i].op \in {"class", "host1x"})  BY <1>1 DEF Setters
  <2>2. ASSUME NEW i \in Setters(s) PROVE i \in Setters(ws)
    <3>1. i \in 1..n + m /\ s[i].op \in {"class", "host1x"}  BY <1>1 DEF Setters
    <3>2. CASE i \in 1..n  BY <1>1, <3>1, <3>2 DEF Setters
    <3>3. CASE \E j \in 1..m : i = n + j  BY <1>1, <2>1, <3>1, <3>3
    <3> QED  BY <1>1, <3>1, <3>2, <3>3
  <2>3. ASSUME NEW i \in Setters(ws) PROVE i \in Setters(s) /\ s[i] = ws[i]
    BY <1>1 DEF Setters
  <2> QED  BY <2>2, <2>3
<1>3. CASE Setters(ws) = {}
  <2>1. ClassAfter(s) = None  BY <1>1, <1>2, <1>3, ClassIs
  <2>2. ClassAfter(ws) = None  BY <1>3, ClassIs
  <2> QED  BY <2>1, <2>2 DEF s
<1>4. CASE Setters(ws) # {}
  <2>1. n \in Nat /\ Setters(ws) \in SUBSET (1..n)  BY <1>1 DEF Setters
  <2>2. PICK k \in Setters(ws) : \A i \in Setters(ws) : i <= k  BY <1>4, <2>1, MaxIn
  <2>3. ClassAfter(ws) = IF ws[k].op = "host1x" THEN Host1x ELSE ws[k].arg  BY <2>2, ClassIs
  <2>4. ClassAfter(s) = IF s[k].op = "host1x" THEN Host1x ELSE s[k].arg
    BY <1>1, <1>2, <2>2, ClassIs
  <2>5. s[k] = ws[k]  BY <1>2
  <2>6. ClassAfter(s) = ClassAfter(ws)  BY <2>3, <2>4, <2>5
  <2> QED  BY <2>6 DEF s
<1> QED  BY <1>3, <1>4

\* A word at the end that sets it.
LEMMA ClassSet ==
  ASSUME NEW ws \in Seq(Words), NEW xs \in Seq(Words), NEW c,
         Len(xs) # 0, xs[Len(xs)] = SetClass(c)
  PROVE  ClassAfter(ws \o xs) = c
<1> DEFINE k == Len(ws) + Len(xs)
           s == ws \o xs
<1>1. Len(xs) \in 1..Len(xs) /\ Len(ws) \in Nat /\ Len(xs) \in Nat  BY LenProperties
<1>2. s \in Seq(Words) /\ DOMAIN s = 1..k /\ s[k] = SetClass(c) /\ k \in 1..k
  BY <1>1, JoinedDomain
<1> HIDE DEF s
<1>3. k \in Setters(s)  BY <1>2, NoSlot DEF Setters
<1>4. \A i \in Setters(s) : i <= k  BY <1>1, <1>2 DEF Setters
<1>5. ClassAfter(s) = IF s[k].op = "host1x" THEN Host1x ELSE s[k].arg
  <2> HIDE DEF k
  <2> QED  BY <1>2, <1>3, <1>4, ClassIs
<1> HIDE DEF k
<1>6. s[k].op = "class" /\ s[k].arg = c  BY <1>2, NoSlot
<1> QED  BY <1>5, <1>6 DEF s

\* Nothing but bookkeeping after the end of the work keeps it the end.
LEMMA ClosedKept ==
  ASSUME NEW ws \in Seq(Words), NEW xs \in Seq(Words), Closed(ws),
         \A i \in 1..Len(xs) : xs[i].op \notin {"data", "reloc"}
  PROVE  Closed(ws \o xs)
<1> DEFINE n == Len(ws)
           m == Len(xs)
           s == ws \o xs
<1>1. PICK k \in 1..n : /\ ws[k] = Increment("op_done")
                        /\ \A j \in k + 1..n : ws[j].op \notin {"data", "reloc"}
  BY JoinedDomain DEF Closed
<1>2. /\ n \in Nat /\ m \in Nat /\ Len(s) = n + m /\ DOMAIN s = 1..n + m
      /\ \A i \in 1..n : s[i] = ws[i] /\ i \in 1..n + m
      /\ \A i \in 1..m : s[n + i] = xs[i]
      /\ \A i \in 1..n + m : i \in 1..n \/ \E j \in 1..m : i = n + j
  BY JoinedDomain
<1>3. \A i \in 1..m : xs[i].op \notin {"data", "reloc"}  OBVIOUS
<1> HIDE DEF n, m, s
<1>4. k \in DOMAIN s /\ s[k] = Increment("op_done")  BY <1>1, <1>2
<1>5. ASSUME NEW j \in k + 1..n + m PROVE s[j].op \notin {"data", "reloc"}
  <2>1. j \in 1..n + m  BY <1>1, <1>2
  <2>2. CASE j \in 1..n
    <3>1. j \in k + 1..n  BY <1>1, <2>2
    <3> QED  BY <1>1, <1>2, <2>2, <3>1
  <2>3. CASE \E i \in 1..m : j = n + i  BY <1>2, <1>3, <2>3
  <2> QED  BY <1>2, <2>1, <2>2, <2>3
<1>6. Closed(s)  BY <1>2, <1>4, <1>5 DEF Closed
<1> QED  BY <1>6 DEF s

LEMMA ClosedNow ==
  ASSUME NEW ws \in Seq(Words), NEW xs \in Seq(Words), NEW k \in 1..Len(xs),
         xs[k] = Increment("op_done"),
         \A i \in 1..Len(xs) : xs[i].op \notin {"data", "reloc"}
  PROVE  Closed(ws \o xs)
<1> DEFINE n == Len(ws)
           m == Len(xs)
           s == ws \o xs
<1>1. /\ n \in Nat /\ m \in Nat /\ Len(s) = n + m /\ DOMAIN s = 1..n + m
      /\ \A i \in 1..m : s[n + i] = xs[i] /\ n + i \in 1..n + m
      /\ \A i \in 1..n + m : i \in 1..n \/ \E j \in 1..m : i = n + j
  BY JoinedDomain
<1>2. \A i \in 1..m : xs[i].op \notin {"data", "reloc"}  OBVIOUS
<1>3. k \in 1..m  OBVIOUS
<1> HIDE DEF n, m, s
<1>4. n + k \in DOMAIN s /\ s[n + k] = Increment("op_done")  BY <1>1, <1>3
<1>5. ASSUME NEW j \in n + k + 1..n + m PROVE s[j].op \notin {"data", "reloc"}
  <2>1. j \in 1..n + m /\ j \notin 1..n  BY <1>1, <1>3
  <2>2. PICK i \in 1..m : j = n + i  BY <1>1, <2>1
  <2> QED  BY <1>1, <1>2, <2>2
<1>6. Closed(s)  BY <1>1, <1>4, <1>5 DEF Closed
<1> QED  BY <1>6 DEF s

LEMMA CountKept ==
  ASSUME NEW ws \in Seq(Words), NEW xs \in Seq(Words), Counts(xs) = {}
  PROVE  Counts(ws \o xs) = Counts(ws)
<1>1. \A i \in 1..Len(xs) : ~((ws \o xs)[Len(ws) + i].op \in Conds)
  BY JoinedDomain DEF Counts
<1> QED  BY <1>1, JoinedDomain DEF Counts

LEMMA CountIs ==
  ASSUME NEW ws \in Seq(Words)
  PROVE  IsFiniteSet(Counts(ws)) /\ Cardinality(Counts(ws)) \in Nat
<1>1. Counts(ws) \subseteq 1..Len(ws) /\ Len(ws) \in Nat  BY LenProperties DEF Counts
<1>2. IsFiniteSet(1..Len(ws))  BY <1>1, FS_Interval
<1>3. IsFiniteSet(Counts(ws))  BY <1>1, <1>2, FS_Subset
<1> QED  BY <1>3, FS_CardinalityType

\* One increment at the end.
LEMMA CountOne ==
  ASSUME NEW ws \in Seq(Words), NEW xs \in Seq(Words), NEW k \in 1..Len(xs), Counts(xs) = {k}
  PROVE  Cardinality(Counts(ws \o xs)) = Cardinality(Counts(ws)) + 1
<1> DEFINE n == Len(ws) + k
<1>1. \A i \in 1..Len(xs) : (ws \o xs)[Len(ws) + i].op \in Conds <=> i = k
  BY JoinedDomain DEF Counts
<1>2. n \notin Counts(ws)
  <2>1. Len(ws) \in Nat  BY LenProperties
  <2>2. ~(n \in 1..Len(ws))  BY <2>1
  <2> QED  BY <2>2, JoinedDomain DEF Counts
<1>3. n \in Counts(ws \o xs)  BY <1>1, JoinedDomain DEF Counts
<1>4. Counts(ws \o xs) = Counts(ws) \cup {n}
  <2>1. Counts(ws) \subseteq Counts(ws \o xs)  BY JoinedDomain DEF Counts
  <2>2. ASSUME NEW i \in Counts(ws \o xs) PROVE i \in Counts(ws) \/ i = n
    <3>1. i \in 1..Len(ws) + Len(xs) /\ (ws \o xs)[i].op \in Conds
      BY JoinedDomain DEF Counts
    <3>2. CASE i \in 1..Len(ws)  BY <3>1, <3>2, JoinedDomain DEF Counts
    <3>3. CASE \E j \in 1..Len(xs) : i = Len(ws) + j  BY <1>1, <3>1, <3>3
    <3> QED  BY <3>1, <3>2, <3>3, JoinedDomain
  <2> HIDE DEF n
  <2> QED  BY <1>3, <2>1, <2>2
<1> HIDE DEF n
<1> QED  BY <1>2, <1>4, CountIs, FS_AddElement

-----------------------------------------------------------------------------
(* Fences.                                                                 *)

Stored(f) == IF f = last_fence THEN 1 ELSE 0
Lost(f) == IF f \in stray THEN 1 ELSE 0

LEMMA FenceIs ==
  ASSUME FenceInv
  PROVE  /\ \A f \in Fences : refcnt[f] \in Int /\ held[f] \in 0..MaxHeld /\ held[f] \in Nat
         /\ \A f \in fences : f \in Fences /\ f # None /\ ~Refused(f) /\ refcnt[f] >= 0
                              /\ refcnt[f] + 1 = held[f] + Stored(f) + Lost(f)
         /\ \A f \in Fences \ fences : held[f] = 0 /\ refcnt[f] < 0 /\ Refused(f)
         /\ \A f \in Fences : held[f] > 0 => f \in fences
         /\ MaxHeld \in Nat /\ RefLimit \in Nat /\ MaxHeld < RefLimit
<1>1. MaxHeld \in Nat /\ RefLimit \in Nat /\ MaxHeld < RefLimit /\ None \notin Fences
  BY TegraStreamAssumption
<1>2. \A f \in Fences : refcnt[f] \in Int /\ held[f] \in 0..MaxHeld /\ held[f] \in Nat
  <2>1. \A f \in Fences : refcnt[f] \in -1..RefLimit + 1 /\ held[f] \in 0..MaxHeld
    BY DEF FenceInv
  <2> QED  BY <1>1, <2>1
<1>3. ASSUME NEW f \in fences
      PROVE  /\ f \in Fences /\ f # None /\ ~Refused(f) /\ refcnt[f] >= 0
             /\ refcnt[f] + 1 = held[f] + Stored(f) + Lost(f)
  <2>1. f \in Fences /\ refcnt[f] >= 0  BY <1>1, <1>2 DEF FenceInv
  <2>2. refcnt[f] + 1 = held[f] + Stored(f) + Lost(f)
    BY DEF FenceInv, FencesAreCounted, Stored, Lost
  <2>3. Stored(f) \in 0..1 /\ Lost(f) \in 0..1  BY DEF Stored, Lost
  <2>4. refcnt[f] <= RefLimit  BY <1>1, <1>2, <2>1, <2>2, <2>3
  <2> QED  BY <1>1, <1>2, <2>1, <2>2, <2>4 DEF Refused
<1>4. \A f \in Fences \ fences : held[f] = 0 /\ refcnt[f] < 0 /\ Refused(f)
  BY <1>2 DEF FenceInv, Refused
<1>5. \A f \in Fences : held[f] > 0 => f \in fences  BY <1>4
<1> QED  BY <1>1, <1>2, <1>3, <1>4, <1>5

LEMMA FencesKept ==
  ASSUME FenceInv, UNCHANGED fenceVars
  PROVE  FenceInv'
  BY DEF FenceInv, fenceVars, FencesAreCounted

\* What FenceInv asks, fence by fence.
LEMMA FenceInvBy ==
  ASSUME fences' \subseteq Fences, stray' \subseteq fences', pending' \subseteq fences',
         last_fence' \in fences' \cup {None},
         refcnt' \in [Fences -> Int], held' \in [Fences -> 0..MaxHeld],
         \A f \in Fences \ fences' : refcnt'[f] = -1 /\ held'[f] = 0,
         \A f \in fences' : /\ refcnt'[f] >= 0
                            /\ refcnt'[f] + 1 = held'[f] + (IF f = last_fence' THEN 1 ELSE 0)
                                                         + (IF f \in stray' THEN 1 ELSE 0)
  PROVE  FenceInv'
<1>1. MaxHeld \in Nat /\ RefLimit \in Nat /\ MaxHeld < RefLimit
  BY TegraStreamAssumption
<1>2. ASSUME NEW f \in Fences PROVE refcnt'[f] \in -1..RefLimit + 1
  <2>1. CASE f \in fences'
    <3>1. refcnt'[f] + 1 <= held'[f] + 2  BY <2>1
    <3>2. held'[f] \in 0..MaxHeld /\ refcnt'[f] \in Int /\ refcnt'[f] >= 0  BY <2>1
    <3> QED  BY <1>1, <3>1, <3>2
  <2>2. CASE f \notin fences'  BY <1>1, <2>2
  <2> QED  BY <2>1, <2>2
<1>3. refcnt' \in [Fences -> -1..RefLimit + 1]  BY <1>2
<1>4. \A f \in Fences : (refcnt'[f] >= 0) <=> f \in fences'
  <2> TAKE f \in Fences
  <2>1. CASE f \in fences'  BY <2>1
  <2>2. CASE f \notin fences'
    <3>1. refcnt'[f] = -1  BY <2>2
    <3>2. ~(-1 >= 0)  OBVIOUS
    <3> QED  BY <2>2, <3>1, <3>2
  <2> QED  BY <2>1, <2>2
<1> QED  BY <1>3, <1>4 DEF FenceInv, FencesAreCounted

LEMMA GoneIs ==
  ASSUME FenceInv, NEW f \in Fences \ fences
  PROVE  refcnt[f] = -1
<1>1. refcnt[f] \in -1..RefLimit + 1  BY DEF FenceInv
<1>2. refcnt[f] < 0  BY FenceIs
<1>3. RefLimit \in Nat  BY TegraStreamAssumption
<1> QED  BY <1>1, <1>2, <1>3

\* The stream lets its last fence go.
LEMMA LastFencePut ==
  ASSUME FenceInv, PutFence(last_fence), last_fence' = None, UNCHANGED <<held, stray>>
  PROVE  FenceInv'
<1> DEFINE f == last_fence
<1>0. /\ fences \subseteq Fences /\ stray \subseteq fences /\ pending \subseteq fences
      /\ last_fence \in fences \cup {None} /\ held \in [Fences -> 0..MaxHeld]
      /\ refcnt \in [Fences -> Int]
  <2>1. \A g \in Fences : refcnt[g] \in Int  BY FenceIs
  <2> QED  BY <2>1 DEF FenceInv
<1>1. None \notin fences  BY FenceIs
<1>2. CASE last_fence = None
  <2>1. UNCHANGED <<fences, refcnt, pending>>  BY <1>2 DEF PutFence
  <2> QED  BY <1>2, <2>1, FencesKept DEF fenceVars
<1>3. CASE last_fence # None
  <2>1. f \in fences /\ f \in Fences /\ ~Refused(f)  BY <1>0, <1>3, FenceIs
  <2>2. /\ refcnt' = [refcnt EXCEPT ![f] = @ - 1]
        /\ fences' = IF refcnt[f] = 0 THEN fences \ {f} ELSE fences
        /\ pending' = IF refcnt[f] = 0 THEN pending \ {f} ELSE pending
    BY <1>3, <2>1 DEF PutFence
  <2>3. refcnt[f] + 1 = held[f] + 1 + Lost(f) /\ held[f] \in Nat /\ refcnt[f] \in Int
    BY <2>1, FenceIs DEF Stored
  <2>4. refcnt[f] = 0 => f \notin stray /\ held[f] = 0  BY <2>3 DEF Lost
  <2>5. /\ refcnt'[f] = refcnt[f] - 1 /\ \A g \in Fences : g # f => refcnt'[g] = refcnt[g]
        /\ refcnt' \in [Fences -> Int]
    <3>1. refcnt[f] - 1 \in Int  BY <2>3
    <3> QED  BY <1>0, <2>1, <2>2, <3>1
  <2> HIDE DEF f
  <2>6. ASSUME NEW g \in Fences \ fences' PROVE refcnt'[g] = -1 /\ held'[g] = 0
    <3>1. CASE g = f
      <4>1. refcnt[f] = 0  BY <2>1, <2>2, <3>1
      <4> QED  BY <2>4, <2>5, <3>1, <4>1
    <3>2. CASE g # f
      <4>1. g \in Fences \ fences  BY <2>2, <3>2
      <4> QED  BY <2>5, <3>2, <4>1, GoneIs, FenceIs
    <3> QED  BY <3>1, <3>2
  <2>7. ASSUME NEW g \in fences'
        PROVE  /\ refcnt'[g] >= 0
               /\ refcnt'[g] + 1 = held'[g] + (IF g = last_fence' THEN 1 ELSE 0)
                                            + (IF g \in stray' THEN 1 ELSE 0)
    <3>1. /\ g \in fences /\ g \in Fences /\ g # None /\ refcnt[g] \in Int /\ refcnt[g] >= 0
          /\ refcnt[g] + 1 = held[g] + Stored(g) + Lost(g) /\ held[g] \in Nat
      <4>1. g \in fences  BY <2>2
      <4> QED  BY <4>1, FenceIs
    <3>2. CASE g = f
      <4>1. refcnt[f] # 0  BY <2>2, <3>2
      <4> QED  BY <2>3, <2>5, <3>1, <3>2, <4>1 DEF Lost
    <3>3. CASE g # f
      <4>1. Stored(g) = 0  BY <3>3 DEF Stored, f
      <4> QED  BY <2>5, <3>1, <3>3, <4>1 DEF Lost
    <3> QED  BY <3>2, <3>3
  <2>8. fences' \subseteq Fences /\ stray' \subseteq fences' /\ pending' \subseteq fences'
    BY <1>0, <2>2, <2>4
  <2> QED  BY <1>0, <2>5, <2>6, <2>7, <2>8, FenceInvBy
<1> QED  BY <1>2, <1>3

\* A user lets a fence go.
LEMMA ReleaseHolds ==
  ASSUME FenceInv, NEW f \in Fences, ReleaseFence(f)
  PROVE  FenceInv'
<1>0. /\ fences \subseteq Fences /\ stray \subseteq fences /\ pending \subseteq fences
      /\ last_fence \in fences \cup {None} /\ held \in [Fences -> 0..MaxHeld]
      /\ refcnt \in [Fences -> Int]
  <2>1. \A g \in Fences : refcnt[g] \in Int  BY FenceIs
  <2> QED  BY <2>1 DEF FenceInv
<1>1. /\ held[f] > 0 /\ PutFence(f) /\ held' = [held EXCEPT ![f] = @ - 1]
      /\ UNCHANGED <<last_fence, stray>>
  BY DEF ReleaseFence
<1>2. f \in fences /\ f # None /\ ~Refused(f)  BY <1>1, FenceIs
<1>3. /\ refcnt' = [refcnt EXCEPT ![f] = @ - 1]
      /\ fences' = IF refcnt[f] = 0 THEN fences \ {f} ELSE fences
      /\ pending' = IF refcnt[f] = 0 THEN pending \ {f} ELSE pending
  BY <1>1, <1>2 DEF PutFence
<1>4. /\ refcnt[f] + 1 = held[f] + Stored(f) + Lost(f) /\ held[f] \in Nat /\ refcnt[f] \in Int
      /\ held[f] \in 0..MaxHeld /\ MaxHeld \in Nat /\ refcnt[f] >= 0
  BY <1>2, FenceIs
<1>5. refcnt[f] = 0 => f \notin stray /\ f # last_fence /\ held[f] = 1
  BY <1>1, <1>4 DEF Stored, Lost
<1>6. /\ refcnt'[f] = refcnt[f] - 1 /\ held'[f] = held[f] - 1
      /\ \A g \in Fences : g # f => refcnt'[g] = refcnt[g] /\ held'[g] = held[g]
  BY <1>0, <1>1, <1>3
<1>7. refcnt' \in [Fences -> Int] /\ held' \in [Fences -> 0..MaxHeld]
  <2>1. refcnt[f] - 1 \in Int /\ held[f] - 1 \in 0..MaxHeld  BY <1>1, <1>4
  <2> QED  BY <1>0, <1>1, <1>3, <2>1
<1>8. ASSUME NEW g \in Fences \ fences' PROVE refcnt'[g] = -1 /\ held'[g] = 0
  <2>1. CASE g = f
    <3>1. refcnt[f] = 0  BY <1>2, <1>3, <2>1
    <3> QED  BY <1>5, <1>6, <2>1, <3>1
  <2>2. CASE g # f
    <3>1. g \in Fences \ fences  BY <1>3, <2>2
    <3> QED  BY <1>6, <2>2, <3>1, GoneIs, FenceIs
  <2> QED  BY <2>1, <2>2
<1>9. ASSUME NEW g \in fences'
      PROVE  /\ refcnt'[g] >= 0
             /\ refcnt'[g] + 1 = held'[g] + (IF g = last_fence' THEN 1 ELSE 0)
                                          + (IF g \in stray' THEN 1 ELSE 0)
  <2>1. /\ g \in fences /\ g \in Fences /\ refcnt[g] \in Int /\ refcnt[g] >= 0
        /\ refcnt[g] + 1 = held[g] + Stored(g) + Lost(g) /\ held[g] \in Nat
    <3>1. g \in fences  BY <1>3
    <3> QED  BY <3>1, FenceIs
  <2>2. Stored(g) = (IF g = last_fence' THEN 1 ELSE 0) /\ Lost(g) = (IF g \in stray' THEN 1 ELSE 0)
    BY <1>1 DEF Stored, Lost
  <2>3. Stored(g) \in Int /\ Lost(g) \in Int  BY DEF Stored, Lost
  <2>4. CASE g = f
    <3>1. refcnt[f] # 0  BY <1>3, <2>4
    <3>2. refcnt'[f] >= 0 /\ refcnt'[f] + 1 = held'[f] + Stored(f) + Lost(f)
      BY <1>4, <1>6, <2>3, <2>4, <3>1
    <3> QED  BY <2>2, <2>4, <3>2
  <2>5. CASE g # f
    <3>1. refcnt'[g] = refcnt[g] /\ held'[g] = held[g]  BY <1>6, <2>1, <2>5
    <3> QED  BY <2>1, <2>2, <3>1
  <2> QED  BY <2>4, <2>5
<1>10. /\ fences' \subseteq Fences /\ stray' \subseteq fences' /\ pending' \subseteq fences'
       /\ last_fence' \in fences' \cup {None}
  BY <1>0, <1>1, <1>3, <1>5
<1> QED  BY <1>7, <1>8, <1>9, <1>10, FenceInvBy

LEMMA WaitHolds ==
  ASSUME FenceInv, NEW f \in Fences, WaitFence(f)
  PROVE  FenceInv'
<1>1. pending' = pending \ {f} /\ UNCHANGED <<last_fence, fences, refcnt, held, stray>>
  BY DEF WaitFence
<1> QED  BY <1>1 DEF FenceInv, FencesAreCounted

LEMMA GetHolds ==
  ASSUME FenceInv, GetLastFence
  PROVE  FenceInv'
<1> DEFINE f == last_fence
<1>0. /\ fences \subseteq Fences /\ stray \subseteq fences /\ pending \subseteq fences
      /\ last_fence \in fences \cup {None} /\ held \in [Fences -> 0..MaxHeld]
      /\ refcnt \in [Fences -> Int]
  <2>1. \A g \in Fences : refcnt[g] \in Int  BY FenceIs
  <2> QED  BY <2>1 DEF FenceInv
<1>1. /\ f # None /\ held[f] < MaxHeld
      /\ refcnt' = [refcnt EXCEPT ![f] = @ + 1] /\ held' = [held EXCEPT ![f] = @ + 1]
      /\ UNCHANGED <<last_fence, fences, pending, stray>>
  BY DEF GetLastFence
<1>2. f \in fences /\ f \in Fences  BY <1>0, <1>1
<1>3. /\ refcnt[f] + 1 = held[f] + Stored(f) + Lost(f) /\ held[f] \in Nat /\ refcnt[f] \in Int
      /\ held[f] \in 0..MaxHeld /\ MaxHeld \in Nat /\ refcnt[f] >= 0
  BY <1>2, FenceIs
<1>4. /\ refcnt'[f] = refcnt[f] + 1 /\ held'[f] = held[f] + 1
      /\ \A g \in Fences : g # f => refcnt'[g] = refcnt[g] /\ held'[g] = held[g]
  BY <1>0, <1>1, <1>2
<1>5. refcnt' \in [Fences -> Int] /\ held' \in [Fences -> 0..MaxHeld]
  <2>1. refcnt[f] + 1 \in Int /\ held[f] + 1 \in 0..MaxHeld  BY <1>1, <1>3
  <2> QED  BY <1>0, <1>1, <1>2, <2>1
<1>6. ASSUME NEW g \in Fences \ fences' PROVE refcnt'[g] = -1 /\ held'[g] = 0
  <2>1. g \in Fences \ fences /\ g # f  BY <1>1, <1>2
  <2> QED  BY <1>4, <2>1, GoneIs, FenceIs
<1>7. ASSUME NEW g \in fences'
      PROVE  /\ refcnt'[g] >= 0
             /\ refcnt'[g] + 1 = held'[g] + (IF g = last_fence' THEN 1 ELSE 0)
                                          + (IF g \in stray' THEN 1 ELSE 0)
  <2>1. /\ g \in fences /\ g \in Fences /\ refcnt[g] \in Int /\ refcnt[g] >= 0
        /\ refcnt[g] + 1 = held[g] + Stored(g) + Lost(g) /\ held[g] \in Nat
    <3>1. g \in fences  BY <1>1
    <3> QED  BY <3>1, FenceIs
  <2>2. Stored(g) = (IF g = last_fence' THEN 1 ELSE 0) /\ Lost(g) = (IF g \in stray' THEN 1 ELSE 0)
    BY <1>1 DEF Stored, Lost
  <2>3. Stored(g) \in Int /\ Lost(g) \in Int  BY DEF Stored, Lost
  <2> HIDE DEF f
  <2>4. CASE g = f
    <3>1. refcnt'[f] >= 0 /\ refcnt'[f] + 1 = held'[f] + Stored(f) + Lost(f)
      BY <1>3, <1>4, <2>3, <2>4
    <3> QED  BY <2>2, <2>4, <3>1
  <2>5. CASE g # f
    <3>1. refcnt'[g] = refcnt[g] /\ held'[g] = held[g]  BY <1>4, <2>1, <2>5
    <3> QED  BY <2>1, <2>2, <3>1
  <2> QED  BY <2>4, <2>5
<1>8. /\ fences' \subseteq Fences /\ stray' \subseteq fences' /\ pending' \subseteq fences'
      /\ last_fence' \in fences' \cup {None}
  BY <1>0, <1>1
<1> QED  BY <1>5, <1>6, <1>7, <1>8, FenceInvBy

\* A fence of a job the kernel refused.
LEMMA StrayHolds ==
  ASSUME FenceInv, NEW f \in Fences \ fences, fences' = fences \cup {f}, stray' = stray \cup {f},
         refcnt' = [refcnt EXCEPT ![f] = 0], UNCHANGED <<last_fence, pending, held>>
  PROVE  FenceInv'
<1>0. /\ fences \subseteq Fences /\ stray \subseteq fences /\ pending \subseteq fences
      /\ last_fence \in fences \cup {None} /\ held \in [Fences -> 0..MaxHeld]
      /\ refcnt \in [Fences -> Int]
  <2>1. \A g \in Fences : refcnt[g] \in Int  BY FenceIs
  <2> QED  BY <2>1 DEF FenceInv
<1>1. held[f] = 0 /\ f # last_fence
  <2>1. None \notin Fences  BY TegraStreamAssumption
  <2> QED  BY <1>0, <2>1, FenceIs
<1>2. refcnt'[f] = 0 /\ \A g \in Fences : g # f => refcnt'[g] = refcnt[g]  BY <1>0
<1>3. refcnt' \in [Fences -> Int]  BY <1>0
<1>4. ASSUME NEW g \in Fences \ fences' PROVE refcnt'[g] = -1 /\ held'[g] = 0
  <2>1. g \in Fences \ fences /\ g # f  OBVIOUS
  <2> QED  BY <1>2, <2>1, GoneIs, FenceIs
<1>5. ASSUME NEW g \in fences'
      PROVE  /\ refcnt'[g] >= 0
             /\ refcnt'[g] + 1 = held'[g] + (IF g = last_fence' THEN 1 ELSE 0)
                                          + (IF g \in stray' THEN 1 ELSE 0)
  <2>1. CASE g = f
    <3>1. g # last_fence' /\ g \in stray' /\ held'[g] = 0 /\ refcnt'[g] = 0
      BY <1>1, <1>2, <2>1
    <3> QED  BY <3>1
  <2>2. CASE g # f
    <3>1. /\ g \in fences /\ g \in Fences /\ refcnt[g] >= 0
          /\ refcnt[g] + 1 = held[g] + Stored(g) + Lost(g)
      BY <2>2, FenceIs
    <3>2. /\ Stored(g) = (IF g = last_fence' THEN 1 ELSE 0)
          /\ Lost(g) = (IF g \in stray' THEN 1 ELSE 0)
      BY <2>2 DEF Stored, Lost
    <3>3. refcnt'[g] = refcnt[g] /\ held'[g] = held[g]  BY <1>2, <2>2, <3>1
    <3> QED  BY <3>1, <3>2, <3>3
  <2> QED  BY <2>1, <2>2
<1>6. /\ fences' \subseteq Fences /\ stray' \subseteq fences' /\ pending' \subseteq fences'
      /\ last_fence' \in fences' \cup {None}
  BY <1>0
<1>7. held' \in [Fences -> 0..MaxHeld]  BY <1>0
<1> QED  BY <1>3, <1>4, <1>5, <1>6, <1>7, FenceInvBy

\* The fence of the next job takes the place of the last one.
LEMMA ReplaceHolds ==
  ASSUME FenceInv, NEW f \in Fences \ fences, ReplaceLastFence(f)
  PROVE  FenceInv'
<1> DEFINE old == last_fence
           gone == {g \in {old} \ {None} : refcnt[g] = 0}
           put == {g \in {old} \ {None} : ~Refused(g)}
<1>0. /\ fences \subseteq Fences /\ stray \subseteq fences /\ pending \subseteq fences
      /\ last_fence \in fences \cup {None} /\ held \in [Fences -> 0..MaxHeld]
      /\ refcnt \in [Fences -> Int]
  <2>1. \A g \in Fences : refcnt[g] \in Int  BY FenceIs
  <2> QED  BY <2>1 DEF FenceInv
<1>1. /\ fences' = (fences \ gone) \cup {f} /\ pending' \subseteq (pending \ gone) \cup {f}
      /\ refcnt' = [g \in Fences |-> IF g = f THEN 0
                                     ELSE IF g \in put THEN refcnt[g] - 1 ELSE refcnt[g]]
      /\ last_fence' = f /\ UNCHANGED <<held, stray>>
  BY DEF ReplaceLastFence
<1>2. f # None /\ held[f] = 0 /\ f # old /\ f \notin stray
  <2>1. None \notin Fences  BY TegraStreamAssumption
  <2> QED  BY <1>0, <2>1, FenceIs
<1>3. \A g \in fences : /\ g \in put <=> g = old
                        /\ g \in gone <=> g = old /\ refcnt[g] = 0
  BY FenceIs
<1>4. put \subseteq fences /\ gone \subseteq fences
  BY <1>0
<1> HIDE DEF put, gone
<1>5. /\ refcnt'[f] = 0
      /\ \A g \in Fences : g # f => refcnt'[g] = IF g \in put THEN refcnt[g] - 1 ELSE refcnt[g]
  BY <1>1
<1>6. refcnt' \in [Fences -> Int]
  <2>1. \A g \in Fences : refcnt[g] \in Int /\ refcnt[g] - 1 \in Int  BY <1>0
  <2> QED  BY <1>1, <2>1
<1>7. ASSUME NEW g \in fences
      PROVE  /\ g \in Fences /\ g # f /\ refcnt[g] \in Int /\ refcnt[g] >= 0 /\ held[g] \in Nat
             /\ refcnt[g] + 1 = held[g] + (IF g = old THEN 1 ELSE 0) + Lost(g)
  BY FenceIs DEF Stored
<1>8. ASSUME NEW g \in Fences \ fences' PROVE refcnt'[g] = -1 /\ held'[g] = 0
  <2>1. g # f  BY <1>1
  <2>2. CASE g \in fences
    <3>1. g \in gone  BY <1>1, <2>2
    <3>2. g = old /\ refcnt[g] = 0 /\ g \in put  BY <1>3, <2>2, <3>1
    <3>3. held[g] = 0  BY <1>7, <2>2, <3>2 DEF Lost
    <3> QED  BY <1>1, <1>5, <2>1, <3>2, <3>3
  <2>3. CASE g \notin fences
    <3>1. g \notin put  BY <1>4, <2>3
    <3> QED  BY <1>1, <1>5, <2>1, <2>3, <3>1, GoneIs, FenceIs
  <2> QED  BY <2>2, <2>3
<1>9. ASSUME NEW g \in fences'
      PROVE  /\ refcnt'[g] >= 0
             /\ refcnt'[g] + 1 = held'[g] + (IF g = last_fence' THEN 1 ELSE 0)
                                          + (IF g \in stray' THEN 1 ELSE 0)
  <2>1. CASE g = f
    <3>1. g = last_fence' /\ g \notin stray' /\ held'[g] = 0 /\ refcnt'[g] = 0
      BY <1>1, <1>2, <1>5, <2>1
    <3> QED  BY <3>1
  <2>2. CASE g # f
    <3>1. g \in fences /\ g \notin gone  BY <1>1, <2>2
    <3>2. Lost(g) = (IF g \in stray' THEN 1 ELSE 0) /\ g # last_fence' /\ held'[g] = held[g]
      BY <1>1, <2>2 DEF Lost
    <3>3. CASE g = old
      <4>1. refcnt'[g] = refcnt[g] - 1 /\ refcnt[g] # 0  BY <1>3, <1>5, <1>7, <2>2, <3>1, <3>3
      <4> QED  BY <1>7, <3>1, <3>2, <3>3, <4>1 DEF Lost
    <3>4. CASE g # old
      <4>1. refcnt'[g] = refcnt[g]  BY <1>3, <1>5, <1>7, <2>2, <3>1, <3>4
      <4> QED  BY <1>7, <3>1, <3>2, <3>4, <4>1 DEF Lost
    <3> QED  BY <3>3, <3>4
  <2> QED  BY <2>1, <2>2
<1>10. stray' \subseteq fences'
  <2> SUFFICES ASSUME NEW g \in stray, g \in gone PROVE FALSE  BY <1>0, <1>1
  <2>1. g \in fences /\ g = old /\ refcnt[g] = 0  BY <1>0, <1>3
  <2>2. Lost(g) = 1  BY DEF Lost
  <2> QED  BY <1>7, <2>1, <2>2
<1>11. /\ fences' \subseteq Fences /\ pending' \subseteq fences'
       /\ last_fence' \in fences' \cup {None} /\ held' \in [Fences -> 0..MaxHeld]
  BY <1>0, <1>1
<1> QED  BY <1>6, <1>8, <1>9, <1>10, <1>11, FenceInvBy

-----------------------------------------------------------------------------
(* The steps.                                                              *)

LEMMA InitInv ==
  ASSUME Init
  PROVE  IInv
<1>0. /\ api = None /\ push = Empty /\ room = 0 /\ job = "null" /\ status = "free"
      /\ None \notin {"v1", "v2"} /\ class_id = None /\ op_done_synced = FALSE /\ built = <<>>
      /\ last_fence = None /\ fences = {} /\ refcnt = [f \in Fences |-> -1] /\ pending = {}
      /\ held = [f \in Fences |-> 0] /\ stray = {}
  BY TegraStreamAssumption DEF Init
<1>1. JobInv  BY <1>0, EmptySeq DEF JobInv
<1>2. PushInv
  <2>1. GoodV1(push) /\ push.bufs = <<>>  BY <1>0, GoodEmpty
  <2> QED  BY <1>0, <2>1 DEF PushInv
<1>3. WholeInv  BY <1>0 DEF WholeInv
<1>4. KnownInv  BY <1>0 DEF KnownInv, ClassIsTracked, DoneIsLast
<1>5. FenceInv
  <2>1. MaxHeld \in Nat /\ RefLimit \in Nat  BY TegraStreamAssumption
  <2>2. -1 \in -1..RefLimit + 1 /\ 0 \in 0..MaxHeld /\ ~(-1 >= 0)  BY <2>1
  <2> QED  BY <1>0, <2>2 DEF FenceInv, FencesAreCounted
<1> QED  BY <1>1, <1>2, <1>3, <1>4, <1>5 DEF IInv

LEMMA StateIs ==
  ASSUME IInv
  PROVE  /\ None \notin {"v1", "v2"} /\ api \in {None, "v1", "v2"} /\ built \in Seq(Words)
         /\ class_id \in Classes \cup {None} /\ op_done_synced \in BOOLEAN /\ room \in Nat
         /\ status # "free" => api \in {"v1", "v2"} /\ job = "live"
         /\ api # "v2" => GoodV1(push)
         /\ api = "v2" => GoodV2(push)
  BY TegraStreamAssumption DEF IInv, JobInv, PushInv, KnownInv

\* An operation that pushed ws ended with the outcome o and leaves some room.
Operated(o, ws, left) ==
  /\ o.ok \in BOOLEAN /\ ws \in Seq(Words) /\ left \in Nat
  /\ api = "v1" => /\ GoodV1(o.p)
                   /\ o.ok => /\ WholeV1(o.p, built \o ws)
                              /\ o.p.increments = Cardinality(Counts(built \o ws))
  /\ api = "v2" => GoodV2(o.p) /\ (o.ok => WholeV2(o.p, built \o ws))
  /\ o.ok /\ left > 0 => Used(o.p) + left <= Current(o.p).cap

LEMMA OperatedV1 ==
  ASSUME api = "v1", NEW o, o.ok \in BOOLEAN, NEW ws \in Seq(Words), GoodV1(o.p),
         o.ok => WholeV1(o.p, built \o ws),
         o.ok => o.p.increments = Cardinality(Counts(built \o ws))
  PROVE  Operated(o, ws, 0)
<1>1. api # "v2" /\ ~(0 > 0) /\ 0 \in Nat  OBVIOUS
<1> QED  BY <1>1 DEF Operated

LEMMA OperatedV2 ==
  ASSUME api = "v2", NEW o, o.ok \in BOOLEAN, NEW ws \in Seq(Words), GoodV2(o.p),
         o.ok => WholeV2(o.p, built \o ws)
  PROVE  Operated(o, ws, 0)
<1>1. api # "v1" /\ ~(0 > 0) /\ 0 \in Nat  OBVIOUS
<1> QED  BY <1>1 DEF Operated

\* A part of an operation that failed.
LEMMA OperatedFailed ==
  ASSUME NEW o, o.ok = FALSE, NEW ws \in Seq(Words), api = "v1" => GoodV1(o.p),
         api = "v2" => GoodV2(o.p)
  PROVE  Operated(o, ws, 0)
<1>1. o.ok \in BOOLEAN /\ ~o.ok /\ 0 \in Nat  OBVIOUS
<1> QED  BY <1>1 DEF Operated

LEMMA StepHolds ==
  ASSUME IInv, status = "construct", NEW o, NEW ws, NEW left, Operated(o, ws, left),
         push' = o.p, api' = api, job' = job, UNCHANGED fenceVars,
         o.ok => /\ status' \in {"construct", "ready"} /\ built' = built \o ws /\ room' = left
                 /\ left > 0 => status' = "construct",
         ~o.ok => status' = "failed" /\ room' = 0 /\ built' = built,
         api = "v2" /\ status' = "construct" => Used(o.p) <= Current(o.p).cap,
         class_id' \in Classes \cup {None}, op_done_synced' \in BOOLEAN,
         "drop_class" \notin Admits /\ status' = "construct" => ClassAfter(built \o ws) = class_id',
         "late_reloc" \notin Admits /\ status' = "construct" /\ op_done_synced'
           => Closed(built \o ws)
  PROVE  IInv'
<1>1. /\ built \in Seq(Words) /\ api \in {"v1", "v2"} /\ job = "live" /\ None \notin {"v1", "v2"}
  BY StateIs
<1>2. /\ o.ok \in BOOLEAN /\ ws \in Seq(Words) /\ left \in Nat
      /\ api = "v1" => /\ GoodV1(o.p)
                       /\ o.ok => /\ WholeV1(o.p, built \o ws)
                                  /\ o.p.increments = Cardinality(Counts(built \o ws))
      /\ api = "v2" => GoodV2(o.p) /\ (o.ok => WholeV2(o.p, built \o ws))
      /\ o.ok /\ left > 0 => Used(o.p) + left <= Current(o.p).cap
  BY DEF Operated
<1>3. JobInv'
  <2>1. built' \in Seq(Words)  BY <1>1, <1>2, JoinWords
  <2>2. status' \in {"construct", "ready", "failed"}  BY <1>2
  <2> QED  BY <1>1, <2>1, <2>2 DEF JobInv
<1>4. PushInv'
  <2>1. room' \in Nat  BY <1>2
  <2>2. room' > 0 => status' = "construct" /\ Used(push') + room' <= Current(push').cap
    <3>1. CASE o.ok  BY <1>2, <3>1
    <3>2. CASE ~o.ok  BY <3>2
    <3> QED  BY <1>2, <3>1, <3>2
  <2>3. status' # "free"  BY <1>2
  <2> QED  BY <1>1, <1>2, <2>1, <2>2, <2>3 DEF PushInv, Used, Current
<1>5. WholeInv'
  <2>1. CASE o.ok  BY <1>1, <1>2, <2>1 DEF WholeInv
  <2>2. CASE ~o.ok  BY <2>2 DEF WholeInv
  <2> QED  BY <1>2, <2>1, <2>2
<1>6. KnownInv'
  <2>1. CASE o.ok
    <3>1. built' = built \o ws  BY <2>1
    <3>2. "drop_class" \notin Admits => ClassIsTracked'
      BY <3>1 DEF ClassIsTracked, ClassAfter
    <3>3. "late_reloc" \notin Admits => DoneIsLast'  BY <3>1 DEF DoneIsLast, Closed
    <3>4. api = "v1" =>
            push'.increments = Cardinality({i \in DOMAIN built' : built'[i].op \in Conds})
      BY <1>2, <2>1, <3>1 DEF Counts
    <3> QED  BY <3>2, <3>3, <3>4 DEF KnownInv
  <2>2. CASE ~o.ok  BY <2>2 DEF KnownInv, ClassIsTracked, DoneIsLast
  <2> QED  BY <1>2, <2>1, <2>2
<1>7. FenceInv'  BY FencesKept DEF IInv
<1> QED  BY <1>3, <1>4, <1>5, <1>6, <1>7 DEF IInv

LEMMA ConstructIs ==
  ASSUME IInv, status = "construct"
  PROVE  /\ built \in Seq(Words) /\ api \in {"v1", "v2"} /\ room \in Nat
         /\ class_id \in Classes \cup {None} /\ op_done_synced \in BOOLEAN
         /\ api = "v1" => /\ GoodV1(push) /\ push.cur # 0 /\ WholeV1(push, built)
                          /\ push.increments = Cardinality(Counts(built))
         /\ api = "v2" => GoodV2(push) /\ Used(push) <= Current(push).cap /\ WholeV2(push, built)
         /\ room > 0 => Used(push) + room <= Current(push).cap
         /\ "drop_class" \notin Admits => ClassAfter(built) = class_id
         /\ "late_reloc" \notin Admits /\ op_done_synced => Closed(built)
<1>1. /\ built \in Seq(Words) /\ api \in {"v1", "v2"} /\ room \in Nat
      /\ class_id \in Classes \cup {None} /\ op_done_synced \in BOOLEAN
      /\ api = "v1" => GoodV1(push)
  BY StateIs
<1>2. api = "v1" => WholeV1(push, built) /\ push.cur # 0
  BY DEF IInv, WholeInv, WholeV1
<1>3. api = "v1" => push.increments = Cardinality(Counts(built))
  BY DEF IInv, KnownInv, Counts
<1>4. api = "v2" => GoodV2(push) /\ Used(push) <= Current(push).cap /\ WholeV2(push, built)
  BY DEF IInv, PushInv, WholeInv
<1>5. room > 0 => Used(push) + room <= Current(push).cap  BY DEF IInv, PushInv
<1>6. "drop_class" \notin Admits => ClassAfter(built) = class_id
  BY DEF IInv, KnownInv, ClassIsTracked
<1>7. "late_reloc" \notin Admits /\ op_done_synced => Closed(built)
  BY DEF IInv, KnownInv, DoneIsLast
<1> QED  BY <1>1, <1>2, <1>3, <1>4, <1>5, <1>6, <1>7

LEMMA EmptyIs == <<>> \in Seq(Words) /\ Counts(<<>>) = {} /\ Setters(<<>>) = {}
  BY EmptySeq DEF Counts, Setters

LEMMA PrepOperated ==
  ASSUME IInv, status = "construct", NEW n \in Nat \ {0}, NEW o \in Prepare(push, n)
  PROVE  /\ Operated(o, <<>>, n) /\ built \o <<>> = built
         /\ api = "v2" /\ o.ok => Used(o.p) <= Current(o.p).cap
<1>0. built \o <<>> = built /\ <<>> \in Seq(Words)  BY ConstructIs, ConcatEmptySeq, EmptyIs
<1>1. CASE api = "v1"
  <2>1. o \in PrepareV1(push, n)  BY <1>1 DEF Prepare
  <2>2. /\ GoodV1(push) /\ push.cur # 0 /\ WholeV1(push, built) /\ built \in Seq(Words)
        /\ push.increments = Cardinality(Counts(built))
    BY <1>1, ConstructIs
  <2>3. /\ GoodV1(o.p) /\ o.p.increments = push.increments /\ o.ok \in BOOLEAN
        /\ o.ok => /\ Used(o.p) + n <= Current(o.p).cap
                   /\ \A ws \in Seq(Words) : WholeV1(push, ws) => WholeV1(o.p, ws)
    BY <2>1, <2>2, PrepareV1Holds
  <2>4. api # "v2"  BY <1>1
  <2> QED  BY <1>0, <2>2, <2>3, <2>4 DEF Operated
<1>2. CASE api = "v2"
  <2>1. o \in PrepareV2(push, n)  BY <1>2 DEF Prepare
  <2>2. GoodV2(push) /\ Used(push) <= Current(push).cap /\ WholeV2(push, built)
    BY <1>2, ConstructIs
  <2>3. /\ GoodV2(o.p) /\ o.ok \in BOOLEAN /\ o.p.table = push.table
        /\ Current(o.p).mem = Current(push).mem
        /\ o.ok => Used(o.p) + n <= Current(o.p).cap
    BY <2>1, <2>2, PrepareV2Holds
  <2>4. WholeV2(o.p, built)  BY <2>2, <2>3, WholeKeptV2
  <2>5. Used(o.p) \in Nat /\ Current(o.p).cap \in Nat  BY <2>3, GoodIsV2
  <2>6. o.ok => Used(o.p) <= Current(o.p).cap  BY <2>3, <2>5
  <2>7. api # "v1"  BY <1>2
  <2> QED  BY <1>0, <2>3, <2>4, <2>6, <2>7 DEF Operated
<1> QED  BY <1>1, <1>2, ConstructIs

LEMMA PrepStep ==
  ASSUME IInv, NEW n \in 1..MaxWords, Prep(n)
  PROVE  IInv'
<1>1. status = "construct"  BY DEF Prep, Fits
<1>2. PICK o \in Prepare(push, n) : Outcome(o, <<>>, n)  BY DEF Prep
<1>3. n \in Nat \ {0}  BY TegraStreamAssumption
<1>4. /\ Operated(o, <<>>, n) /\ built \o <<>> = built
      /\ api = "v2" /\ o.ok => Used(o.p) <= Current(o.p).cap
  BY <1>1, <1>3, PrepOperated
<1>5. /\ api' = api /\ job' = job /\ UNCHANGED fenceVars /\ class_id' = class_id
      /\ op_done_synced' = op_done_synced
  BY DEF Prep
<1>6. /\ push' = o.p
      /\ o.ok => status' = status /\ built' = built \o <<>> /\ room' = n
      /\ ~o.ok => status' = "failed" /\ room' = 0 /\ built' = built
  BY <1>2 DEF Outcome
<1>7. /\ "drop_class" \notin Admits => ClassAfter(built \o <<>>) = class_id'
      /\ "late_reloc" \notin Admits /\ op_done_synced' => Closed(built \o <<>>)
      /\ class_id' \in Classes \cup {None} /\ op_done_synced' \in BOOLEAN
  BY <1>1, <1>4, <1>5, ConstructIs
<1>8. status' = "construct" => o.ok  BY <1>6
<1> QED  BY <1>1, <1>4, <1>5, <1>6, <1>7, <1>8, StepHolds

\* A word that was prepared for.
LEMMA WordOperated ==
  ASSUME IInv, status = "construct", room > 0, NEW w \in Words,
         w.op \in {"data", "class"}
  PROVE  /\ Operated(Ok(Written(push, <<w>>)), <<w>>, room - 1)
         /\ api = "v2" => Used(Written(push, <<w>>)) <= Current(Written(push, <<w>>)).cap
<1> DEFINE ws == <<w>>
           q == Written(push, ws)
           o == Ok(q)
<1>1. o.ok = TRUE /\ o.p = q  BY DEF Ok
<1>2. ws \in Seq(Words) /\ Len(ws) = 1 /\ ws[1] = w /\ DOMAIN ws = 1..1  OBVIOUS
<1> HIDE DEF ws, o, q
<1>3. Counts(ws) = {}  BY <1>2 DEF Counts, Conds
<1>4. /\ built \in Seq(Words) /\ room \in Nat /\ Used(push) + room <= Current(push).cap
      /\ api \in {"v1", "v2"}
  BY ConstructIs
<1>5. room - 1 \in Nat  BY <1>4
<1>6. CASE api = "v1"
  <2>1. /\ GoodV1(push) /\ push.cur # 0 /\ WholeV1(push, built)
        /\ push.increments = Cardinality(Counts(built))
    BY <1>6, ConstructIs
  <2>2. Used(push) \in Nat /\ Current(push).cap \in Nat  BY <2>1, GoodIs
  <2>3. Used(push) + Len(ws) <= Current(push).cap  BY <1>2, <1>4, <2>2
  <2>4. \A i \in DOMAIN ws : ws[i].op # "reloc"  BY <1>2
  <2>5. /\ GoodV1(q) /\ q.increments = push.increments /\ Used(q) = Used(push) + Len(ws)
        /\ Current(q).cap = Current(push).cap
        /\ \A bs \in Seq(Words) : WholeV1(push, bs) => WholeV1(q, bs \o ws)
    BY <1>2, <2>1, <2>3, <2>4, WrittenHolds DEF q
  <2>6. Used(q) + (room - 1) <= Current(q).cap  BY <1>2, <1>4, <2>2, <2>5
  <2>7. WholeV1(q, built \o ws)  BY <1>4, <2>1, <2>5
  <2>8. q.increments = Cardinality(Counts(built \o ws))
    BY <1>2, <1>3, <1>4, <2>1, <2>5, CountKept
  <2>9. api # "v2"  BY <1>6
  <2> QED  BY <1>1, <1>2, <1>5, <2>5, <2>6, <2>7, <2>8, <2>9 DEF Operated, o, q, ws
<1>7. CASE api = "v2"
  <2>1. GoodV2(push) /\ WholeV2(push, built)  BY <1>7, ConstructIs
  <2>2. Used(push) \in Nat /\ Current(push).cap \in Nat  BY <2>1, GoodIsV2
  <2>3. Used(push) + Len(ws) <= Current(push).cap  BY <1>2, <1>4, <2>2
  <2>5. /\ GoodV2(q) /\ q.table = push.table /\ Current(q).mem = Current(push).mem \o ws
        /\ Current(q).cap = Current(push).cap /\ Used(q) = Used(push) + Len(ws)
    BY <1>2, <2>1, <2>3, WrittenHoldsV2 DEF q
  <2>6. Used(q) + (room - 1) <= Current(q).cap /\ Used(q) <= Current(q).cap
    BY <1>2, <1>4, <2>2, <2>5
  <2>7. \A i \in 1..Len(ws) : ws[i].op # "slot"  BY <1>2
  <2>8. WholeV2(q, built \o ws)  BY <1>2, <1>4, <2>1, <2>5, <2>7, WholePlainV2
  <2>9. api # "v1"  BY <1>7
  <2> QED  BY <1>1, <1>2, <1>5, <2>5, <2>6, <2>8, <2>9 DEF Operated, o, q, ws
<1> QED  BY <1>4, <1>6, <1>7

LEMMA PushedStep ==
  ASSUME IInv, NEW w \in Words, w.op \in {"data", "class"}, PushedWord(w),
         UNCHANGED <<api, fenceVars, job>>, class_id' \in Classes \cup {None},
         "drop_class" \notin Admits => ClassAfter(built \o <<w>>) = class_id'
  PROVE  IInv'
<1> DEFINE o == Ok(Written(push, <<w>>))
<1>1. status = "construct" /\ room > 0 /\ Outcome(o, <<w>>, room - 1) /\ op_done_synced' = FALSE
  BY DEF PushedWord, Fits
<1>2. /\ Operated(o, <<w>>, room - 1)
      /\ api = "v2" => Used(o.p) <= Current(o.p).cap
  <2>1. o.p = Written(push, <<w>>)  BY DEF Ok
  <2> QED  BY <1>1, <2>1, WordOperated
<1>3. o.ok = TRUE  BY DEF Ok
<1> HIDE DEF o
<1>4. push' = o.p /\ status' = status /\ built' = built \o <<w>> /\ room' = room - 1
  BY <1>1, <1>3 DEF Outcome
<1> DEFINE ws == <<w>>
           left == room - 1
<1>5. /\ Operated(o, ws, left) /\ built' = built \o ws /\ room' = left
      /\ "drop_class" \notin Admits => ClassAfter(built \o ws) = class_id'
  BY <1>2, <1>4
<1>6. api' = api /\ job' = job /\ UNCHANGED fenceVars  OBVIOUS
<1> HIDE DEF ws, left
<1> QED  BY <1>1, <1>2, <1>3, <1>4, <1>5, <1>6, StepHolds

LEMMA PushStep ==
  ASSUME IInv, Push
  PROVE  IInv'
<1>1. PushedWord(Data) /\ UNCHANGED <<api, class_id, fenceVars, job>>  BY DEF Push
<1>2. Data \in Words /\ Data.op = "data"  BY WordTypes, NoSlot
<1>3. status = "construct"  BY <1>1 DEF PushedWord, Fits
<1> DEFINE ws == <<Data>>
<1>4. ws \in Seq(Words) /\ Setters(ws) = {}  BY <1>2 DEF Setters
<1> HIDE DEF ws
<1>5. "drop_class" \notin Admits => ClassAfter(built \o ws) = class_id'
  BY <1>1, <1>3, <1>4, ConstructIs, ClassKept
<1>6. class_id' \in Classes \cup {None}  BY <1>1, <1>3, ConstructIs
<1> QED  BY <1>1, <1>2, <1>5, <1>6, PushedStep DEF ws

LEMMA PushSetClassStep ==
  ASSUME IInv, NEW c \in Classes, PushSetClass(c)
  PROVE  IInv'
<1> DEFINE w == SetClass(c)
           ws == <<w>>
<1>1. PushedWord(w) /\ UNCHANGED <<api, fenceVars, job>> /\ class_id' = c
  BY DEF PushSetClass
<1>2. w \in Words /\ w.op = "class"  BY WordTypes, NoSlot
<1>3. status = "construct"  BY <1>1 DEF PushedWord, Fits
<1> HIDE DEF w
<1>4. ws \in Seq(Words) /\ Len(ws) # 0 /\ ws[Len(ws)] = SetClass(c)  BY <1>2 DEF w
<1> HIDE DEF ws
<1>5. ClassAfter(built \o ws) = class_id'  BY <1>1, <1>3, <1>4, ConstructIs, ClassSet
<1> QED  BY <1>1, <1>2, <1>5, PushedStep DEF ws

LEMMA RelocIs ==
  ASSUME NEW t \in Targets
  PROVE  /\ <<Reloc(t)>> \in Seq(Words) /\ Len(<<Reloc(t)>>) = 1 /\ <<Reloc(t)>>[1] = Reloc(t)
         /\ Counts(<<Reloc(t)>>) = {} /\ Setters(<<Reloc(t)>>) = {}
<1> DEFINE ws == <<Reloc(t)>>
<1>1. ws \in Seq(Words) /\ Len(ws) = 1 /\ ws[1] = Reloc(t) /\ DOMAIN ws = 1..1  BY RelocIsWord
<1> HIDE DEF ws
<1>2. Reloc(t).op = "reloc"  BY NoSlot
<1>3. Counts(ws) = {} /\ Setters(ws) = {}  BY <1>1, <1>2 DEF Counts, Setters, Conds
<1> QED  BY <1>1, <1>3 DEF ws

LEMMA PushRelocStep ==
  ASSUME IInv, NEW t \in Targets, PushReloc(t)
  PROVE  IInv'
<1> DEFINE ws == <<Reloc(t)>>
           left == Max({0, room - 1})
<1>1. status = "construct" /\ MayRelocate  BY DEF PushReloc, Fits
<1>2. PICK o \in Relocate(push, t) : Outcome(o, ws, left)  BY DEF PushReloc
<1>3. /\ api' = api /\ job' = job /\ UNCHANGED fenceVars /\ class_id' = class_id
      /\ op_done_synced' = op_done_synced
  BY DEF PushReloc
<1>4. ws \in Seq(Words) /\ Counts(ws) = {} /\ Setters(ws) = {}  BY RelocIs
<1>5. /\ built \in Seq(Words) /\ room \in Nat /\ api \in {"v1", "v2"}
      /\ room > 0 => Used(push) + room <= Current(push).cap
      /\ class_id \in Classes \cup {None} /\ op_done_synced \in BOOLEAN
  BY <1>1, ConstructIs
<1>6. left \in Nat /\ (left > 0 => room \in Nat \ {0} /\ left = room - 1)
  BY <1>5, MaxOfTwo
<1>7. /\ push' = o.p
      /\ o.ok => status' = status /\ built' = built \o ws /\ room' = left
      /\ ~o.ok => status' = "failed" /\ room' = 0 /\ built' = built
  BY <1>2 DEF Outcome
<1> HIDE DEF ws, left
<1>8. Operated(o, ws, left) /\ (api = "v2" /\ o.ok => Used(o.p) <= Current(o.p).cap)
  <2>1. CASE api = "v1"
    <3>1. o \in RelocateV1(push, t)  BY <1>2, <2>1 DEF Relocate
    <3>2. /\ GoodV1(push) /\ push.cur # 0 /\ WholeV1(push, built)
          /\ push.increments = Cardinality(Counts(built))
      BY <1>1, <2>1, ConstructIs
    <3>3. /\ GoodV1(o.p) /\ o.p.increments = push.increments /\ o.ok \in BOOLEAN
          /\ o.ok => /\ \A bs \in Seq(Words) : WholeV1(push, bs) => WholeV1(o.p, bs \o ws)
                     /\ \A r \in Nat \ {0} : Used(push) + r <= Current(push).cap =>
                                               Used(o.p) + (r - 1) <= Current(o.p).cap
      BY <3>1, <3>2, RelocateV1Holds DEF ws
    <3>4. o.ok /\ left > 0 => Used(o.p) + left <= Current(o.p).cap  BY <1>5, <1>6, <3>3
    <3>5. Counts(built \o ws) = Counts(built)  BY <1>4, <1>5, CountKept
    <3>6. api # "v2"  BY <2>1
    <3> QED  BY <1>4, <1>5, <1>6, <3>2, <3>3, <3>4, <3>5, <3>6 DEF Operated
  <2>2. CASE api = "v2"
    <3>1. o \in RelocateV2(push, t)  BY <1>2, <2>2 DEF Relocate
    <3>2. GoodV2(push) /\ Used(push) <= Current(push).cap /\ WholeV2(push, built)
      BY <1>1, <2>2, ConstructIs
    <3>3. /\ GoodV2(o.p) /\ o.ok \in BOOLEAN
          /\ o.ok => /\ Used(o.p) <= Current(o.p).cap
                     /\ \A r \in Nat \ {0} : Used(push) + r <= Current(push).cap =>
                                               Used(o.p) + (r - 1) <= Current(o.p).cap
                     /\ \A bs \in Seq(Words) : WholeV2(push, bs) => WholeV2(o.p, bs \o ws)
      BY <3>1, <3>2, RelocateV2Holds DEF ws
    <3>4. o.ok /\ left > 0 => Used(o.p) + left <= Current(o.p).cap  BY <1>5, <1>6, <3>3
    <3>5. api # "v1"  BY <2>2
    <3> QED  BY <1>4, <1>5, <1>6, <3>2, <3>3, <3>4, <3>5 DEF Operated
  <2> QED  BY <1>5, <2>1, <2>2
<1>9. /\ "drop_class" \notin Admits => ClassAfter(built \o ws) = class_id'
      /\ "late_reloc" \notin Admits => op_done_synced' = FALSE
  <2>1. "drop_class" \notin Admits => ClassAfter(built) = class_id  BY <1>1, ConstructIs
  <2>2. ClassAfter(built \o ws) = ClassAfter(built)  BY <1>4, <1>5, ClassKept
  <2>3. "late_reloc" \notin Admits => op_done_synced = FALSE  BY <1>1, <1>5 DEF MayRelocate
  <2> QED  BY <1>3, <2>1, <2>2, <2>3
<1>10. status' = "construct" => o.ok  BY <1>7
<1> QED  BY <1>1, <1>3, <1>5, <1>6, <1>7, <1>8, <1>9, <1>10, StepHolds

-----------------------------------------------------------------------------
(* tegra_stream_push_words.                                                *)

Plain(n) == [i \in 1..n |-> Data]

LEMMA PlainIs ==
  ASSUME NEW n \in Nat
  PROVE  /\ Plain(n) \in Seq(Words) /\ Len(Plain(n)) = n
         /\ \A i \in 1..n : Plain(n)[i] = Data
         /\ Counts(Plain(n)) = {} /\ Setters(Plain(n)) = {}
<1>1. Plain(n) \in [1..n -> Words]  BY WordTypes DEF Plain
<1>2. Plain(n) \in Seq(Words)  BY <1>1, SeqDef
<1>3. Len(Plain(n)) = n /\ DOMAIN Plain(n) = 1..n  BY <1>1, <1>2, LenProperties DEF Plain
<1>4. \A i \in 1..n : Plain(n)[i] = Data  BY DEF Plain
<1>5. Counts(Plain(n)) = {} /\ Setters(Plain(n)) = {}
  BY <1>3, <1>4, NoSlot DEF Counts, Setters, Conds
<1> QED  BY <1>2, <1>3, <1>4, <1>5

\* Data words in the room that was prepared.
LEMMA PlainWritten ==
  ASSUME IInv, status = "construct", NEW n \in Nat \ {0}, NEW a \in Prepare(push, n), a.ok,
         NEW k \in 0..n
  PROVE  LET q == Written(a.p, Plain(k)) IN
         /\ api = "v1" => /\ GoodV1(q) /\ q.cur # 0 /\ WholeV1(q, built \o Plain(k))
                          /\ q.increments = Cardinality(Counts(built))
         /\ api = "v2" => /\ GoodV2(q) /\ Used(q) <= Current(q).cap
                          /\ WholeV2(q, built \o Plain(k))
<1> DEFINE ws == Plain(k)
           q == Written(a.p, ws)
<1>0. k \in Nat /\ k <= n  OBVIOUS
<1>1. ws \in Seq(Words) /\ Len(ws) = k /\ DOMAIN ws = 1..k /\ \A i \in 1..k : ws[i] = Data
  BY <1>0, PlainIs, LenProperties
<1>2. built \in Seq(Words) /\ api \in {"v1", "v2"}  BY ConstructIs
<1> HIDE DEF ws, q
<1>3. CASE api = "v1"
  <2>1. a \in PrepareV1(push, n)  BY <1>3 DEF Prepare
  <2>2. /\ GoodV1(push) /\ push.cur # 0 /\ WholeV1(push, built)
        /\ push.increments = Cardinality(Counts(built))
    BY <1>3, ConstructIs
  <2>3. /\ GoodV1(a.p) /\ a.p.increments = push.increments
        /\ a.p.cur # 0 /\ Used(a.p) + n <= Current(a.p).cap
        /\ \A bs \in Seq(Words) : WholeV1(push, bs) => WholeV1(a.p, bs)
    BY <2>1, <2>2, PrepareV1Holds
  <2>4. Used(a.p) + Len(ws) <= Current(a.p).cap
    <3>1. Used(a.p) \in Nat /\ Current(a.p).cap \in Nat  BY <2>3, GoodIs
    <3> QED  BY <1>0, <1>1, <2>3, <3>1
  <2>5. \A i \in DOMAIN ws : ws[i].op # "reloc"  BY <1>1, NoSlot
  <2>6. /\ GoodV1(q) /\ q.increments = a.p.increments /\ q.cur # 0
        /\ \A bs \in Seq(Words) : WholeV1(a.p, bs) => WholeV1(q, bs \o ws)
    BY <1>1, <2>3, <2>4, <2>5, WrittenHolds DEF q
  <2>7. WholeV1(q, built \o ws)  BY <1>2, <2>2, <2>3, <2>6
  <2>8. api # "v2"  BY <1>3
  <2> QED  BY <2>2, <2>3, <2>6, <2>7, <2>8 DEF q, ws
<1>4. CASE api = "v2"
  <2>1. a \in PrepareV2(push, n)  BY <1>4 DEF Prepare
  <2>2. GoodV2(push) /\ Used(push) <= Current(push).cap /\ WholeV2(push, built)
    BY <1>4, ConstructIs
  <2>3. /\ GoodV2(a.p) /\ a.p.table = push.table
        /\ Current(a.p).mem = Current(push).mem
        /\ Used(a.p) + n <= Current(a.p).cap
    BY <2>1, <2>2, PrepareV2Holds
  <2>4. Used(a.p) + Len(ws) <= Current(a.p).cap
    <3>1. Used(a.p) \in Nat /\ Current(a.p).cap \in Nat  BY <2>3, GoodIsV2
    <3> QED  BY <1>0, <1>1, <2>3, <3>1
  <2>5. /\ GoodV2(q) /\ q.table = a.p.table /\ Current(q).mem = Current(a.p).mem \o ws
        /\ Current(q).cap = Current(a.p).cap /\ Used(q) = Used(a.p) + Len(ws)
    BY <1>1, <2>3, <2>4, WrittenHoldsV2 DEF q
  <2>6. \A i \in 1..Len(ws) : ws[i].op # "slot"  BY <1>1, NoSlot
  <2>7. WholeV2(q, built \o ws)
    <3>1. Current(q).mem = Current(push).mem \o ws /\ q.table = push.table  BY <2>3, <2>5
    <3> QED  BY <1>1, <1>2, <2>2, <2>5, <2>6, <3>1, WholePlainV2
  <2>8. Used(q) <= Current(q).cap  BY <2>4, <2>5
  <2>9. api # "v1"  BY <1>4
  <2> QED  BY <2>5, <2>7, <2>8, <2>9 DEF q, ws
<1> QED  BY <1>2, <1>3, <1>4

CopiedWords(n, t) == IF t = None THEN Plain(n) ELSE Append(Plain(n - 1), Reloc(t))
Copied(p, n, t) ==
  IF class_id = None THEN {Err(p)}
  ELSE IF t = None THEN {Ok(Written(p, Plain(n)))}
  ELSE Relocate(Written(p, Plain(n - 1)), t)

LEMMA InPushWords ==
  ASSUME NEW n \in 1..2, NEW t \in Targets \cup {None}, PushWords(n, t)
  PROVE  /\ Fits(n) /\ MayRelocate /\ UNCHANGED <<api, class_id, op_done_synced, fenceVars, job>>
         /\ \E a \in Prepare(push, n) :
              \E o \in IF a.ok THEN Copied(a.p, n, t) ELSE {a} : Outcome(o, CopiedWords(n, t), 0)
<1> DEFINE plain == [i \in 1..(IF t = None THEN n ELSE n - 1) |-> Data]
           words == IF t = None THEN plain ELSE Append(plain, Reloc(t))
           Copy(p) == IF class_id = None THEN {Err(p)}
                      ELSE IF t = None THEN {Ok(Written(p, plain))}
                      ELSE Relocate(Written(p, plain), t)
<1>1. /\ Fits(n) /\ MayRelocate /\ UNCHANGED <<api, class_id, op_done_synced, fenceVars, job>>
      /\ \E o \in Then(Prepare(push, n), Copy) : Outcome(o, words, 0)
  BY Zenon DEF PushWords
<1>2. PICK o \in Then(Prepare(push, n), Copy) : Outcome(o, words, 0)  BY <1>1
<1>3. PICK a \in Prepare(push, n) : o \in IF a.ok THEN Copy(a.p) ELSE {a}
  BY Zenon DEF Then
<1>4. words = CopiedWords(n, t)  BY DEF CopiedWords, Plain
<1>5. Copy(a.p) = Copied(a.p, n, t)
  <2>1. CASE t = None  BY <2>1 DEF Copied, Plain
  <2>2. CASE t # None  BY <2>2 DEF Copied, Plain
  <2> QED  BY <2>1, <2>2
<1> HIDE DEF words, Copy
<1> QED  BY <1>1, <1>2, <1>3, <1>4, <1>5

LEMMA CopiedWordsAre ==
  ASSUME NEW n \in 1..2, NEW t \in Targets \cup {None}
  PROVE  /\ CopiedWords(n, t) \in Seq(Words)
         /\ Counts(CopiedWords(n, t)) = {} /\ Setters(CopiedWords(n, t)) = {}
         /\ t # None => /\ t \in Targets /\ n - 1 \in Nat
                        /\ \A ws \in Seq(Words) :
                             (ws \o Plain(n - 1)) \o <<Reloc(t)>> = ws \o CopiedWords(n, t)
<1>1. CASE t = None
  <2>1. CopiedWords(n, t) = Plain(n)  BY <1>1 DEF CopiedWords
  <2> QED  BY <1>1, <2>1, PlainIs
<1>2. CASE t # None
  <2> DEFINE xs == Plain(n - 1)
             ys == <<Reloc(t)>>
  <2>1. t \in Targets /\ n - 1 \in Nat  BY <1>2
  <2>2. xs \in Seq(Words) /\ Counts(xs) = {} /\ Setters(xs) = {}  BY <2>1, PlainIs
  <2>3. ys \in Seq(Words) /\ Counts(ys) = {} /\ Setters(ys) = {}  BY <2>1, RelocIs
  <2>4. CopiedWords(n, t) = xs \o ys
    <3>1. CopiedWords(n, t) = Append(xs, Reloc(t))  BY <1>2 DEF CopiedWords
    <3>2. Reloc(t) \in Words  BY <2>1, RelocIsWord
    <3> HIDE DEF xs
    <3>3. Append(xs, Reloc(t)) = xs \o <<Reloc(t)>>  BY <2>2, <3>2, AppendIsConcat
    <3> QED  BY <3>1, <3>3
  <2> HIDE DEF xs, ys
  <2>5. xs \o ys \in Seq(Words) /\ \A ws \in Seq(Words) : (ws \o xs) \o ys = ws \o (xs \o ys)
    BY <2>2, <2>3, JoinWords
  <2>6. Counts(xs \o ys) = {}  BY <2>2, <2>3, CountKept
  <2>7. Setters(xs \o ys) = {}
    <3> SUFFICES ASSUME NEW i \in Setters(xs \o ys) PROVE FALSE  OBVIOUS
    <3>1. i \in 1..Len(xs) + Len(ys) /\ (xs \o ys)[i].op \in {"class", "host1x"}
      BY <2>2, <2>3, JoinedDomain DEF Setters
    <3>2. CASE i \in 1..Len(xs)
      BY <2>2, <2>3, <3>1, <3>2, JoinedDomain DEF Setters
    <3>3. CASE \E j \in 1..Len(ys) : i = Len(xs) + j
      BY <2>2, <2>3, <3>1, <3>3, JoinedDomain DEF Setters
    <3> QED  BY <2>2, <2>3, <3>1, <3>2, <3>3, JoinedDomain
  <2> QED  BY <2>1, <2>4, <2>5, <2>6, <2>7 DEF xs, ys
<1> QED  BY <1>1, <1>2

LEMMA PushWordsStep ==
  ASSUME IInv, NEW n \in 1..2, NEW t \in Targets \cup {None}, PushWords(n, t)
  PROVE  IInv'
<1> DEFINE ws == CopiedWords(n, t)
<1>1. status = "construct" /\ MayRelocate  BY InPushWords DEF Fits
<1>2. PICK a \in Prepare(push, n) :
        \E o \in IF a.ok THEN Copied(a.p, n, t) ELSE {a} : Outcome(o, ws, 0)
  BY InPushWords
<1>3. PICK o \in IF a.ok THEN Copied(a.p, n, t) ELSE {a} : Outcome(o, ws, 0)
  BY <1>2
<1>4. /\ api' = api /\ job' = job /\ UNCHANGED fenceVars /\ class_id' = class_id
      /\ op_done_synced' = op_done_synced
  BY InPushWords
<1>5. /\ ws \in Seq(Words) /\ Counts(ws) = {} /\ Setters(ws) = {}
      /\ t # None => /\ t \in Targets /\ n - 1 \in Nat
                     /\ \A bs \in Seq(Words) : (bs \o Plain(n - 1)) \o <<Reloc(t)>> = bs \o ws
  BY CopiedWordsAre
<1>6. /\ push' = o.p
      /\ o.ok => status' = status /\ built' = built \o ws /\ room' = 0
      /\ ~o.ok => status' = "failed" /\ room' = 0 /\ built' = built
  BY <1>3 DEF Outcome
<1>7. /\ built \in Seq(Words) /\ api \in {"v1", "v2"}
      /\ class_id \in Classes \cup {None} /\ op_done_synced \in BOOLEAN
  BY <1>1, ConstructIs
<1>8. /\ a.ok \in BOOLEAN /\ n \in Nat \ {0}
      /\ api = "v1" => GoodV1(a.p)
      /\ api = "v2" => GoodV2(a.p)
  <2>1. n \in Nat \ {0}  OBVIOUS
  <2>2. Operated(a, <<>>, n)  BY <1>1, <2>1, PrepOperated
  <2> QED  BY <2>1, <2>2 DEF Operated
<1>9. ws = IF t = None THEN Plain(n) ELSE ws  BY DEF CopiedWords
<1> HIDE DEF ws
<1>10. Operated(o, ws, 0) /\ (api = "v2" /\ o.ok => Used(o.p) <= Current(o.p).cap)
  <2>1. CASE (~a.ok /\ o = a) \/ o = Err(a.p)
    <3>1. o.p = a.p /\ o.ok = FALSE  BY <1>8, <2>1 DEF Err
    <3> QED  BY <1>5, <1>8, <3>1, OperatedFailed
  <2>2. CASE a.ok /\ t = None /\ o = Ok(Written(a.p, Plain(n)))
    <3> DEFINE q == Written(a.p, Plain(n))
    <3>1. o.p = q /\ o.ok = TRUE  BY <2>2 DEF Ok
    <3>2. n \in 0..n  BY <1>8
    <3>3. ws = Plain(n)  BY <1>9, <2>2
    <3>4. /\ api = "v1" => /\ GoodV1(q) /\ WholeV1(q, built \o ws)
                           /\ q.increments = Cardinality(Counts(built))
          /\ api = "v2" => /\ GoodV2(q) /\ Used(q) <= Current(q).cap /\ WholeV2(q, built \o ws)
      BY <1>1, <1>8, <2>2, <3>2, <3>3, PlainWritten
    <3> HIDE DEF q
    <3>5. Counts(built \o ws) = Counts(built)  BY <1>5, <1>7, CountKept
    <3>6. CASE api = "v1"
      <4>1. GoodV1(o.p) /\ WholeV1(o.p, built \o ws)  BY <3>1, <3>4, <3>6
      <4>2. o.p.increments = Cardinality(Counts(built \o ws))  BY <3>1, <3>4, <3>5, <3>6
      <4>3. o.ok \in BOOLEAN  BY <3>1
      <4> QED  BY <1>5, <3>6, <4>1, <4>2, <4>3, OperatedV1
    <3>7. CASE api = "v2"
      <4>1. GoodV2(o.p) /\ WholeV2(o.p, built \o ws) /\ Used(o.p) <= Current(o.p).cap
        BY <3>1, <3>4, <3>7
      <4>2. o.ok \in BOOLEAN  BY <3>1
      <4> QED  BY <1>5, <3>7, <4>1, <4>2, OperatedV2
    <3> QED  BY <1>7, <3>6, <3>7
  <2>3. CASE a.ok /\ t # None /\ o \in Relocate(Written(a.p, Plain(n - 1)), t)
    <3> DEFINE q == Written(a.p, Plain(n - 1))
               k == n - 1
    <3>1. t \in Targets /\ k \in 0..n
      <4>1. k \in 0..n  BY <1>8
      <4> QED  BY <1>5, <2>3, <4>1
    <3>2. /\ api = "v1" => /\ GoodV1(q) /\ q.cur # 0 /\ WholeV1(q, built \o Plain(k))
                           /\ q.increments = Cardinality(Counts(built))
          /\ api = "v2" => /\ GoodV2(q) /\ Used(q) <= Current(q).cap
                           /\ WholeV2(q, built \o Plain(k))
      BY <1>1, <1>8, <2>3, <3>1, PlainWritten
    <3>3. /\ built \o Plain(k) \in Seq(Words)
          /\ (built \o Plain(k)) \o <<Reloc(t)>> = built \o ws
      <4>1. Plain(k) \in Seq(Words)  BY <3>1, PlainIs
      <4> QED  BY <1>5, <1>7, <2>3, <4>1, JoinWords
    <3>4. Counts(built \o ws) = Counts(built)  BY <1>5, <1>7, CountKept
    <3>5. o \in Relocate(q, t)  BY <2>3
    <3> DEFINE bs == built \o Plain(k)
    <3> HIDE DEF q, k, bs
    <3>6. CASE api = "v1"
      <4>1. o \in RelocateV1(q, t)  BY <3>5, <3>6 DEF Relocate
      <4>2. /\ GoodV1(o.p) /\ o.p.increments = q.increments /\ o.ok \in BOOLEAN
            /\ o.ok => \A xs \in Seq(Words) : WholeV1(q, xs) => WholeV1(o.p, xs \o <<Reloc(t)>>)
        BY <3>1, <3>2, <3>6, <4>1, RelocateV1Holds
      <4>3. o.ok => WholeV1(o.p, built \o ws)  BY <3>2, <3>3, <3>6, <4>2 DEF bs
      <4>4. o.ok => o.p.increments = Cardinality(Counts(built \o ws))  BY <3>2, <3>4, <3>6, <4>2
      <4> QED  BY <1>5, <3>6, <4>2, <4>3, <4>4, OperatedV1
    <3>7. CASE api = "v2"
      <4>1. o \in RelocateV2(q, t)  BY <3>5, <3>7 DEF Relocate
      <4>2. /\ GoodV2(o.p) /\ o.ok \in BOOLEAN
            /\ o.ok => /\ Used(o.p) <= Current(o.p).cap
                       /\ \A xs \in Seq(Words) : WholeV2(q, xs) => WholeV2(o.p, xs \o <<Reloc(t)>>)
        BY <3>1, <3>2, <3>7, <4>1, RelocateV2Holds
      <4>3. o.ok => WholeV2(o.p, built \o ws)  BY <3>2, <3>3, <3>7, <4>2 DEF bs
      <4> QED  BY <1>5, <3>7, <4>2, <4>3, OperatedV2
    <3> QED  BY <1>7, <3>6, <3>7
  <2> QED  BY <1>3, <1>8, <2>1, <2>2, <2>3 DEF Copied
<1>11. /\ "drop_class" \notin Admits => ClassAfter(built \o ws) = class_id'
       /\ "late_reloc" \notin Admits => op_done_synced' = FALSE
  <2>1. "drop_class" \notin Admits => ClassAfter(built) = class_id  BY <1>1, ConstructIs
  <2>2. ClassAfter(built \o ws) = ClassAfter(built)  BY <1>5, <1>7, ClassKept
  <2>3. "late_reloc" \notin Admits => op_done_synced = FALSE  BY <1>1, <1>7 DEF MayRelocate
  <2> QED  BY <1>4, <2>1, <2>2, <2>3
<1>12. (status' = "construct" => o.ok) /\ ~(0 > 0)  BY <1>6
<1> QED  BY <1>1, <1>4, <1>6, <1>7, <1>10, <1>11, <1>12, StepHolds

-----------------------------------------------------------------------------
(* Synchronisation and the end of a job.                                   *)

SyncWords(cond, keep) == IF api = "v1" THEN SyncWordsV1(cond) ELSE SyncWordsV2(cond, keep)
SyncOuts(cond, keep) == IF api = "v1" THEN SyncV1(push, cond) ELSE SyncV2(push, cond, keep)

\* The words of a synchronisation: one increment, no work, the class kept.
LEMMA SyncWordsAre ==
  ASSUME NEW cond \in Conds, NEW keep \in BOOLEAN, class_id \in Classes \cup {None},
         api \in {"v1", "v2"}
  PROVE  LET ws == SyncWords(cond, keep) IN
         /\ ws \in Seq(Words) /\ \A i \in 1..Len(ws) : ws[i].op \notin {"data", "reloc"}
         /\ api = "v1" => Len(ws) = 2 /\ Counts(ws) = {2} /\ Setters(ws) = {}
         /\ api = "v2" /\ keep => Len(ws) # 0 /\ ws[Len(ws)] = SetClass(class_id)
         /\ \E k \in 1..Len(ws) : ws[k] = Increment(cond)
<1> DEFINE ws == SyncWords(cond, keep)
<1>1. CASE api = "v1"
  <2>1. ws = <<Opcode, Increment(cond)>>  BY <1>1 DEF SyncWords, SyncWordsV1
  <2>2. Opcode \in Words /\ Increment(cond) \in Words  BY WordTypes
  <2> HIDE DEF ws
  <2>3. /\ ws \in Seq(Words) /\ Len(ws) = 2 /\ DOMAIN ws = 1..2 /\ ws[1] = Opcode
        /\ ws[2] = Increment(cond)
    BY <2>1, <2>2
  <2>4. /\ ws[1].op = "opcode" /\ ws[2].op \in Conds /\ ws[2].op # "slot"
    BY <2>3, NoSlot
  <2>5. \A i \in 1..Len(ws) : i = 1 \/ i = 2  BY <2>3
  <2>6. Counts(ws) = {2} /\ Setters(ws) = {}
    BY <2>3, <2>4, <2>5 DEF Counts, Setters, Conds
  <2>7. \A i \in 1..Len(ws) : ws[i].op \notin {"data", "reloc"}
    BY <2>3, <2>4, <2>5 DEF Conds
  <2>8. 2 \in 1..Len(ws) /\ api # "v2"  BY <1>1, <2>3
  <2> QED  BY <2>3, <2>6, <2>7, <2>8 DEF ws
<1>2. CASE api = "v2"
  <2>1. ws = SyncWordsV2(cond, keep)  BY <1>2 DEF SyncWords
  <2>2. /\ ws \in Seq(Words) /\ Len(ws) = IF keep THEN 4 ELSE 3
        /\ ws[1] = Increment(cond) /\ ws[2] = Host1x /\ ws[3] = Wait
        /\ keep => ws[4] = SetClass(class_id)
    BY <2>1, SyncWordsIs
  <2> HIDE DEF ws
  <2>3. /\ ws[1].op \in Conds /\ ws[2].op = "host1x" /\ ws[3].op = "wait"
        /\ keep => ws[4].op = "class"
    BY <2>2, NoSlot
  <2>4. \A i \in 1..Len(ws) : i = 1 \/ i = 2 \/ i = 3 \/ (keep /\ i = 4)  BY <2>2
  <2>5. \A i \in 1..Len(ws) : ws[i].op \notin {"data", "reloc"}
    BY <2>3, <2>4 DEF Conds
  <2>6. 1 \in 1..Len(ws) /\ api # "v1" /\ Len(ws) # 0  BY <1>2, <2>2
  <2> QED  BY <2>2, <2>5, <2>6 DEF ws
<1> QED  BY <1>1, <1>2

LEMMA SyncOperated ==
  ASSUME IInv, status = "construct", NEW cond \in Conds, NEW keep \in BOOLEAN,
         NEW o \in SyncOuts(cond, keep)
  PROVE  /\ Operated(o, SyncWords(cond, keep), 0)
         /\ api = "v2" /\ o.ok => Used(o.p) <= Current(o.p).cap
<1> DEFINE ws == SyncWords(cond, keep)
<1>1. /\ built \in Seq(Words) /\ api \in {"v1", "v2"} /\ class_id \in Classes \cup {None}
  BY ConstructIs
<1>2. /\ ws \in Seq(Words)
      /\ api = "v1" => Len(ws) = 2 /\ Counts(ws) = {2}
  BY <1>1, SyncWordsAre
<1>3. CASE api = "v1"
  <2>1. o \in SyncV1(push, cond) /\ ws = SyncWordsV1(cond)
    BY <1>3 DEF SyncOuts, SyncWords
  <2>2. /\ GoodV1(push) /\ push.cur # 0 /\ WholeV1(push, built)
        /\ push.increments = Cardinality(Counts(built))
    BY <1>3, ConstructIs
  <2> HIDE DEF ws
  <2>3. /\ GoodV1(o.p) /\ o.ok \in BOOLEAN
        /\ o.ok => /\ o.p.increments = push.increments + 1
                   /\ \A bs \in Seq(Words) : WholeV1(push, bs) => WholeV1(o.p, bs \o ws)
    BY <2>1, <2>2, SyncV1Holds
  <2>4. Cardinality(Counts(built \o ws)) = Cardinality(Counts(built)) + 1
    <3>1. 2 \in 1..Len(ws)  BY <1>2, <1>3
    <3> QED  BY <1>1, <1>2, <1>3, <3>1, CountOne
  <2>5. o.ok => WholeV1(o.p, built \o ws)  BY <1>1, <2>2, <2>3
  <2>6. o.ok => o.p.increments = Cardinality(Counts(built \o ws))  BY <2>2, <2>3, <2>4
  <2>7. Operated(o, ws, 0)  BY <1>2, <1>3, <2>3, <2>5, <2>6, OperatedV1
  <2>8. api # "v2"  BY <1>3
  <2> QED  BY <2>7, <2>8 DEF ws
<1>4. CASE api = "v2"
  <2>1. o \in SyncV2(push, cond, keep) /\ ws = SyncWordsV2(cond, keep)
    BY <1>4 DEF SyncOuts, SyncWords
  <2>2. GoodV2(push) /\ Used(push) <= Current(push).cap /\ WholeV2(push, built)
    BY <1>4, ConstructIs
  <2> HIDE DEF ws
  <2>3. /\ GoodV2(o.p) /\ o.ok \in BOOLEAN
        /\ o.ok => /\ Used(o.p) <= Current(o.p).cap
                   /\ \A bs \in Seq(Words) : WholeV2(push, bs) => WholeV2(o.p, bs \o ws)
    BY <1>1, <2>1, <2>2, SyncV2Holds
  <2>4. o.ok => WholeV2(o.p, built \o ws)  BY <1>1, <2>2, <2>3
  <2>5. Operated(o, ws, 0)  BY <1>2, <1>4, <2>3, <2>4, OperatedV2
  <2> QED  BY <2>3, <2>5 DEF ws
<1> QED  BY <1>1, <1>3, <1>4

LEMMA SyncStep ==
  ASSUME IInv, NEW cond \in Conds, NEW keep \in BOOLEAN, Sync(cond, keep)
  PROVE  IInv'
<1> DEFINE ws == SyncWords(cond, keep)
<1>1. /\ status = "construct" /\ (keep \/ "drop_class" \in Admits)
      /\ UNCHANGED <<api, class_id, fenceVars, job>>
      /\ \E o \in SyncOuts(cond, keep) :
           /\ Outcome(o, ws, 0)
           /\ op_done_synced' = IF ~o.ok THEN op_done_synced
                                ELSE IF cond = "op_done" THEN TRUE
                                ELSE api = "v1" /\ op_done_synced
  BY DEF Sync, Fits, SyncWords, SyncOuts
<1>2. PICK o \in SyncOuts(cond, keep) :
        /\ Outcome(o, ws, 0)
        /\ op_done_synced' = IF ~o.ok THEN op_done_synced
                             ELSE IF cond = "op_done" THEN TRUE
                             ELSE api = "v1" /\ op_done_synced
  BY <1>1
<1>3. Operated(o, ws, 0) /\ (api = "v2" /\ o.ok => Used(o.p) <= Current(o.p).cap)
  BY <1>1, SyncOperated
<1>4. /\ built \in Seq(Words) /\ api \in {"v1", "v2"} /\ class_id \in Classes \cup {None}
      /\ op_done_synced \in BOOLEAN
      /\ "drop_class" \notin Admits => ClassAfter(built) = class_id
      /\ "late_reloc" \notin Admits /\ op_done_synced => Closed(built)
  BY <1>1, ConstructIs
<1>5. /\ ws \in Seq(Words) /\ \A i \in 1..Len(ws) : ws[i].op \notin {"data", "reloc"}
      /\ api = "v1" => Setters(ws) = {}
      /\ api = "v2" /\ keep => Len(ws) # 0 /\ ws[Len(ws)] = SetClass(class_id)
      /\ \E k \in 1..Len(ws) : ws[k] = Increment(cond)
  BY <1>4, SyncWordsAre
<1> HIDE DEF ws
<1>6. /\ push' = o.p
      /\ o.ok => status' = status /\ built' = built \o ws /\ room' = 0
      /\ ~o.ok => status' = "failed" /\ room' = 0 /\ built' = built
  BY <1>2 DEF Outcome
<1>7. "drop_class" \notin Admits => ClassAfter(built \o ws) = class_id'
  <2> SUFFICES ASSUME "drop_class" \notin Admits PROVE ClassAfter(built \o ws) = class_id
    BY <1>1
  <2>1. keep  BY <1>1
  <2>2. CASE api = "v1"  BY <1>4, <1>5, <2>2, ClassKept
  <2>3. CASE api = "v2"  BY <1>4, <1>5, <2>1, <2>3, ClassSet
  <2> QED  BY <1>4, <2>2, <2>3
<1>8. "late_reloc" \notin Admits /\ o.ok /\ op_done_synced' => Closed(built \o ws)
  <2> SUFFICES ASSUME "late_reloc" \notin Admits, o.ok, op_done_synced'
               PROVE  Closed(built \o ws)
    OBVIOUS
  <2>1. CASE cond = "op_done"
    <3>1. PICK k \in 1..Len(ws) : ws[k] = Increment("op_done")  BY <1>5, <2>1
    <3> QED  BY <1>4, <1>5, <3>1, ClosedNow
  <2>2. CASE cond # "op_done"
    <3>1. op_done_synced  BY <1>2, <1>4, <2>2
    <3> QED  BY <1>4, <1>5, <3>1, ClosedKept
  <2> QED  BY <2>1, <2>2
<1>9. op_done_synced' \in BOOLEAN  BY <1>2, <1>4
<1>10. (status' = "construct" => o.ok) /\ ~(0 > 0)  BY <1>6
<1> QED  BY <1>1, <1>3, <1>4, <1>6, <1>7, <1>8, <1>9, <1>10, StepHolds

LEMMA EndStep ==
  ASSUME IInv, End
  PROVE  IInv'
<1> DEFINE ws == IF api = "v1" THEN SyncWordsV1("op_done") ELSE <<Increment("op_done")>>
           outs == IF api = "v1" THEN SyncV1(push, "op_done") ELSE {Ok(Written(push, ws))}
<1>1. /\ status = "construct" /\ room' = 0 /\ UNCHANGED <<api, class_id, fenceVars, job>>
      /\ op_done_synced' = FALSE
      /\ \/ status' = "ready" /\ UNCHANGED <<push, built>>
         \/ /\ api = "v2" => Used(push) < Current(push).cap \/ "full_end" \in Admits
            /\ \E o \in outs :
                 /\ push' = o.p
                 /\ status' = IF o.ok THEN "ready" ELSE "failed"
                 /\ built' = IF o.ok THEN built \o ws ELSE built
  BY DEF End
<1>2. /\ built \in Seq(Words) /\ api \in {"v1", "v2"} /\ class_id \in Classes \cup {None}
      /\ api = "v1" => /\ GoodV1(push) /\ push.cur # 0 /\ WholeV1(push, built)
                       /\ push.increments = Cardinality(Counts(built))
      /\ api = "v2" => GoodV2(push) /\ WholeV2(push, built)
  BY <1>1, ConstructIs
<1>3. CASE status' = "ready" /\ UNCHANGED <<push, built>>
  <2> DEFINE o == Ok(push)
             none == <<>>
  <2>1. o.p = push /\ o.ok = TRUE  BY DEF Ok
  <2>2. built \o none = built /\ none \in Seq(Words)  BY <1>2, ConcatEmptySeq, EmptyIs
  <2> HIDE DEF o, none, ws, outs
  <2>3. Operated(o, none, 0)
    <3>1. o.ok \in BOOLEAN /\ none \in Seq(Words)  BY <2>1, <2>2
    <3>2. CASE api = "v1"
      <4>1. GoodV1(o.p) /\ WholeV1(o.p, built \o none)  BY <1>2, <2>1, <2>2, <3>2
      <4>2. o.p.increments = Cardinality(Counts(built \o none))  BY <1>2, <2>1, <2>2, <3>2
      <4> QED  BY <3>1, <3>2, <4>1, <4>2, OperatedV1
    <3>3. CASE api = "v2"
      <4>1. GoodV2(o.p) /\ WholeV2(o.p, built \o none)  BY <1>2, <2>1, <2>2, <3>3
      <4> QED  BY <3>1, <3>3, <4>1, OperatedV2
    <3> QED  BY <1>2, <3>2, <3>3
  <2>4. status' # "construct" /\ ~(0 > 0)  BY <1>3
  <2>5. /\ push' = o.p /\ status' \in {"construct", "ready"} /\ built' = built \o none
        /\ o.ok
    BY <1>3, <2>1, <2>2
  <2> QED  BY <1>1, <1>2, <2>3, <2>4, <2>5, StepHolds
<1>4. CASE /\ api = "v2" => Used(push) < Current(push).cap \/ "full_end" \in Admits
           /\ \E o \in outs :
                /\ push' = o.p
                /\ status' = IF o.ok THEN "ready" ELSE "failed"
                /\ built' = IF o.ok THEN built \o ws ELSE built
  <2>1. PICK o \in outs : /\ push' = o.p
                          /\ status' = IF o.ok THEN "ready" ELSE "failed"
                          /\ built' = IF o.ok THEN built \o ws ELSE built
    BY <1>4
  <2>2. Operated(o, ws, 0)
    <3>1. CASE api = "v1"
      <4>1. "op_done" \in Conds /\ TRUE \in BOOLEAN  BY DEF Conds
      <4>2. o \in SyncOuts("op_done", TRUE) /\ ws = SyncWords("op_done", TRUE)
        BY <2>1, <3>1 DEF SyncOuts, SyncWords
      <4> HIDE DEF ws
      <4> QED  BY <1>1, <4>1, <4>2, SyncOperated
    <3>2. CASE api = "v2"
      <4> DEFINE q == Written(push, ws)
      <4>1. o = Ok(q)  BY <2>1, <3>2
      <4>2. o.p = q /\ o.ok = TRUE  BY <4>1 DEF Ok
      <4>3. /\ ws \in Seq(Words) /\ Len(ws) = 1 /\ ws[1] = Increment("op_done")
        <5>1. ws = <<Increment("op_done")>>  BY <3>2
        <5>2. Increment("op_done") \in Words  BY WordTypes DEF Conds
        <5> HIDE DEF ws
        <5> QED  BY <5>1, <5>2
      <4> HIDE DEF ws, q
      <4>4. "full_end" \notin Admits => Used(push) + Len(ws) <= Current(push).cap
        <5>1. Used(push) \in Nat /\ Current(push).cap \in Nat  BY <1>2, <3>2, GoodIsV2
        <5>2. "full_end" \notin Admits => Used(push) < Current(push).cap  BY <1>4, <3>2
        <5> QED  BY <4>3, <5>1, <5>2
      <4>5. /\ GoodV2(q) /\ q.table = push.table /\ Current(q).mem = Current(push).mem \o ws
        BY <1>2, <3>2, <4>3, <4>4, WrittenHoldsV2 DEF q
      <4>6. \A i \in 1..Len(ws) : ws[i].op # "slot"
        <5>1. Increment("op_done").op # "slot"  BY NoSlot DEF Conds
        <5> QED  BY <4>3, <5>1
      <4>7. WholeV2(q, built \o ws)  BY <1>2, <3>2, <4>3, <4>5, <4>6, WholePlainV2
      <4>8. o.ok \in BOOLEAN  BY <4>2
      <4> QED  BY <3>2, <4>2, <4>3, <4>5, <4>7, <4>8, OperatedV2
    <3> QED  BY <1>2, <3>1, <3>2
  <2> HIDE DEF ws
  <2>3. o.ok \in BOOLEAN  BY <2>2 DEF Operated
  <2>4. status' # "construct" /\ ~(0 > 0)  BY <2>1
  <2>5. /\ push' = o.p
        /\ o.ok => status' \in {"construct", "ready"} /\ built' = built \o ws
        /\ ~o.ok => status' = "failed" /\ built' = built
    BY <2>1
  <2> QED  BY <1>1, <1>2, <2>2, <2>4, <2>5, StepHolds
<1> QED  BY <1>1, <1>3, <1>4

-----------------------------------------------------------------------------
(* A job begins, and the stream is idle again.                             *)

LEMMA BegunHolds ==
  ASSUME IInv, api \in {"v1", "v2"}, NEW p, NEW n \in Nat, Constructing(p, n), api' = api,
         UNCHANGED fenceVars,
         api = "v1" => GoodV1(p) /\ WholeV1(p, <<>>) /\ p.increments = 0,
         api = "v2" => GoodV2(p) /\ WholeV2(p, <<>>) /\ Used(p) <= Current(p).cap,
         n > 0 => Used(p) + n <= Current(p).cap
  PROVE  IInv'
<1>1. /\ push' = p /\ job' = "live" /\ room' = n /\ status' = "construct" /\ class_id' = None
      /\ op_done_synced' = FALSE /\ built' = <<>>
  BY DEF Constructing
<1>2. <<>> \in Seq(Words) /\ Counts(<<>>) = {} /\ Setters(<<>>) = {} /\ None \notin {"v1", "v2"}
  BY EmptyIs, StateIs
<1>3. JobInv'  BY <1>1, <1>2 DEF JobInv
<1>4. PushInv'
  <2>1. Used(push)' = Used(p) /\ Current(push)' = Current(p)  BY <1>1 DEF Used, Current
  <2> QED  BY <1>1, <2>1 DEF PushInv
<1>5. WholeInv'
  <2>1. CASE api = "v1"
    <3>1. WholeV1(push, built)'  BY <1>1, <2>1
    <3> QED  BY <1>1, <2>1, <3>1 DEF WholeInv
  <2>2. CASE api = "v2"
    <3>1. WholeV2(push, built)'  BY <1>1, <2>2
    <3> QED  BY <1>1, <2>2, <3>1 DEF WholeInv
  <2> QED  BY <2>1, <2>2
<1>6. KnownInv'
  <2>1. ClassAfter(built') = None  BY <1>1, <1>2 DEF ClassAfter, Setters
  <2>2. ClassIsTracked' /\ DoneIsLast'
    BY <1>1, <2>1 DEF ClassIsTracked, DoneIsLast, ClassAfter
  <2>3. api = "v1" => push'.increments = Cardinality({i \in DOMAIN built' : built'[i].op \in Conds})
    BY <1>1, <1>2, FS_EmptySet DEF Counts
  <2> QED  BY <1>1, <2>2, <2>3 DEF KnownInv
<1>7. FenceInv'  BY FencesKept DEF IInv
<1> QED  BY <1>3, <1>4, <1>5, <1>6, <1>7 DEF IInv

LEMMA IdleHolds ==
  ASSUME api' \in {None, "v1", "v2"}, status' = "free", room' = 0, built' \in Seq(Words),
         class_id' \in Classes \cup {None}, op_done_synced' \in BOOLEAN, FenceInv',
         job' \in {"null", "live", "dangling"},
         api' = None => job' = "null" /\ last_fence' = None,
         api' = "v2" => job' = "live", NEW p, push' = p,
         api' # "v2" => GoodV1(p) /\ (job' # "live" => p.bufs = <<>>),
         api' = "v2" => GoodV2(p) /\ Current(p).mem = <<>>
  PROVE  IInv'
<1>1. JobInv'  BY DEF JobInv
<1>2. api' = "v2" => p.bufs[1].mem = <<>> /\ Used(p) <= Current(p).cap
  <2> SUFFICES ASSUME api' = "v2" PROVE p.bufs[1].mem = <<>> /\ Used(p) <= Current(p).cap
    OBVIOUS
  <2>1. Current(p) = p.bufs[1] /\ Current(p).cap \in Nat  BY GoodIsV2
  <2>2. Used(p) = 0  BY EmptySeq DEF Used
  <2> QED  BY <2>1, <2>2
<1>3. PushInv'
  <2>1. Used(push)' = Used(p) /\ Current(push)' = Current(p)  BY DEF Used, Current
  <2> QED  BY <1>2, <2>1 DEF PushInv
<1>4. WholeInv'  BY <1>2 DEF WholeInv
<1>5. KnownInv'  BY DEF KnownInv, ClassIsTracked, DoneIsLast
<1> QED  BY <1>1, <1>3, <1>4, <1>5 DEF IInv

\* Nothing changes but the fences.
LEMMA SameHolds ==
  ASSUME IInv, UNCHANGED <<streamVars, job, push, room, built>>, FenceInv',
         api = None => last_fence' = last_fence
  PROVE  IInv'
<1>1. /\ api' = api /\ status' = status /\ class_id' = class_id
      /\ op_done_synced' = op_done_synced /\ job' = job /\ push' = push /\ room' = room
      /\ built' = built
  BY DEF streamVars
<1>2. JobInv'  BY <1>1 DEF IInv, JobInv
<1>3. PushInv'
  <2>1. Used(push)' = Used(push) /\ Current(push)' = Current(push)  BY <1>1 DEF Used, Current
  <2> QED  BY <1>1, <2>1 DEF IInv, PushInv
<1>4. WholeInv'  BY <1>1 DEF IInv, WholeInv
<1>5. KnownInv'
  <2>1. ClassIsTracked' = ClassIsTracked  BY <1>1 DEF ClassIsTracked, ClassAfter
  <2>2. DoneIsLast' = DoneIsLast  BY <1>1 DEF DoneIsLast, Closed
  <2> QED  BY <1>1, <2>1, <2>2 DEF IInv, KnownInv
<1> QED  BY <1>2, <1>3, <1>4, <1>5 DEF IInv

LEMMA DroppedHolds ==
  ASSUME IInv, api # None, Dropped, built' \in Seq(Words), FenceInv'
  PROVE  IInv'
<1>1. /\ api \in {"v1", "v2"} /\ class_id \in Classes \cup {None} /\ op_done_synced \in BOOLEAN
      /\ api = "v1" => GoodV1(push)
      /\ api = "v2" => GoodV2(push)
      /\ None \notin {"v1", "v2"}
  BY StateIs
<1>2. /\ status' = "free" /\ room' = 0 /\ api' = api /\ class_id' = class_id
      /\ op_done_synced' = op_done_synced
      /\ push' = IF api = "v1" THEN FreeJob(push) ELSE ResetJob(push)
      /\ job' = IF api = "v1" THEN "null" ELSE job
  BY DEF Dropped
<1>3. CASE api = "v1"
  <2> DEFINE p == FreeJob(push)
  <2>1. push' = p /\ job' = "null"  BY <1>2, <1>3
  <2>2. GoodV1(p) /\ p.bufs = <<>>  BY <1>1, <1>3, FreeJobHolds
  <2> HIDE DEF p
  <2>3. /\ api' # "v2" /\ api' # None /\ api' \in {None, "v1", "v2"}
        /\ class_id' \in Classes \cup {None} /\ op_done_synced' \in BOOLEAN
    BY <1>1, <1>2, <1>3
  <2> QED  BY <1>2, <2>1, <2>2, <2>3, IdleHolds
<1>4. CASE api = "v2"
  <2> DEFINE p == ResetJob(push)
  <2>0. job = "live"  BY <1>4 DEF IInv, JobInv
  <2>1. push' = p /\ job' = "live"  BY <1>2, <1>4, <2>0
  <2>2. GoodV2(p) /\ Current(p).mem = <<>>  BY <1>1, <1>4, ResetHolds
  <2> HIDE DEF p
  <2>3. /\ api' = "v2" /\ api' # None /\ api' \in {None, "v1", "v2"}
        /\ class_id' \in Classes \cup {None} /\ op_done_synced' \in BOOLEAN
    BY <1>1, <1>2, <1>4
  <2> QED  BY <1>2, <2>1, <2>2, <2>3, IdleHolds
<1> QED  BY <1>1, <1>3, <1>4

\* The buffer tegra_stream_create allocates for the second interface.
FirstPush ==
  [Empty EXCEPT !.bufs = <<[cap |-> FirstWords, mem |-> <<>>]>>, !.cur = 1, !.slots = FirstSlots]

LEMMA FirstPushHolds == GoodV2(FirstPush) /\ Current(FirstPush).mem = <<>>
<1> DEFINE b == [cap |-> FirstWords, mem |-> <<>>]
           p == FirstPush
<1>1. FirstWords \in Nat /\ FirstSlots \in Nat  BY TegraStreamAssumption
<1>2. b \in Buffers /\ b.mem = <<>> /\ b.cap = FirstWords  BY <1>1, EmptySeq DEF Buffers
<1> DEFINE bs == <<b>>
<1> HIDE DEF b
<1>3. /\ p.bufs = bs /\ p.cur = 1 /\ p.cmdbufs = <<>> /\ p.relocs = {} /\ p.increments = 0
      /\ p.refs = 0 /\ p.maps = 0 /\ p.table = <<>> /\ p.slots = FirstSlots
      /\ p = [bufs |-> bs, cur |-> 1, cmdbufs |-> <<>>, relocs |-> {}, increments |-> 0,
              refs |-> 0, maps |-> 0, table |-> <<>>, slots |-> FirstSlots]
  <2>1. p = [Empty EXCEPT !.bufs = bs, !.cur = 1, !.slots = FirstSlots]  BY DEF FirstPush, b
  <2> HIDE DEF bs, p
  <2>2. p = [bufs |-> bs, cur |-> 1, cmdbufs |-> <<>>, relocs |-> {}, increments |-> 0,
             refs |-> 0, maps |-> 0, table |-> <<>>, slots |-> FirstSlots]
    BY <2>1 DEF Empty
  <2> QED  BY <2>2
<1> HIDE DEF p
<1>4. bs \in Seq(Buffers) /\ Len(bs) = 1 /\ bs[1] = b /\ DOMAIN bs = 1..1  BY <1>2
<1> HIDE DEF bs
<1>5. p \in Pushes
  <2>1. <<>> \in Seq([buf : Nat, words : Nat]) /\ <<>> \in Seq(Targets)  BY EmptySeq
  <2> QED  BY <1>1, <1>3, <1>4, <2>1 DEF Pushes
<1>6. HeldV2(p)  BY <1>3, <1>4 DEF HeldV2
<1>7. Fit(p)
  <2>1. \A i \in DOMAIN p.bufs : p.bufs[i] = b  BY <1>3, <1>4
  <2>2. Len(b.mem) <= b.cap  BY <1>1, <1>2, EmptySeq
  <2> QED  BY <2>1, <2>2 DEF Fit
<1>8. Current(p).mem = <<>>  BY <1>2, <1>3, <1>4 DEF Current
<1> QED  BY <1>5, <1>6, <1>7, <1>8 DEF GoodV2, p

LEMMA CreateStep ==
  ASSUME IInv, Create
  PROVE  IInv'
<1>1. /\ api' \in {"v1", "v2"} /\ status' = "free" /\ room' = 0 /\ class_id' = None
      /\ op_done_synced' = FALSE /\ built' = built /\ last_fence' = None
      /\ UNCHANGED <<fences, refcnt, pending, held, stray>>
      /\ job' = IF api' = "v2" THEN "live" ELSE "null"
      /\ push' = IF api' = "v2" THEN FirstPush ELSE Empty
  BY DEF Create, FirstPush
<1>2. PICK p : push' = p /\ p = IF api' = "v2" THEN FirstPush ELSE Empty  BY <1>1
<1>3. built' \in Seq(Words) /\ None \notin {"v1", "v2"}  BY <1>1, StateIs
<1>4. FenceInv'
  <2>1. last_fence = None  BY DEF Create, IInv, JobInv
  <2> QED  BY <1>1, <2>1, FencesKept DEF IInv, fenceVars
<1>5. CASE api' = "v2"
  <2>1. p = FirstPush /\ job' = "live"  BY <1>1, <1>2, <1>5
  <2>2. GoodV2(p) /\ Current(p).mem = <<>>  BY <2>1, FirstPushHolds
  <2> QED  BY <1>1, <1>2, <1>3, <1>4, <1>5, <2>1, <2>2, IdleHolds
<1>6. CASE api' = "v1"
  <2>1. p = Empty /\ job' = "null" /\ api' # "v2" /\ api' # None  BY <1>1, <1>2, <1>3, <1>6
  <2>2. GoodV1(p) /\ p.bufs = <<>>  BY <2>1, GoodEmpty
  <2> QED  BY <1>1, <1>2, <1>3, <1>4, <1>6, <2>1, <2>2, IdleHolds
<1> QED  BY <1>1, <1>5, <1>6

LEMMA DestroyStep ==
  ASSUME IInv, Destroy
  PROVE  IInv'
<1>1. /\ api # None /\ PutFence(last_fence) /\ api' = None /\ last_fence' = None
      /\ job' = "null" /\ status' = "free" /\ room' = 0 /\ built' = <<>>
      /\ push' = IF api = "v1" THEN FreeJob(push) ELSE Empty
      /\ UNCHANGED <<class_id, op_done_synced, held, stray>>
  BY DEF Destroy
<1>2. PICK p : push' = p /\ p = IF api = "v1" THEN FreeJob(push) ELSE Empty  BY <1>1
<1>3. GoodV1(p) /\ p.bufs = <<>>
  <2>1. CASE api = "v1"
    <3>1. GoodV1(push)  BY <2>1, StateIs
    <3> QED  BY <1>2, <2>1, <3>1, FreeJobHolds
  <2>2. CASE api # "v1"  BY <1>2, <2>2, GoodEmpty
  <2> QED  BY <2>1, <2>2
<1>4. FenceInv'  BY <1>1, LastFencePut DEF IInv
<1>5. /\ class_id' \in Classes \cup {None} /\ op_done_synced' \in BOOLEAN
      /\ built' \in Seq(Words) /\ api' # "v2"
  BY <1>1, StateIs, EmptyIs
<1> QED  BY <1>1, <1>2, <1>3, <1>4, <1>5, IdleHolds

LEMMA BeginV1Step ==
  ASSUME IInv, BeginV1
  PROVE  IInv'
<1>1. /\ api = "v1" /\ status = "free" /\ api' = api /\ UNCHANGED fenceVars
      /\ \E o \in {Err(Empty)} \cup PrepareV1(Empty, 1) :
           IF o.ok THEN Constructing(o.p, Page)
           ELSE /\ job' = "dangling" /\ push' = FreeJob(o.p)
                /\ UNCHANGED <<status, class_id, op_done_synced, room, built, sent>>
  BY DEF BeginV1
<1>2. PICK o \in {Err(Empty)} \cup PrepareV1(Empty, 1) :
        IF o.ok THEN Constructing(o.p, Page)
        ELSE /\ job' = "dangling" /\ push' = FreeJob(o.p)
             /\ UNCHANGED <<status, class_id, op_done_synced, room, built, sent>>
  BY <1>1
<1>3. Empty.cur = 0 /\ Empty.increments = 0 /\ GoodV1(Empty)  BY GoodEmpty
<1>4. /\ GoodV1(o.p) /\ o.ok \in BOOLEAN
      /\ o.ok => /\ o.p = NewBuffer(Empty, 1) /\ Used(o.p) = 0 /\ Current(o.p).cap = AlignUp(1)
                 /\ o.p.increments = 0
  <2>1. CASE o = Err(Empty)
    <3>1. o.p = Empty /\ o.ok = FALSE  BY <2>1 DEF Err
    <3> QED  BY <1>3, <3>1
  <2>2. CASE o \in PrepareV1(Empty, 1)
    <3>1. 1 \in Nat \ {0}  OBVIOUS
    <3> QED  BY <1>3, <2>2, <3>1, PrepareV1Holds
  <2> QED  BY <2>1, <2>2
<1>5. CASE o.ok
  <2>1. Constructing(o.p, Page)  BY <1>2, <1>5
  <2>2. Page \in Nat /\ AlignUp(1) = Page /\ AlignUp(1) \in Nat
    <3>1. Page \in Nat /\ 1 \in Nat \ {0}  BY TegraStreamAssumption
    <3> QED  BY <3>1, AlignUpHolds
  <2>3. WholeV1(o.p, <<>>)
    <3>1. /\ Empty \in Pushes /\ Empty.bufs = <<>> /\ Empty.cmdbufs = <<>> /\ Empty.relocs = {}
      BY <1>3, GoodEmpty, GoodIs
    <3>2. WholeV1(NewBuffer(Empty, 1), <<>>)  BY <2>2, <3>1, WholeFirst
    <3> QED  BY <1>4, <1>5, <3>2
  <2>4. Used(o.p) + Page <= Current(o.p).cap  BY <1>4, <1>5, <2>2
  <2>5. api \in {"v1", "v2"} /\ api # "v2"  BY <1>1
  <2> QED  BY <1>1, <1>4, <1>5, <2>1, <2>2, <2>3, <2>4, <2>5, BegunHolds
<1>6. CASE ~o.ok
  <2>1. /\ job' = "dangling" /\ push' = FreeJob(o.p) /\ status' = "free" /\ room' = room
        /\ class_id' = class_id /\ op_done_synced' = op_done_synced /\ built' = built
    BY <1>1, <1>2, <1>6
  <2> DEFINE p == FreeJob(o.p)
  <2>2. push' = p /\ GoodV1(p) /\ p.bufs = <<>>  BY <1>4, <2>1, FreeJobHolds
  <2> HIDE DEF p
  <2>3. room' = 0
    <3>1. room \in Nat /\ (room > 0 => status = "construct")  BY DEF IInv, PushInv
    <3>2. ~(room > 0)  BY <1>1, <3>1
    <3> QED  BY <2>1, <3>1, <3>2
  <2>4. /\ class_id' \in Classes \cup {None} /\ op_done_synced' \in BOOLEAN
        /\ built' \in Seq(Words) /\ api' # "v2" /\ api' # None /\ api' \in {None, "v1", "v2"}
    BY <1>1, <2>1, StateIs
  <2>5. FenceInv'  BY <1>1, FencesKept DEF IInv
  <2> QED  BY <2>1, <2>2, <2>3, <2>4, <2>5, IdleHolds
<1> QED  BY <1>4, <1>5, <1>6

LEMMA BeginV2Step ==
  ASSUME IInv, BeginV2
  PROVE  IInv'
<1>1. /\ api = "v2" /\ status = "free" /\ api' = api /\ UNCHANGED fenceVars
      /\ Constructing(push, push.bufs[1].cap)
  BY DEF BeginV2
<1>2. /\ GoodV2(push) /\ push.bufs[1].mem = <<>>  BY <1>1 DEF IInv, PushInv, WholeInv
<1>3. Current(push) = push.bufs[1] /\ Current(push).cap \in Nat  BY <1>2, GoodIsV2
<1> DEFINE n == push.bufs[1].cap
<1>4. n \in Nat /\ Used(push) = 0 /\ Used(push) + n <= Current(push).cap
      /\ Used(push) <= Current(push).cap
  <2>1. Used(push) = 0  BY <1>2, <1>3, EmptySeq DEF Used
  <2> QED  BY <1>3, <2>1
<1>5. WholeV2(push, <<>>)
  <2>1. DOMAIN push.bufs[1].mem = {}  BY <1>2
  <2>2. ReceivedV2(push) = <<>>
    <3>1. ReceivedV2(push) = [i \in {} |-> Read(push.table, push.bufs[1].mem[i])]
      BY <2>1, Zenon DEF ReceivedV2, Read
    <3> QED  BY <3>1
  <2> QED  BY <2>1, <2>2 DEF WholeV2
<1>6. api \in {"v1", "v2"} /\ api # "v1"  BY <1>1
<1> HIDE DEF n
<1>7. Constructing(push, n)  BY <1>1 DEF n
<1> QED  BY <1>1, <1>2, <1>4, <1>5, <1>6, <1>7, BegunHolds

LEMMA CleanupStep ==
  ASSUME IInv, Cleanup
  PROVE  IInv'
<1>1. api # None /\ Dropped /\ built' = <<>> /\ UNCHANGED fenceVars  BY DEF Cleanup, NothingSent
<1>2. FenceInv'  BY <1>1, FencesKept DEF IInv
<1>3. built' \in Seq(Words)  BY <1>1, EmptyIs
<1> QED  BY <1>1, <1>2, <1>3, DroppedHolds

LEMMA FlushStep ==
  ASSUME IInv, Flush
  PROVE  IInv'
<1>1. /\ api # None /\ PutFence(last_fence) /\ last_fence' = None /\ UNCHANGED <<held, stray>>
      /\ \/ UNCHANGED <<streamVars, job, push, room, built>>
         \/ Dropped /\ (built' = <<>> \/ built' = built)
  BY DEF Flush, NothingSent, Sent
<1>2. FenceInv'  BY <1>1, LastFencePut DEF IInv
<1>3. CASE UNCHANGED <<streamVars, job, push, room, built>>  BY <1>1, <1>2, <1>3, SameHolds
<1>4. CASE Dropped /\ (built' = <<>> \/ built' = built)
  <2>1. built' \in Seq(Words)  BY <1>4, EmptyIs, StateIs
  <2> QED  BY <1>1, <1>2, <1>4, <2>1, DroppedHolds
<1> QED  BY <1>1, <1>3, <1>4

LEMMA SubmitStep ==
  ASSUME IInv, Submit
  PROVE  IInv'
<1>1. /\ api # None /\ Dropped
      /\ \/ NothingSent /\ UNCHANGED fenceVars
         \/ /\ Sent
            /\ \/ \E f \in Fences \ fences : ReplaceLastFence(f)
               \/ api = "v1" /\ UNCHANGED fenceVars
         \/ /\ \E f \in Fences \ fences :
                 /\ fences' = fences \cup {f} /\ stray' = stray \cup {f}
                 /\ refcnt' = [refcnt EXCEPT ![f] = 0]
            /\ NothingSent
            /\ UNCHANGED <<last_fence, pending, held>>
  BY DEF Submit
<1>2. FenceInv  BY DEF IInv
<1>3. built' \in Seq(Words)
  <2>1. built' = <<>> \/ built' = built  BY <1>1 DEF NothingSent, Sent
  <2> QED  BY <2>1, EmptyIs, StateIs
<1>4. FenceInv'
  <2>1. CASE UNCHANGED fenceVars  BY <1>2, <2>1, FencesKept
  <2>2. CASE \E f \in Fences \ fences : ReplaceLastFence(f)  BY <1>2, <2>2, ReplaceHolds
  <2>3. CASE /\ \E f \in Fences \ fences :
                  /\ fences' = fences \cup {f} /\ stray' = stray \cup {f}
                  /\ refcnt' = [refcnt EXCEPT ![f] = 0]
             /\ UNCHANGED <<last_fence, pending, held>>
    BY <1>2, <2>3, StrayHolds
  <2> QED  BY <1>1, <2>1, <2>2, <2>3
<1> QED  BY <1>1, <1>3, <1>4, DroppedHolds

LEMMA NextInv ==
  ASSUME IInv, Next
  PROVE  IInv'
<1>1. CASE Create  BY <1>1, CreateStep
<1>2. CASE Destroy  BY <1>2, DestroyStep
<1>3. CASE BeginV1  BY <1>3, BeginV1Step
<1>4. CASE BeginV2  BY <1>4, BeginV2Step
<1>5. CASE \E n \in 1..MaxWords : Prep(n)  BY <1>5, PrepStep
<1>6. CASE Push  BY <1>6, PushStep
<1>7. CASE \E c \in Classes : PushSetClass(c)  BY <1>7, PushSetClassStep
<1>8. CASE \E t \in Targets : PushReloc(t)  BY <1>8, PushRelocStep
<1>9. CASE \E n \in 1..2, t \in Targets \cup {None} : PushWords(n, t)  BY <1>9, PushWordsStep
<1>10. CASE \E cond \in Conds, keep \in BOOLEAN : Sync(cond, keep)  BY <1>10, SyncStep
<1>11. CASE End  BY <1>11, EndStep
<1>12. CASE Cleanup  BY <1>12, CleanupStep
<1>13. CASE Flush  BY <1>13, FlushStep
<1>14. CASE Submit  BY <1>14, SubmitStep
<1>15. FenceInv  BY DEF IInv
<1>16. CASE GetLastFence
  <2>1. UNCHANGED <<streamVars, job, push, room, built, last_fence>>  BY <1>16 DEF GetLastFence
  <2> QED  BY <1>15, <1>16, <2>1, GetHolds, SameHolds
<1>17. CASE \E f \in Fences : WaitFence(f)
  <2>1. UNCHANGED <<streamVars, job, push, room, built, last_fence>>  BY <1>17 DEF WaitFence
  <2>2. FenceInv'  BY <1>15, <1>17, WaitHolds
  <2> QED  BY <2>1, <2>2, SameHolds
<1>18. CASE \E f \in Fences : ReleaseFence(f)
  <2>1. UNCHANGED <<streamVars, job, push, room, built, last_fence>>  BY <1>18 DEF ReleaseFence
  <2>2. FenceInv'  BY <1>15, <1>18, ReleaseHolds
  <2> QED  BY <2>1, <2>2, SameHolds
<1> QED
  BY <1>1, <1>2, <1>3, <1>4, <1>5, <1>6, <1>7, <1>8, <1>9, <1>10, <1>11, <1>12, <1>13, <1>14,
     <1>16, <1>17, <1>18 DEF Next

-----------------------------------------------------------------------------
(* The theorems.                                                           *)

\* IInv is an invariant: who holds what of which buffer, that the buffers hold the words
\* pushed since begin, and what the library believes of these words and of the fences.
THEOREM StreamInvariance == Spec => []IInv
<1>1. IInv /\ [Next]_vars => IInv'
  <2> SUFFICES ASSUME IInv, [Next]_vars PROVE IInv'  OBVIOUS
  <2>1. CASE Next  BY <2>1, NextInv
  <2>2. CASE UNCHANGED vars
    <3>1. FenceInv'  BY <2>2, FencesKept DEF IInv, vars, fenceVars
    <3>2. UNCHANGED <<streamVars, job, push, room, built, last_fence>>
      BY <2>2 DEF vars, fenceVars
    <3> QED  BY <3>1, <3>2, SameHolds
  <2> QED  BY <2>1, <2>2
<1> QED  BY <1>1, InitInv, PTL DEF Spec

\* Every variable keeps its type, and what the caller may still push is never more than
\* the current buffer; a count of references stays within what tegra_stream_put_fence
\* accepts.
THEOREM StreamTypeCorrect == Spec => []TypeOK
<1>1. IInv => TypeOK
  <2> SUFFICES ASSUME IInv PROVE TypeOK  OBVIOUS
  <2>1. GoodV1(push) \/ GoodV2(push)  BY DEF IInv, PushInv
  <2>2. push \in Pushes /\ push.cur \in 0..Len(push.bufs) /\ push.maps \in 0..1
    <3>1. CASE GoodV1(push)  BY <3>1 DEF GoodV1, HeldV1
    <3>2. CASE GoodV2(push)  BY <3>2 DEF GoodV2, HeldV2
    <3> QED  BY <2>1, <3>1, <3>2
  <2>3. push.increments \in Nat /\ push.refs \in Nat  BY <2>2, PushFields
  <2>4. push.cur # 0 => room <= Current(push).cap
    <3> SUFFICES ASSUME push.cur # 0 PROVE room <= Current(push).cap  OBVIOUS
    <3>1. Current(push).cap \in Nat /\ Used(push) \in Nat
      BY <2>1, GoodIs, GoodIsV2
    <3>2. room \in Nat /\ (room > 0 => Used(push) + room <= Current(push).cap)
      BY DEF IInv, PushInv
    <3> QED  BY <3>1, <3>2
  <2> QED  BY <2>2, <2>3, <2>4 DEF IInv, JobInv, PushInv, KnownInv, FenceInv, TypeOK
<1> QED  BY <1>1, StreamInvariance, PTL

\* No word is written outside of a command buffer, whatever is prepared, pushed, relocated
\* and synchronised in whatever order, of which sizes, and whichever allocations fail.
\* Excluded is the one call that does it: tegra_stream_end_v2 on a buffer that is full.
THEOREM BuffersAreLargeEnough ==
  ASSUME "full_end" \notin Admits
  PROVE  Spec => []NoOverrun
<1>1. IInv => NoOverrun
  <2> SUFFICES ASSUME IInv PROVE NoOverrun  OBVIOUS
  <2>1. Fit(push)  BY DEF IInv, PushInv, GoodV1, GoodV2
  <2>2. room > 0 => push.cur # 0 /\ Used(push) + room <= Current(push).cap
    <3> SUFFICES ASSUME room > 0
                 PROVE  push.cur # 0 /\ Used(push) + room <= Current(push).cap
      OBVIOUS
    <3>1. status = "construct" /\ Used(push) + room <= Current(push).cap
      BY DEF IInv, PushInv
    <3>2. push.cur # 0  BY <3>1, ConstructIs, GoodIsV2
    <3> QED  BY <3>1, <3>2
  <2> QED  BY <2>1, <2>2 DEF Fit, NoOverrun
<1> QED  BY <1>1, StreamInvariance, PTL

\* The words the library leaves out are not needed: class_id is the class the engine is in
\* after the words of the job, op_done_synced stands for an OP_DONE increment that nothing
\* follows, and the job counts its increments. The callers keep the class when they
\* synchronise and push no relocation after the last increment.
THEOREM SparedWordsAreNotNeeded ==
  ASSUME "drop_class" \notin Admits, "late_reloc" \notin Admits
  PROVE  Spec => []SparedWordsAreKnown
<1>1. IInv => SparedWordsAreKnown
  BY DEF IInv, KnownInv, SparedWordsAreKnown, IncrementsAreExact
<1> QED  BY <1>1, StreamInvariance, PTL

\* Every fence is counted once for the stream and once for each of its users, and the
\* stream holds one reference to each command buffer of its job and one map, on every path.
THEOREM NothingLeaks == Spec => []NothingIsLost
<1>1. IInv => NothingIsLost
  <2> SUFFICES ASSUME IInv PROVE NothingIsLost  OBVIOUS
  <2>1. FencesAreCounted  BY DEF IInv, FenceInv
  <2>2. BuffersAreReturned
    BY DEF IInv, PushInv, GoodV1, HeldV1, BuffersAreReturned
  <2> QED  BY <2>1, <2>2 DEF NothingIsLost
<1> QED  BY <1>1, StreamInvariance, PTL

-----------------------------------------------------------------------------
(* Both interfaces implement CommandStream.                                *)

LEMMA Prefix ==
  ASSUME NEW ws \in Seq(Words), NEW xs \in Seq(Words)
  PROVE  IsPrefix(ws, ws \o xs) /\ IsPrefix(ws, ws)
<1>1. Len(ws) \in Nat /\ Len(ws) <= Len(ws \o xs)  BY JoinedDomain
<1>2. SubSeq(ws, 1, Len(ws)) = SubSeq(ws \o xs, 1, Len(ws))
  <2>1. CASE Len(ws) = 0
    <3>1. SubSeq(ws, 1, Len(ws)) = <<>> /\ SubSeq(ws \o xs, 1, Len(ws)) = <<>>
      BY <2>1, SubSeqEmpty
    <3> QED  BY <3>1
  <2>2. CASE Len(ws) # 0
    <3>1. 1 \in 1..Len(ws) /\ Len(ws) \in 1..Len(ws)  BY <1>1, <2>2
    <3> QED  BY <3>1, SubSeqOfConcat1
  <2> QED  BY <2>1, <2>2
<1> QED  BY <1>1, <1>2 DEF IsPrefix

\* An operation between begin and end is a Write.
LEMMA OutcomeWrites ==
  ASSUME IInv, status = "construct", NEW o, NEW ws \in Seq(Words), NEW left,
         Outcome(o, ws, left), sent' = sent
  PROVE  Stream!Write
<1>1. built \in Seq(Words)  BY StateIs
<1>2. status' \in {"construct", "failed"} /\ (built' = built \/ built' = built \o ws)
  BY DEF Outcome
<1>3. IsPrefix(built, built')  BY <1>1, <1>2, Prefix
<1> QED  BY <1>2, <1>3 DEF Stream!Write, Stream!Extend, Stream!IsPrefix, IsPrefix

\* What the kernel may get of a job that is ready is what was pushed.
LEMMA ReceivedIsBuilt ==
  ASSUME IInv, status = "ready"
  PROVE  \A ws \in Received : ws = built
<1>1. /\ api \in {"v1", "v2"} /\ built \in Seq(Words)
      /\ api = "v1" => GoodV1(push) /\ WholeV1(push, built)
      /\ api = "v2" => WholeV2(push, built)
  BY StateIs DEF IInv, WholeInv
<1>2. CASE api = "v1"
  <2>1. push \in Pushes /\ push.cur \in 1..Len(push.bufs) /\ push.maps = 1 /\ push.cur # 0
    <3>1. push.cur # 0  BY <1>1, <1>2 DEF WholeV1
    <3> QED  BY <1>1, <1>2, <3>1, GoodIs
  <2>2. ReceivedV1(Queued(push)) = built  BY <1>1, <1>2, <2>1, WholeQueued
  <2>3. ASSUME NEW o \in Queue(push), o.ok PROVE o.p = Queued(push)
    <3>1. o = Err(CutOff(push)) \/ o = Ok(Queued(push))  BY <2>1 DEF Queue, Queued
    <3> QED  BY <2>3, <3>1 DEF Ok, Err
  <2>4. Received = {ReceivedV1(o.p) : o \in {q \in Queue(push) : q.ok}}
    BY <1>2 DEF Received
  <2> QED  BY <2>2, <2>3, <2>4
<1>3. CASE api = "v2"
  <2>1. Received = {ReceivedV2(push)}  BY <1>3 DEF Received
  <2> QED  BY <1>1, <1>3, <2>1 DEF WholeV2
<1> QED  BY <1>1, <1>2, <1>3

LEMMA SentIsSend ==
  ASSUME IInv, Sent, status' = "free"
  PROVE  Stream!Send
<1>1. status = "ready" /\ sent' \in Received /\ built' = built  BY DEF Sent
<1>2. sent' = built  BY <1>1, ReceivedIsBuilt
<1> QED  BY <1>1, <1>2 DEF Stream!Send

LEMMA EndIsEnd ==
  ASSUME IInv, End, "late_reloc" \notin Admits
  PROVE  Stream!Next
<1> DEFINE ws == IF api = "v1" THEN SyncWordsV1("op_done") ELSE <<Increment("op_done")>>
<1>1. /\ status = "construct" /\ sent' = sent
      /\ \/ op_done_synced /\ status' = "ready" /\ built' = built
         \/ status' = "failed" /\ built' = built
         \/ status' = "ready" /\ built' = built \o ws
  BY DEF End
<1>2. built \in Seq(Words) /\ api \in {"v1", "v2"}  BY StateIs, <1>1
<1>3. /\ ws \in Seq(Words)
      /\ \E k \in 1..Len(ws) : ws[k] = Increment("op_done")
      /\ \A i \in 1..Len(ws) : ws[i].op \notin {"data", "reloc"}
  <2>1. "op_done" \in Conds /\ TRUE \in BOOLEAN  BY DEF Conds
  <2>2. CASE api = "v1"
    <3>1. ws = SyncWords("op_done", TRUE)  BY <2>2 DEF SyncWords
    <3> HIDE DEF ws
    <3> QED  BY <1>1, <1>2, <2>1, <3>1, ConstructIs, SyncWordsAre
  <2>3. CASE api = "v2"
    <3>1. ws = <<Increment("op_done")>>  BY <2>3
    <3>2. Increment("op_done") \in Words /\ Increment("op_done").op \in Conds
      BY <2>1, WordTypes, NoSlot
    <3> HIDE DEF ws
    <3> QED  BY <3>1, <3>2 DEF Conds
  <2> QED  BY <1>2, <2>2, <2>3
<1> HIDE DEF ws
<1>4. IsPrefix(built, built')  BY <1>1, <1>2, <1>3, Prefix
<1>5. CASE status' = "failed"
  BY <1>1, <1>4, <1>5 DEF Stream!Next, Stream!Write, Stream!Extend, Stream!IsPrefix,
                            IsPrefix
<1>6. CASE status' = "ready"
  <2>1. Closed(built')
    <3>1. CASE op_done_synced /\ built' = built
      <4>1. Closed(built)  BY <1>1, <3>1, ConstructIs
      <4> QED  BY <3>1, <4>1
    <3>2. CASE built' = built \o ws
      <4>1. Closed(built \o ws)  BY <1>2, <1>3, ClosedNow
      <4> QED  BY <3>2, <4>1
    <3> QED  BY <1>1, <1>6, <3>1, <3>2
  <2> QED  BY <1>1, <1>4, <1>6, <2>1 DEF Stream!Next, Stream!End, Stream!Extend,
                                    Stream!IsPrefix, IsPrefix
<1> QED  BY <1>1, <1>5, <1>6

LEMMA WritesAre ==
  ASSUME IInv,
         \/ \E n \in 1..MaxWords : Prep(n)
         \/ Push
         \/ \E c \in Classes : PushSetClass(c)
         \/ \E t \in Targets : PushReloc(t)
         \/ \E n \in 1..2, t \in Targets \cup {None} : PushWords(n, t)
         \/ \E cond \in Conds, keep \in BOOLEAN : Sync(cond, keep)
  PROVE  Stream!Write
<1>1. CASE \E n \in 1..MaxWords : Prep(n)
  <2>1. /\ status = "construct" /\ sent' = sent
        /\ \E o, n : Outcome(o, <<>>, n)
    BY <1>1 DEF Prep, Fits
  <2> QED  BY <2>1, EmptyIs, OutcomeWrites
<1>2. ASSUME NEW w \in Words, PushedWord(w), sent' = sent PROVE Stream!Write
  <2> DEFINE ws == <<w>>
             o == Ok(Written(push, <<w>>))
  <2>1. status = "construct" /\ Outcome(o, ws, room - 1)  BY <1>2 DEF PushedWord, Fits
  <2>2. ws \in Seq(Words)  OBVIOUS
  <2> HIDE DEF ws, o
  <2> QED  BY <1>2, <2>1, <2>2, OutcomeWrites
<1>3. CASE Push  BY <1>2, <1>3, WordTypes DEF Push
<1>4. CASE \E c \in Classes : PushSetClass(c)  BY <1>2, <1>4, WordTypes DEF PushSetClass
<1>5. CASE \E t \in Targets : PushReloc(t)
  <2>1. PICK t \in Targets : PushReloc(t)  BY <1>5
  <2> DEFINE ws == <<Reloc(t)>>
  <2>2. /\ status = "construct" /\ sent' = sent
        /\ \E o : Outcome(o, ws, Max({0, room - 1}))
    BY <2>1 DEF PushReloc, Fits
  <2>3. ws \in Seq(Words)  BY RelocIs
  <2> HIDE DEF ws
  <2> QED  BY <2>2, <2>3, OutcomeWrites
<1>6. CASE \E n \in 1..2, t \in Targets \cup {None} : PushWords(n, t)
  <2>1. PICK n \in 1..2, t \in Targets \cup {None} : PushWords(n, t)  BY <1>6
  <2>2. sent' = sent  BY <2>1 DEF PushWords
  <2>3. status = "construct" /\ \E o : Outcome(o, CopiedWords(n, t), 0)
    BY <2>1, InPushWords DEF Fits
  <2>4. CopiedWords(n, t) \in Seq(Words)  BY CopiedWordsAre
  <2> QED  BY <2>2, <2>3, <2>4, OutcomeWrites
<1>7. CASE \E cond \in Conds, keep \in BOOLEAN : Sync(cond, keep)
  <2>1. PICK cond \in Conds, keep \in BOOLEAN : Sync(cond, keep)  BY <1>7
  <2>2. status = "construct" /\ sent' = sent /\ \E o : Outcome(o, SyncWords(cond, keep), 0)
    BY <2>1 DEF Sync, Fits, SyncWords
  <2>3. SyncWords(cond, keep) \in Seq(Words)  BY <2>2, ConstructIs, SyncWordsAre
  <2> QED  BY <2>2, <2>3, OutcomeWrites
<1> QED  BY <1>1, <1>3, <1>4, <1>5, <1>6, <1>7

\* A step of the stream is one of CommandStream's, or none.
LEMMA StepImplements ==
  ASSUME IInv, Next, "late_reloc" \notin Admits
  PROVE  Stream!Next \/ UNCHANGED <<status, built, sent>>
<1>1. CASE Create
  <2>1. status = "free"  BY <1>1 DEF Create, IInv, JobInv
  <2> QED  BY <1>1, <2>1 DEF Create
<1>2. CASE Destroy  BY <1>2 DEF Destroy, Stream!Next, Stream!Drop
<1>3. CASE BeginV1  BY <1>3 DEF BeginV1, Constructing, Stream!Next, Stream!Begin
<1>4. CASE BeginV2  BY <1>4 DEF BeginV2, Constructing, Stream!Next, Stream!Begin
<1>5. CASE \/ \E n \in 1..MaxWords : Prep(n)
           \/ Push
           \/ \E c \in Classes : PushSetClass(c)
           \/ \E t \in Targets : PushReloc(t)
           \/ \E n \in 1..2, t \in Targets \cup {None} : PushWords(n, t)
           \/ \E cond \in Conds, keep \in BOOLEAN : Sync(cond, keep)
  BY <1>5, WritesAre DEF Stream!Next
<1>6. CASE End  BY <1>6, EndIsEnd
<1>7. CASE Cleanup  BY <1>7 DEF Cleanup, Dropped, NothingSent, Stream!Next, Stream!Drop
<1>8. ASSUME Dropped, NothingSent PROVE Stream!Next
  BY <1>8 DEF Dropped, NothingSent, Stream!Next, Stream!Drop
<1>9. ASSUME Dropped, Sent PROVE Stream!Next
  <2>1. status' = "free"  BY <1>9 DEF Dropped
  <2> QED  BY <1>9, <2>1, SentIsSend DEF Stream!Next
<1>10. CASE Flush
  <2>1. \/ UNCHANGED <<streamVars, job, push, room, built, sent>>
        \/ Dropped /\ (NothingSent \/ Sent)
    BY <1>10 DEF Flush
  <2> QED  BY <1>8, <1>9, <2>1 DEF streamVars
<1>11. CASE Submit
  <2>1. Dropped /\ (NothingSent \/ Sent)  BY <1>11 DEF Submit
  <2> QED  BY <1>8, <1>9, <2>1
<1>12. CASE GetLastFence \/ \E f \in Fences : WaitFence(f) \/ ReleaseFence(f)
  BY <1>12 DEF GetLastFence, WaitFence, ReleaseFence, streamVars
<1> QED
  BY <1>1, <1>2, <1>3, <1>4, <1>5, <1>6, <1>7, <1>10, <1>11, <1>12 DEF Next

\* Whatever interface the kernel has and whatever fails, the words pushed between begin
\* and end reach the kernel as one stream, whole, in order, with every relocation at its
\* word and closed by an OP_DONE increment, or not at all; if no relocation is pushed
\* after the last increment.
THEOREM StreamsAreDelivered ==
  ASSUME "late_reloc" \notin Admits
  PROVE  Spec => DeliversWhatWasBuilt
<1>1. Init => Stream!Init  BY DEF Init, Stream!Init
<1>2. IInv /\ [Next]_vars => [Stream!Next]_Stream!vars
  <2>1. Next /\ IInv => Stream!Next \/ UNCHANGED <<status, built, sent>>  BY StepImplements
  <2>2. UNCHANGED vars => UNCHANGED <<status, built, sent>>  BY DEF vars, streamVars
  <2> QED  BY <2>1, <2>2 DEF Stream!vars
<1> QED  BY <1>1, <1>2, StreamInvariance, PTL DEF Spec, DeliversWhatWasBuilt, Stream!Spec
=============================================================================
