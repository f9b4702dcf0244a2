---------------------------- MODULE BoCacheProofs ----------------------------
(***************************************************************************)
(* Proofs about BoCache, for any number of threads, buffers, names, sizes  *)
(* of buckets and ages: a buffer has one owner, who can use it, and the    *)
(* lists, counters and tables say where it is. What the caches drop, and   *)
(* when, does not matter for that; the last part shows that nothing large  *)
(* stays in them for too long.                                             *)
(***************************************************************************)
EXTENDS BoCache, FiniteSetTheorems, SequenceTheorems, WellFoundedInduction, TLAPS

-----------------------------------------------------------------------------
(* The inductive invariant.                                                *)

Objects == [kind : {"free", "own", "opened"}, ref : Nat, size : Nat, sparse : BOOLEAN,
            reuse : BOOLEAN, name : Names \cup {None}, map : {"none", "mapped", "cached"},
            mmapRef : Nat, freeAge : Nat, unmapAge : Nat]
Holds == [refs : Nat, maps : Nat, size : Nat, sparse : BOOLEAN]

\* Who has a buffer: a caller, a bucket, or a call that makes it or gives it back.
Held(b) == app[b].refs > 0
Passes(t, b) == arg[t] = b /\ pc[t] \in {"registering", "releasing", "opened"}

\* A buffer of the mmap cache, and those of a bucket.
InMmapCache(b) == bo[b].map = "cached"
MappingsOf(k) == {b \in Bos : InMmapCache(b) /\ Bucket(b) = k}

DataTypes ==
  /\ bo \in [Bos -> Objects] /\ app \in [Bos -> Holds]
  /\ list \in [Buckets -> Seq(Bos)] /\ entries \in [Buckets -> Int]
  /\ mmaps \in [Buckets -> Int] /\ mmapList \in Seq(Bos)
  /\ cacheTime \in {"zero", "now", "earlier"} /\ mmapTime \in {"now", "earlier"}
  /\ handleTable \subseteq Bos /\ busy \subseteq Bos
  /\ nameTable \in [Names -> Bos \cup {None}]
CallTypes ==
  /\ pc \in [Threads -> Steps] /\ arg \in [Threads -> Bos \cup {None}]
  /\ want \in [Threads -> Holds]
TypeInv == DataTypes /\ CallTypes

\* A buffer that is not free is in one place.
PlaceOf(b) ==
  /\ bo[b].kind = "free" =>
       bo[b] = NoBo /\ ~Held(b) /\ ~Listed(b) /\ \A t \in Threads : arg[t] # b
  /\ bo[b].kind # "free" => Held(b) \/ Listed(b) \/ \E t \in Threads : Passes(t, b)
  /\ ~(Held(b) /\ Listed(b))
  /\ \A t \in Threads : Passes(t, b) => ~Held(b) /\ ~Listed(b)
  /\ \A t, u \in Threads : Passes(t, b) /\ Passes(u, b) => t = u
PlaceInv == \A b \in Bos : PlaceOf(b)

\* A buffer is in the list of its own bucket, once, and has no reference.
ListInv ==
  /\ \A k \in Buckets : IsInjective(list[k]) /\ entries[k] = Len(list[k])
  /\ \A k \in Buckets : \A b \in ToSet(list[k]) :
       bo[b].kind = "own" /\ Bucket(b) = k /\ bo[b].ref = 0

\* What each step of a call has in its hands.
CallOf(t) ==
  /\ pc[t] \in {"idle", "creating", "retrying", "flushing", "crashed"} => arg[t] = None
  /\ pc[t] = "registering" =>
       /\ arg[t] # None /\ bo[arg[t]].kind = "own" /\ bo[arg[t]].ref = 1
       /\ bo[arg[t]].map # "mapped" /\ bo[arg[t]].mmapRef = 0
  /\ pc[t] = "releasing" => arg[t] # None /\ bo[arg[t]].ref = 0
  /\ pc[t] = "opened" => /\ arg[t] # None /\ bo[arg[t]].kind = "opened" /\ bo[arg[t]].ref = 1
                         /\ bo[arg[t]].map # "mapped" /\ bo[arg[t]].mmapRef = 0
  /\ pc[t] = "naming" => arg[t] # None /\ Held(arg[t])
  /\ pc[t] = "flush_free" => arg[t] # None /\ Listed(arg[t])
CallInv == \A t \in Threads : CallOf(t)

\* References and mappings are counted. Only a buffer of our own is ever cached.
RefOf(b) ==
  /\ app[b].refs <= MaxRefs /\ app[b].maps <= MaxRefs /\ bo[b].mmapRef <= MaxRefs
  /\ app[b].refs = 0 => app[b].maps = 0
  /\ Held(b) => /\ bo[b].ref = app[b].refs /\ bo[b].mmapRef = app[b].maps
                /\ bo[b].map = "mapped" <=> app[b].maps > 0
  /\ bo[b].reuse => bo[b].kind = "own"
RefInv == \A b \in Bos : RefOf(b)

\* The mmap cache and its counts.
MmapInv ==
  /\ IsInjective(mmapList)
  /\ \A b \in Bos : b \in ToSet(mmapList) <=> InMmapCache(b)
  /\ \A k \in Buckets : mmaps[k] = Cardinality(MappingsOf(k))

\* Sizes: those of a bucket have its size; a request is for one large enough.
Fitting(w) ==
  LET k == BucketOf(w.refs, w.sparse)
  IN w.refs >= w.size /\ (k # None => w.refs = k[1])
SizeOfBo(b) ==
  /\ bo[b].kind = "own" /\ Bucket(b) # None => bo[b].size = Bucket(b)[1]
  /\ Held(b) /\ bo[b].kind = "own" =>
       bo[b].size >= app[b].size /\ (SparseKernel => bo[b].sparse = app[b].sparse)
SizeOfCall(t) ==
  /\ pc[t] \in {"creating", "retrying"} \cup FlushSteps => Fitting(want[t])
  /\ pc[t] = "registering" => /\ bo[arg[t]].size >= want[t].size
                              /\ bo[arg[t]].sparse = want[t].sparse
  /\ want[t].maps = 0
SizeInv == (\A b \in Bos : SizeOfBo(b)) /\ (\A t \in Threads : SizeOfCall(t))

\* Nothing runs beside a create that empties the caches, and no name is opened twice.
Ruled == "unlocked_flush" \notin Admits /\ "reopen" \notin Admits

\* One call at a time empties the caches.
FlushInv == \A t, u \in Threads : pc[t] \in FlushSteps /\ pc[u] \in FlushSteps => t = u

IInv ==
  /\ TypeInv /\ PlaceInv /\ ListInv /\ CallInv /\ RefInv /\ MmapInv /\ TablesAreExact
  /\ SizeInv /\ FlushInv

-----------------------------------------------------------------------------
(* Lists. A list without repetition is as long as its set is large.        *)

Less == {pair \in Nat \X Nat : pair[1] < pair[2]}

LEMMA Least ==
  ASSUME NEW T \in SUBSET Nat, T # {}
  PROVE  \E x \in T : \A y \in T : x <= y
<1>1. IsWellFoundedOn(Less, Nat)  BY NatLessThanWellFounded, Zenon DEF OpToRel, Less
<1>2. PICK x \in T : \A y \in T : ~(<<y, x>> \in Less)  BY <1>1, WFMin
<1>3. \A y \in T : ~(y < x)  BY <1>2 DEF Less
<1> QED  BY <1>3

LEMMA MinIn ==
  ASSUME NEW T \in SUBSET Nat, T # {}
  PROVE  Min(T) \in T /\ \A y \in T : Min(T) <= y
<1>1. \E x \in T : \A y \in T : x <= y  BY Least
<1> QED  BY <1>1, Zenon DEF Min

LEMMA EmptyList == ToSet(<<>>) = {} /\ IsInjective(<<>>)
<1>1. DOMAIN <<>> = {}  OBVIOUS
<1> QED  BY <1>1 DEF ToSet, IsInjective

LEMMA ListIs ==
  ASSUME NEW T, NEW s \in Seq(T)
  PROVE  /\ Len(s) \in Nat /\ DOMAIN s = 1..Len(s) /\ s \in [1..Len(s) -> T]
         /\ ToSet(s) = {s[i] : i \in 1..Len(s)} /\ ToSet(s) \subseteq T
         /\ IsInjective(s) <=> \A i, j \in 1..Len(s) : s[i] = s[j] => i = j
  BY LenProperties DEF ToSet, IsInjective

LEMMA ListLength ==
  ASSUME NEW T, NEW s \in Seq(T), IsInjective(s)
  PROVE  IsFiniteSet(ToSet(s)) /\ Cardinality(ToSet(s)) = Len(s)
<1>1. Len(s) \in Nat /\ s \in [1..Len(s) -> ToSet(s)]  BY ListIs
<1>2. s \in Injection(1..Len(s), ToSet(s))
  BY <1>1 DEF Injection
<1>3. \A x \in ToSet(s) : \E i \in 1..Len(s) : s[i] = x  BY ListIs
<1>4. s \in Surjection(1..Len(s), ToSet(s))  BY <1>1, <1>3 DEF Surjection
<1>5. ExistsBijection(1..Len(s), ToSet(s))
  BY <1>2, <1>4 DEF ExistsBijection, Bijection
<1>6. IsFiniteSet(1..Len(s)) /\ Cardinality(1..Len(s)) = Len(s)
  <2>1. 1 \in Int /\ Len(s) \in Int  BY <1>1
  <2>2. /\ IsFiniteSet(1..Len(s))
        /\ Cardinality(1..Len(s)) = IF 1 > Len(s) THEN 0 ELSE Len(s) - 1 + 1
    BY <2>1, FS_Interval
  <2> QED  BY <1>1, <2>2
<1> QED  BY <1>5, <1>6, FS_Bijection

LEMMA AppendIs ==
  ASSUME NEW T, NEW s \in Seq(T), NEW x \in T, IsInjective(s), x \notin ToSet(s)
  PROVE  /\ Append(s, x) \in Seq(T) /\ IsInjective(Append(s, x))
         /\ ToSet(Append(s, x)) = ToSet(s) \cup {x} /\ Len(Append(s, x)) = Len(s) + 1
<1> DEFINE t == Append(s, x)
           n == Len(s)
<1>1. /\ t \in Seq(T) /\ Len(t) = n + 1 /\ t[n + 1] = x
      /\ \A i \in 1..n : t[i] = s[i]
  BY AppendProperties
<1>2. n \in Nat /\ ToSet(s) = {s[i] : i \in 1..n}
      /\ \A i, j \in 1..n : s[i] = s[j] => i = j
  BY ListIs
<1> HIDE DEF t, n
<1>3. ToSet(t) = {t[i] : i \in 1..n + 1}  BY <1>1, ListIs
<1>4. 1..n + 1 = (1..n) \cup {n + 1}  BY <1>2
<1>5. ToSet(t) = ToSet(s) \cup {x}  BY <1>1, <1>2, <1>3, <1>4
<1>6. \A i, j \in 1..n + 1 : t[i] = t[j] => i = j
  <2>1. \A i \in 1..n : s[i] # x  BY <1>2
  <2> QED  BY <1>1, <1>2, <1>4, <2>1
<1>7. IsInjective(t)  BY <1>1, <1>6, ListIs
<1> QED  BY <1>1, <1>5, <1>7 DEF t, n

LEMMA DropIs ==
  ASSUME NEW T, NEW s \in Seq(T), IsInjective(s), NEW n \in 0..Len(s)
  PROVE  /\ SubSeq(s, n + 1, Len(s)) \in Seq(T) /\ IsInjective(SubSeq(s, n + 1, Len(s)))
         /\ ToSet(SubSeq(s, n + 1, Len(s))) = ToSet(s) \ {s[i] : i \in 1..n}
         /\ Len(SubSeq(s, n + 1, Len(s))) = Len(s) - n
<1> DEFINE t == SubSeq(s, n + 1, Len(s))
           m == Len(s)
<1>1. /\ m \in Nat /\ n \in Nat /\ n <= m /\ ToSet(s) = {s[i] : i \in 1..m}
      /\ \A i, j \in 1..m : s[i] = s[j] => i = j
      /\ \A i \in 1..m : s[i] \in T
  BY ListIs
<1>2. /\ t \in Seq(T) /\ Len(t) = m - n
      /\ \A i \in 1..m - n : t[i] = s[n + i]
  <2>1. \A i \in n + 1 .. m : s[i] \in T  BY <1>1
  <2>2. /\ t \in Seq(T) /\ Len(t) = IF n + 1 <= m THEN m - (n + 1) + 1 ELSE 0
        /\ \A i \in 1 .. m - (n + 1) + 1 : t[i] = s[n + 1 + i - 1]
    BY <1>1, <2>1, SubSeqProperties
  <2> HIDE DEF t, m
  <2> QED  BY <1>1, <2>2
<1> HIDE DEF t, m
<1>3. ToSet(t) = {t[i] : i \in 1..m - n}  BY <1>2, ListIs
<1>4. \A x \in ToSet(t) : x \in ToSet(s) /\ x \notin {s[i] : i \in 1..n}
  <2> TAKE x \in ToSet(t)
  <2>1. PICK i \in 1..m - n : x = s[n + i]  BY <1>2, <1>3
  <2>2. n + i \in 1..m /\ n + i \notin 1..n  BY <1>1, <2>1
  <2>3. \A j \in 1..n : j \in 1..m /\ s[j] # x  BY <1>1, <2>1, <2>2
  <2> QED  BY <1>1, <2>1, <2>2, <2>3
<1>5. \A x \in ToSet(s) : x \notin {s[i] : i \in 1..n} => x \in ToSet(t)
  <2> SUFFICES ASSUME NEW j \in 1..m, s[j] \notin {s[i] : i \in 1..n} PROVE s[j] \in ToSet(t)
    BY <1>1
  <2>1. j \notin 1..n  OBVIOUS
  <2>2. j - n \in 1..m - n /\ n + (j - n) = j  BY <1>1, <2>1
  <2>3. t[j - n] = s[j]  BY <1>2, <2>2
  <2> QED  BY <1>3, <2>2, <2>3
<1>6. IsInjective(t)
  <2>1. \A i, j \in 1..m - n : t[i] = t[j] => i = j
    <3> SUFFICES ASSUME NEW i \in 1..m - n, NEW j \in 1..m - n, t[i] = t[j] PROVE i = j
      OBVIOUS
    <3>1. n + i \in 1..m /\ n + j \in 1..m /\ s[n + i] = s[n + j]  BY <1>1, <1>2
    <3>2. n + i = n + j  BY <1>1, <3>1
    <3> QED  BY <1>1, <3>2
  <2> QED  BY <1>2, <2>1, ListIs
<1>7. ToSet(t) = ToSet(s) \ {s[i] : i \in 1..n}  BY <1>4, <1>5
<1> QED  BY <1>2, <1>6, <1>7 DEF t, m

LEMMA TailIs ==
  ASSUME NEW T, NEW s \in Seq(T), IsInjective(s), s # <<>>
  PROVE  /\ Tail(s) \in Seq(T) /\ IsInjective(Tail(s)) /\ Head(s) \in ToSet(s)
         /\ ToSet(Tail(s)) = ToSet(s) \ {Head(s)} /\ Len(Tail(s)) = Len(s) - 1
<1>1. Len(s) \in Nat \ {0}  BY EmptySeq
<1>2. Tail(s) = SubSeq(s, 1 + 1, Len(s))
  <2>1. Tail(s) = SubSeq(s, 2, Len(s))  BY TailIsSubSeq
  <2> QED  BY <2>1
<1>3. 1 \in 0..Len(s) /\ 1 \in 1..Len(s)  BY <1>1
<1>4. Head(s) = s[1] /\ {s[i] : i \in 1..1} = {Head(s)}  OBVIOUS
<1>5. Head(s) \in ToSet(s)  BY <1>3, <1>4, ListIs
<1>6. /\ SubSeq(s, 1 + 1, Len(s)) \in Seq(T) /\ IsInjective(SubSeq(s, 1 + 1, Len(s)))
      /\ ToSet(SubSeq(s, 1 + 1, Len(s))) = ToSet(s) \ {s[i] : i \in 1..1}
      /\ Len(SubSeq(s, 1 + 1, Len(s))) = Len(s) - 1
  BY <1>3, DropIs
<1> QED  BY <1>2, <1>4, <1>5, <1>6

\* What is kept of a list, position by position.
Kept(f, s, S, n) ==
  \A i \in 0..n : f[i] = IF i = 0 THEN <<>>
                         ELSE IF s[i] \in S THEN f[i - 1] ELSE Append(f[i - 1], s[i])
HasKept(T, s, S, n) == \E f \in [0..n -> Seq(T)] : Kept(f, s, S, n)

LEMMA KeptExists ==
  ASSUME NEW T, NEW s \in Seq(T), NEW S, NEW n \in 0..Len(s)
  PROVE  HasKept(T, s, S, n)
<1> DEFINE Bad == {k \in Nat : k <= Len(s) /\ ~HasKept(T, s, S, k)}
<1> SUFFICES ASSUME ~HasKept(T, s, S, n) PROVE FALSE  OBVIOUS
<1>1. Len(s) \in Nat /\ \A i \in 1..Len(s) : s[i] \in T  BY ListIs
<1>2. PICK k \in Bad : \A j \in Bad : k <= j
  <2>1. Bad \in SUBSET Nat /\ n \in Bad  BY <1>1
  <2> HIDE DEF Bad
  <2> QED  BY <2>1, Least
<1>3. k \in Nat /\ k <= Len(s) /\ ~HasKept(T, s, S, k)  BY <1>2
<1>4. k # 0
  <2>1. [i \in 0..0 |-> <<>>] \in [0..0 -> Seq(T)]  BY EmptySeq
  <2>2. Kept([i \in 0..0 |-> <<>>], s, S, 0)  BY DEF Kept
  <2>3. HasKept(T, s, S, 0)  BY <2>1, <2>2, Zenon DEF HasKept
  <2> QED  BY <1>3, <2>3
<1>5. k - 1 \in Nat /\ ~(k <= k - 1) /\ k - 1 <= Len(s)  BY <1>1, <1>3, <1>4
<1>6. HasKept(T, s, S, k - 1)
  <2>1. k - 1 \notin Bad  BY <1>2, <1>5
  <2> QED  BY <2>1, <1>5
<1>7. PICK f \in [0..k - 1 -> Seq(T)] : Kept(f, s, S, k - 1)  BY <1>6 DEF HasKept
<1> DEFINE last == IF s[k] \in S THEN f[k - 1] ELSE Append(f[k - 1], s[k])
           g == [i \in 0..k |-> IF i = k THEN last ELSE f[i]]
<1>8. last \in Seq(T)
  <2>1. f[k - 1] \in Seq(T)  BY <1>5
  <2>2. s[k] \in T  BY <1>1, <1>3, <1>4
  <2> QED  BY <2>1, <2>2, AppendProperties
<1>9. g \in [0..k -> Seq(T)]
  <2>1. \A i \in 0..k : i # k => i \in 0..k - 1  BY <1>3
  <2> HIDE DEF last
  <2> QED  BY <2>1, <1>8
<1>10. Kept(g, s, S, k)
  <2> SUFFICES ASSUME NEW i \in 0..k
               PROVE  g[i] = IF i = 0 THEN <<>>
                             ELSE IF s[i] \in S THEN g[i - 1] ELSE Append(g[i - 1], s[i])
    BY DEF Kept
  <2>1. k - 1 \in 0..k /\ k - 1 # k  BY <1>3, <1>4
  <2>2. CASE i = k
    <3>1. g[i] = last /\ g[k - 1] = f[k - 1]  BY <2>1, <2>2
    <3> HIDE DEF g
    <3> QED  BY <1>4, <2>2, <3>1
  <2>3. CASE i # k
    <3>1. i \in 0..k - 1 /\ g[i] = f[i]  BY <2>3, <1>3
    <3>2. i # 0 => i - 1 \in 0..k /\ i - 1 # k  BY <1>3, <3>1
    <3>3. i # 0 => g[i - 1] = f[i - 1]  BY <3>2
    <3>4. f[i] = IF i = 0 THEN <<>>
                 ELSE IF s[i] \in S THEN f[i - 1] ELSE Append(f[i - 1], s[i])
      BY <1>7, <3>1 DEF Kept
    <3> HIDE DEF g
    <3> QED  BY <3>1, <3>3, <3>4
  <2> QED  BY <2>2, <2>3
<1> HIDE DEF g
<1> QED  BY <1>3, <1>9, <1>10 DEF HasKept

LEMMA WithoutKeeps ==
  ASSUME NEW T, NEW s \in Seq(T), NEW S
  PROVE  \E f : Kept(f, s, S, Len(s)) /\ Without(s, S) = f[Len(s)]
<1> DEFINE F(f) == [i \in 0..Len(s) |->
                     IF i = 0 THEN <<>>
                     ELSE IF s[i] \in S THEN f[i - 1] ELSE Append(f[i - 1], s[i])]
           kept == CHOOSE f : f = F(f)
<1>1. Len(s) \in 0..Len(s)
  <2>1. Len(s) \in Nat  BY ListIs
  <2> QED  BY <2>1
<1>2. PICK f \in [0..Len(s) -> Seq(T)] : Kept(f, s, S, Len(s))
  BY <1>1, KeptExists DEF HasKept
<1>3. f = F(f)
  <2>1. \A i \in 0..Len(s) : f[i] = F(f)[i]  BY <1>2 DEF Kept
  <2> QED  BY <2>1, <1>2
<1>4. kept = F(kept)  BY <1>3, Zenon
<1>5. Kept(kept, s, S, Len(s))
  <2> HIDE DEF kept
  <2> QED  BY <1>4 DEF Kept
<1>6. Without(s, S) = kept[Len(s)]  BY Zenon DEF Without
<1> HIDE DEF kept
<1> QED  BY <1>5, <1>6

\* A list without the elements of S.
KeptUpTo(T, s, S, i, t) ==
  /\ t \in Seq(T) /\ IsInjective(t) /\ ToSet(t) = {s[j] : j \in 1..i} \ S

LEMMA WithoutIs ==
  ASSUME NEW T, NEW s \in Seq(T), IsInjective(s), NEW S
  PROVE  /\ Without(s, S) \in Seq(T) /\ IsInjective(Without(s, S))
         /\ ToSet(Without(s, S)) = ToSet(s) \ S
<1>1. PICK f : Kept(f, s, S, Len(s)) /\ Without(s, S) = f[Len(s)]  BY WithoutKeeps
<1> DEFINE n == Len(s)
           Good(i) == KeptUpTo(T, s, S, i, f[i])
           Bad == {i \in Nat : i <= n /\ ~Good(i)}
<1>2. /\ n \in Nat /\ ToSet(s) = {s[i] : i \in 1..n}
      /\ \A i, j \in 1..n : s[i] = s[j] => i = j
      /\ \A i \in 1..n : s[i] \in T
  BY ListIs
<1> HIDE DEF n
<1>3. Bad = {}
  <2> SUFFICES ASSUME Bad # {} PROVE FALSE  OBVIOUS
  <2>1. PICK k \in Bad : \A j \in Bad : k <= j
    <3>1. Bad \in SUBSET Nat  OBVIOUS
    <3> HIDE DEF Bad
    <3> QED  BY <3>1, Least
  <2>2. k \in Nat /\ k <= n /\ ~Good(k)  BY <2>1
  <2>3. \A i \in 0..n : f[i] = IF i = 0 THEN <<>>
                               ELSE IF s[i] \in S THEN f[i - 1] ELSE Append(f[i - 1], s[i])
    BY <1>1 DEF Kept, n
  <2>4. k # 0
    <3> SUFFICES ASSUME k = 0 PROVE FALSE  OBVIOUS
    <3>1. f[0] = <<>>  BY <1>2, <2>3
    <3>2. {s[j] : j \in 1..0} = {}  OBVIOUS
    <3>3. KeptUpTo(T, s, S, 0, f[0])  BY <3>1, <3>2, EmptyList, EmptySeq DEF KeptUpTo
    <3> QED  BY <2>2, <3>3
  <2>5. k - 1 \in Nat /\ ~(k <= k - 1) /\ k - 1 <= n  BY <1>2, <2>2, <2>4
  <2>6. Good(k - 1)
    <3>1. k - 1 \notin Bad  BY <2>1, <2>5
    <3> QED  BY <3>1, <2>5
  <2> DEFINE t == f[k - 1]
             before == {s[j] : j \in 1..k - 1}
  <2>7. t \in Seq(T) /\ IsInjective(t) /\ ToSet(t) = before \ S  BY <2>6 DEF KeptUpTo
  <2>8. k \in 1..n /\ s[k] \in T  BY <1>2, <2>2, <2>4
  <2>9. {s[j] : j \in 1..k} = before \cup {s[k]}
    <3>1. 1..k = (1..k - 1) \cup {k}  BY <2>2, <2>4
    <3> QED  BY <3>1
  <2>10. s[k] \notin before
    <3>1. \A j \in 1..k - 1 : j \in 1..n /\ j # k  BY <1>2, <2>2, <2>4
    <3> QED  BY <1>2, <2>8, <3>1
  <2>11. f[k] = IF s[k] \in S THEN t ELSE Append(t, s[k])
    <3>1. k \in 0..n  BY <1>2, <2>2
    <3> QED  BY <2>3, <2>4, <3>1
  <2> HIDE DEF t, before
  <2>12. CASE s[k] \in S
    <3>1. f[k] = t /\ (before \cup {s[k]}) \ S = before \ S  BY <2>11, <2>12
    <3>2. KeptUpTo(T, s, S, k, f[k])  BY <2>7, <2>9, <3>1 DEF KeptUpTo
    <3> QED  BY <2>2, <3>2
  <2>13. CASE s[k] \notin S
    <3>1. f[k] = Append(t, s[k])  BY <2>11, <2>13
    <3>2. s[k] \notin ToSet(t)  BY <2>7, <2>10
    <3>3. /\ f[k] \in Seq(T) /\ IsInjective(f[k])
          /\ ToSet(f[k]) = (before \ S) \cup {s[k]}
      BY <2>7, <2>8, <3>1, <3>2, AppendIs
    <3>4. (before \cup {s[k]}) \ S = (before \ S) \cup {s[k]}  BY <2>13
    <3>5. KeptUpTo(T, s, S, k, f[k])  BY <2>9, <3>3, <3>4 DEF KeptUpTo
    <3> QED  BY <2>2, <3>5
  <2> QED  BY <2>12, <2>13
<1>4. Good(n)
  <2>1. n \notin Bad  BY <1>3
  <2> QED  BY <1>2, <2>1
<1> QED  BY <1>1, <1>2, <1>4 DEF KeptUpTo, n

LEMMA WithoutOne ==
  ASSUME NEW T, NEW s \in Seq(T), IsInjective(s), NEW x \in ToSet(s)
  PROVE  Len(Without(s, {x})) = Len(s) - 1
<1> DEFINE t == Without(s, {x})
<1>1. t \in Seq(T) /\ IsInjective(t) /\ ToSet(t) = ToSet(s) \ {x}  BY WithoutIs
<1> HIDE DEF t
<1>2. Cardinality(ToSet(t)) = Len(t) /\ Cardinality(ToSet(s)) = Len(s) /\ IsFiniteSet(ToSet(s))
  BY <1>1, ListLength
<1>3. Cardinality(ToSet(s) \ {x}) = Cardinality(ToSet(s)) - 1  BY <1>2, FS_RemoveElement
<1> QED  BY <1>1, <1>2, <1>3 DEF t

-----------------------------------------------------------------------------
(* Buckets.                                                                *)

LEMMA Constants ==
  /\ IsFiniteSet(Threads) /\ IsFiniteSet(Bos)
  /\ MaxRefs \in Nat /\ MaxRefs > 0 /\ ServerSize \in Nat /\ Old \in Nat
  /\ SparseKernel \in BOOLEAN /\ CacheSizes \subseteq Nat \ {0}
  /\ Requests \subseteq [size : Nat \ {0}, sparse : BOOLEAN]
  /\ None \notin Bos /\ None \notin Names
  BY BoCacheAssumption

\* A bucket is of the smallest size that is large enough, and sparse if that is wanted.
LEMMA BucketIs ==
  ASSUME NEW size \in Nat, NEW sparse \in BOOLEAN
  PROVE  \/ /\ BucketOf(size, sparse) = None /\ \A s \in CacheSizes : ~(s >= size)
         \/ /\ BucketOf(size, sparse) \in Buckets
            /\ BucketOf(size, sparse)[1] >= size
            /\ BucketOf(size, sparse)[1] \in CacheSizes
            /\ BucketOf(size, sparse)[2] <=> (sparse /\ SparseKernel)
            /\ \A s \in CacheSizes : s >= size => BucketOf(size, sparse)[1] <= s
<1> DEFINE fit == {s \in CacheSizes : s >= size}
           kind == sparse /\ SparseKernel
<1>1. BucketOf(size, sparse) = IF fit = {} THEN None ELSE <<Min(fit), kind>>
  BY Zenon DEF BucketOf
<1>2. kind \in BOOLEAN  OBVIOUS
<1>3. fit \in SUBSET Nat  BY Constants
<1> HIDE DEF kind
<1>4. CASE fit = {}  BY <1>1, <1>4
<1>5. CASE fit # {}
  <2>1. Min(fit) \in fit /\ \A y \in fit : Min(fit) <= y  BY <1>3, <1>5, MinIn
  <2> DEFINE m == Min(fit)
  <2> HIDE DEF m
  <2>2. m \in CacheSizes /\ m >= size /\ \A s \in CacheSizes : s >= size => m <= s
    BY <2>1 DEF m
  <2>3. BucketOf(size, sparse) = <<m, kind>>  BY <1>1, <1>5 DEF m
  <2>4. BucketOf(size, sparse)[1] = m /\ BucketOf(size, sparse)[2] = kind  BY <2>3
  <2>5. BucketOf(size, sparse) \in Buckets  BY <1>2, <2>2, <2>3 DEF Buckets
  <2>6. kind <=> (sparse /\ SparseKernel)  BY Zenon DEF kind
  <2> QED  BY <2>2, <2>4, <2>5, <2>6
<1> QED  BY <1>4, <1>5

\* The size of a bucket is in that bucket.
LEMMA BucketOfBucket ==
  ASSUME NEW size \in Nat, NEW sparse \in BOOLEAN, BucketOf(size, sparse) # None
  PROVE  BucketOf(BucketOf(size, sparse)[1], sparse) = BucketOf(size, sparse)
<1> DEFINE m == BucketOf(size, sparse)[1]
<1>1. m \in CacheSizes /\ m \in Nat  BY BucketIs, Constants
<1> HIDE DEF m
<1>2. /\ BucketOf(m, sparse) \in Buckets /\ BucketOf(m, sparse)[1] >= m
      /\ BucketOf(m, sparse)[1] <= m
      /\ BucketOf(m, sparse)[2] <=> (sparse /\ SparseKernel)
  BY <1>1, BucketIs
<1>3. /\ BucketOf(size, sparse) \in Buckets /\ BucketOf(size, sparse)[1] = m
      /\ BucketOf(size, sparse)[2] <=> (sparse /\ SparseKernel)
  BY BucketIs DEF m
<1>4. \A x, y \in Buckets : x[1] = y[1] /\ (x[2] <=> y[2]) => x = y  BY DEF Buckets
<1>5. BucketOf(m, sparse)[1] = m
  <2>1. BucketOf(m, sparse)[1] \in Nat  BY <1>2, Constants DEF Buckets
  <2> QED  BY <1>1, <1>2, <2>1
<1> QED  BY <1>2, <1>3, <1>4, <1>5 DEF m

LEMMA BucketOfBo ==
  ASSUME TypeInv, NEW b \in Bos
  PROVE  Bucket(b) = None \/ Bucket(b) \in Buckets
<1>1. bo[b].size \in Nat /\ bo[b].sparse \in BOOLEAN  BY DEF TypeInv, DataTypes, CallTypes, Objects
<1> QED  BY <1>1, BucketIs DEF Bucket

-----------------------------------------------------------------------------
(* What a step leaves alone. Every step is a change of a few buffers; of the *)
(* others only the ages, and whether their mapping is still in the cache.   *)

SameIdentity(b) ==
  /\ bo'[b].kind = bo[b].kind /\ bo'[b].size = bo[b].size /\ bo'[b].sparse = bo[b].sparse
  /\ bo'[b].reuse = bo[b].reuse /\ bo'[b].name = bo[b].name
SameUse(b) ==
  /\ bo'[b].ref = bo[b].ref /\ bo'[b].mmapRef = bo[b].mmapRef
  /\ bo'[b].map = "mapped" <=> bo[b].map = "mapped"
FreeStays(b) == bo[b].kind = "free" => bo'[b] = bo[b]
SameBo(b) == SameIdentity(b) /\ SameUse(b) /\ FreeStays(b)
SameCall(t) == pc'[t] = pc[t] /\ arg'[t] = arg[t]

LEMMA SameBucket ==
  ASSUME NEW b \in Bos, bo'[b].size = bo[b].size, bo'[b].sparse = bo[b].sparse
  PROVE  Bucket(b)' = Bucket(b)
  BY DEF Bucket

LEMMA SameLists ==
  ASSUME UNCHANGED list, NEW b
  PROVE  Listed(b)' <=> Listed(b)
  BY DEF Listed

LEMMA ListedIs ==
  ASSUME TypeInv, NEW b
  PROVE  Listed(b) <=> \E k \in Buckets : b \in ToSet(list[k])
  BY DEF Listed, ToSet

LEMMA PlaceKept ==
  ASSUME NEW b \in Bos, PlaceOf(b), FreeStays(b), bo'[b].kind = bo[b].kind,
         Held(b)' <=> Held(b), Listed(b)' <=> Listed(b),
         \A t \in Threads : Passes(t, b)' <=> Passes(t, b),
         \A t \in Threads : arg'[t] = b => arg[t] = b \/ Held(b) \/ Listed(b)
  PROVE  PlaceOf(b)'
  BY DEF PlaceOf, FreeStays

LEMMA ListKept ==
  ASSUME TypeInv, ListInv, UNCHANGED <<list, entries>>,
         \A b \in Bos : Listed(b) => SameIdentity(b) /\ bo'[b].ref = bo[b].ref
  PROVE  ListInv'
<1>1. \A k \in Buckets : \A b \in ToSet(list[k]) : b \in Bos /\ Listed(b)
  <2>1. \A k \in Buckets : ToSet(list[k]) \subseteq Bos  BY ListIs DEF TypeInv, DataTypes, CallTypes
  <2> QED  BY <2>1, ListedIs
<1>2. \A k \in Buckets : \A b \in ToSet(list[k]) :
        bo'[b].kind = "own" /\ Bucket(b)' = k /\ bo'[b].ref = 0
  <2>1. \A b \in Bos : Listed(b) => Bucket(b)' = Bucket(b)  BY SameBucket DEF SameIdentity
  <2> QED  BY <1>1, <2>1 DEF ListInv, SameIdentity
<1> QED  BY <1>2 DEF ListInv

LEMMA CallKept ==
  ASSUME TypeInv, NEW t \in Threads, CallOf(t), SameCall(t),
         \A b \in Bos : Passes(t, b) =>
           /\ bo'[b].kind = bo[b].kind /\ bo'[b].ref = bo[b].ref
           /\ bo'[b].map = "mapped" <=> bo[b].map = "mapped"
           /\ bo'[b].mmapRef = bo[b].mmapRef,
         pc[t] = "naming" => Held(arg[t])', pc[t] = "flush_free" => Listed(arg[t])'
  PROVE  CallOf(t)'
<1>1. arg[t] \in Bos \cup {None}  BY DEF TypeInv, DataTypes, CallTypes
<1>2. (Held(arg[t]))' <=> app'[arg'[t]].refs > 0  BY DEF Held
<1>3. (Listed(arg[t]))' <=> \E k \in Buckets : \E i \in DOMAIN list'[k] : list'[k][i] = arg'[t]
  BY DEF Listed
<1> QED  BY <1>1 DEF CallOf, SameCall, Passes, Held, Listed

LEMMA RefKept ==
  ASSUME NEW b \in Bos, RefOf(b), SameIdentity(b), SameUse(b),
         app'[b].refs = app[b].refs, app'[b].maps = app[b].maps
  PROVE  RefOf(b)'
  BY DEF RefOf, SameIdentity, SameUse, Held

LEMMA SizeKept ==
  ASSUME NEW b \in Bos, SizeOfBo(b), SameIdentity(b),
         Held(b)' <=> Held(b), app'[b].size = app[b].size, app'[b].sparse = app[b].sparse
  PROVE  SizeOfBo(b)'
<1>1. Bucket(b)' = Bucket(b)  BY SameBucket DEF SameIdentity
<1> QED  BY <1>1 DEF SizeOfBo, SameIdentity

LEMMA SizeCallKept ==
  ASSUME NEW t \in Threads, SizeOfCall(t), SameCall(t), want'[t] = want[t],
         pc[t] = "registering" => SameIdentity(arg[t])
  PROVE  SizeOfCall(t)'
  BY DEF SizeOfCall, SameIdentity, SameCall, Fitting, FlushSteps

LEMMA TablesKept ==
  ASSUME TablesAreExact, UNCHANGED <<handleTable, nameTable>>, handleTable \subseteq Bos,
         \A b \in Bos : bo'[b].kind = bo[b].kind /\ bo'[b].name = bo[b].name,
         \A t \in Threads : pc[t] = "registering" => SameCall(t)
  PROVE  TablesAreExact'
<1>1. \A b \in Bos : bo'[b].kind = bo[b].kind /\ bo'[b].name = bo[b].name  OBVIOUS
<1>2. \A b \in handleTable : bo'[b].kind = "own"  BY <1>1 DEF TablesAreExact
<1>3. \A b \in Bos : bo'[b].kind = "own" =>
        b \in handleTable' \/ \E t \in Threads : pc'[t] = "registering" /\ arg'[t] = b
  BY <1>1 DEF TablesAreExact, SameCall
<1>4. \A n \in Names, b \in Bos : nameTable'[n] = b <=> bo'[b].name = n
  BY <1>1 DEF TablesAreExact
<1> QED  BY <1>2, <1>3, <1>4 DEF TablesAreExact

LEMMA MappingsKept ==
  ASSUME MmapInv, UNCHANGED <<mmapList, mmaps>>,
         \A b \in Bos : bo'[b].map = "cached" <=> bo[b].map = "cached",
         \A b \in Bos : InMmapCache(b) => bo'[b].size = bo[b].size /\ bo'[b].sparse = bo[b].sparse
  PROVE  MmapInv'
<1>1. \A b \in Bos : InMmapCache(b)' <=> InMmapCache(b)  BY DEF InMmapCache
<1>2. \A k \in Buckets : MappingsOf(k)' = MappingsOf(k)
  <2> TAKE k \in Buckets
  <2>1. \A b \in Bos : InMmapCache(b) => Bucket(b)' = Bucket(b)  BY SameBucket
  <2>2. MappingsOf(k)' = {b \in Bos : InMmapCache(b)' /\ Bucket(b)' = k}  BY DEF MappingsOf
  <2>3. MappingsOf(k) = {b \in Bos : InMmapCache(b) /\ Bucket(b) = k}  BY DEF MappingsOf
  <2> QED  BY <1>1, <2>1, <2>2, <2>3
<1>3. \A k \in Buckets : mmaps'[k] = Cardinality(MappingsOf(k)')
  BY <1>2 DEF MmapInv
<1> QED  BY <1>1, <1>3 DEF MmapInv

-----------------------------------------------------------------------------
(* The step of a call, and what it means for the other calls.              *)

OnlyCall(t) ==
  \A u \in Threads \ {t} : SameCall(u) /\ want'[u] = want[u] /\ pc[u] \notin FlushSteps
OthersKept(t) ==
  \A u \in Threads \ {t} :
    /\ \A b \in Bos : Passes(u, b) => SameIdentity(b) /\ SameUse(b)
    /\ pc[u] = "naming" => Held(arg[u])'

LEMMA AtIs ==
  ASSUME Ruled, NEW t \in Threads, NEW step, At(t, step)
  PROVE  pc[t] = step /\ \A u \in Threads \ {t} : pc[u] \notin FlushSteps
  BY DEF At, Ruled

LEMMA CallIs ==
  ASSUME TypeInv, NEW t \in Threads, NEW step \in Steps, NEW b \in Bos \cup {None},
         Call(t, step, b)
  PROVE  /\ CallTypes' /\ pc'[t] = step /\ arg'[t] = b /\ want'[t] = want[t]
         /\ \A u \in Threads \ {t} : SameCall(u) /\ want'[u] = want[u]
<1>1. pc' = [pc EXCEPT ![t] = step] /\ arg' = [arg EXCEPT ![t] = b] /\ want' = want
  BY DEF Call, Goto
<1>2. /\ pc \in [Threads -> Steps] /\ arg \in [Threads -> Bos \cup {None}]
      /\ want \in [Threads -> Holds]
  BY DEF TypeInv, CallTypes
<1>3. pc' \in [Threads -> Steps] /\ arg' \in [Threads -> Bos \cup {None}]  BY <1>1, <1>2
<1>4. pc'[t] = step /\ arg'[t] = b  BY <1>1, <1>2
<1>5. \A u \in Threads \ {t} : pc'[u] = pc[u] /\ arg'[u] = arg[u]  BY <1>1, <1>2
<1> QED  BY <1>1, <1>2, <1>3, <1>4, <1>5 DEF CallTypes, SameCall

LEMMA ReturnIs ==
  ASSUME TypeInv, NEW t \in Threads, Return(t)
  PROVE  /\ CallTypes' /\ pc'[t] = "idle" /\ arg'[t] = None /\ want'[t] = Nobody
         /\ \A u \in Threads \ {t} : SameCall(u) /\ want'[u] = want[u]
<1>1. /\ pc' = [pc EXCEPT ![t] = "idle"] /\ arg' = [arg EXCEPT ![t] = None]
      /\ want' = [want EXCEPT ![t] = Nobody]
  BY DEF Return, Goto
<1>2. /\ pc \in [Threads -> Steps] /\ arg \in [Threads -> Bos \cup {None}]
      /\ want \in [Threads -> Holds] /\ "idle" \in Steps /\ Nobody \in Holds
  BY DEF TypeInv, CallTypes, Steps, Nobody, Holds
<1>3. /\ pc' \in [Threads -> Steps] /\ arg' \in [Threads -> Bos \cup {None}]
      /\ want' \in [Threads -> Holds]
  BY <1>1, <1>2
<1>4. pc'[t] = "idle" /\ arg'[t] = None /\ want'[t] = Nobody  BY <1>1, <1>2
<1>5. \A u \in Threads \ {t} : pc'[u] = pc[u] /\ arg'[u] = arg[u] /\ want'[u] = want[u]
  BY <1>1, <1>2
<1> QED  BY <1>3, <1>4, <1>5 DEF CallTypes, SameCall

LEMMA NoCall ==
  ASSUME TypeInv, UNCHANGED <<pc, arg, want>>
  PROVE  CallTypes' /\ \A u \in Threads : SameCall(u) /\ want'[u] = want[u]
  BY DEF TypeInv, CallTypes, SameCall

\* An idle call has nothing in its hands.
LEMMA IdleCall ==
  ASSUME IInv, NEW t \in Threads, pc'[t] = "idle", arg'[t] = None, want'[t].maps = 0
  PROVE  CallOf(t)' /\ SizeOfCall(t)'
  BY DEF CallOf, SizeOfCall, FlushSteps

LEMMA CallsKept ==
  ASSUME IInv, NEW t \in Threads, OnlyCall(t), OthersKept(t), CallOf(t)', SizeOfCall(t)'
  PROVE  CallInv' /\ (\A u \in Threads : SizeOfCall(u)') /\ FlushInv'
<1>1. \A u \in Threads \ {t} : CallOf(u)'
  <2> TAKE u \in Threads \ {t}
  <2>1. TypeInv /\ CallOf(u) /\ SameCall(u) /\ pc[u] # "flush_free"
    BY DEF IInv, CallInv, OnlyCall, FlushSteps
  <2>2. /\ \A b \in Bos : Passes(u, b) => SameIdentity(b) /\ SameUse(b)
        /\ pc[u] = "naming" => Held(arg[u])'
    BY DEF OthersKept
  <2>3. \A b \in Bos : Passes(u, b) =>
           /\ bo'[b].kind = bo[b].kind /\ bo'[b].ref = bo[b].ref
           /\ bo'[b].map = "mapped" <=> bo[b].map = "mapped"
           /\ bo'[b].mmapRef = bo[b].mmapRef
    BY <2>2 DEF SameIdentity, SameUse
  <2> QED  BY <2>1, <2>2, <2>3, CallKept
<1>2. \A u \in Threads \ {t} : SizeOfCall(u)'
  <2> TAKE u \in Threads \ {t}
  <2>1. SizeOfCall(u) /\ SameCall(u) /\ want'[u] = want[u]  BY DEF IInv, SizeInv, OnlyCall
  <2>2. pc[u] = "registering" => SameIdentity(arg[u])
    <3>1. pc[u] = "registering" => arg[u] \in Bos /\ Passes(u, arg[u])
      BY DEF IInv, TypeInv, CallTypes, CallInv, CallOf, Passes
    <3> QED  BY <3>1 DEF OthersKept
  <2> QED  BY <2>1, <2>2, SizeCallKept
<1>3. FlushInv'
  <2>1. \A u \in Threads \ {t} : pc'[u] \notin FlushSteps  BY DEF OnlyCall, SameCall
  <2> QED  BY <2>1 DEF FlushInv, FlushSteps
<1> QED  BY <1>1, <1>2, <1>3 DEF CallInv

\* A step that touches no buffer, no list and no table.
Still ==
  /\ UNCHANGED <<list, entries, mmapList, mmaps, handleTable, nameTable, app>>
  /\ \A b \in Bos : SameBo(b) /\ bo'[b].map = bo[b].map

LEMMA StillKeeps ==
  ASSUME IInv, Still,
         \A t \in Threads : pc[t] = "registering" => SameCall(t),
         \A b \in Bos, t \in Threads : Passes(t, b)' <=> Passes(t, b),
         \A b \in Bos, t \in Threads : arg'[t] = b => arg[t] = b \/ Held(b) \/ Listed(b)
  PROVE  /\ PlaceInv' /\ ListInv' /\ RefInv' /\ MmapInv' /\ TablesAreExact'
         /\ \A b \in Bos : SizeOfBo(b)'
<1>1. /\ list' = list /\ entries' = entries /\ mmapList' = mmapList /\ mmaps' = mmaps
      /\ handleTable' = handleTable /\ nameTable' = nameTable /\ app' = app
      /\ \A b \in Bos : SameIdentity(b) /\ SameUse(b) /\ FreeStays(b)
      /\ \A b \in Bos : bo'[b].map = bo[b].map
  BY DEF Still, SameBo
<1>2. /\ TypeInv /\ PlaceInv /\ ListInv /\ RefInv /\ MmapInv /\ TablesAreExact
      /\ handleTable \subseteq Bos /\ \A b \in Bos : SizeOfBo(b) /\ RefOf(b)
  BY DEF IInv, TypeInv, DataTypes, SizeInv, RefInv
<1>3. /\ \A b \in Bos : Held(b)' <=> Held(b)
      /\ \A b \in Bos : Listed(b)' <=> Listed(b)
  BY <1>1, SameLists DEF Held
<1>4. \A b \in Bos : bo'[b].kind = bo[b].kind /\ bo'[b].ref = bo[b].ref
                     /\ bo'[b].name = bo[b].name
  BY <1>1 DEF SameIdentity, SameUse
<1>5. PlaceInv'
  <2>1. \A b \in Bos : PlaceOf(b)  BY <1>2 DEF PlaceInv
  <2>2. \A b \in Bos : PlaceOf(b)'  BY <2>1, <1>1, <1>3, <1>4, PlaceKept
  <2> QED  BY <2>2 DEF PlaceInv
<1>6. ListInv'  BY <1>1, <1>2, <1>4, ListKept
<1>7. \A b \in Bos : RefOf(b)'  BY <1>1, <1>2, RefKept
<1>8. MmapInv'
  <2>1. \A b \in Bos : bo'[b].size = bo[b].size /\ bo'[b].sparse = bo[b].sparse
    BY <1>1 DEF SameIdentity
  <2> QED  BY <1>1, <1>2, <1>4, <2>1, MappingsKept
<1>9. TablesAreExact'  BY <1>1, <1>2, <1>4, TablesKept
<1>10. \A b \in Bos : SizeOfBo(b)'  BY <1>1, <1>2, <1>3, SizeKept
<1> QED  BY <1>5, <1>6, <1>7, <1>8, <1>9, <1>10 DEF RefInv

PassingSteps == {"registering", "releasing", "opened"}

LEMMA StillStep ==
  ASSUME IInv, TypeInv', Still, NEW t \in Threads, OnlyCall(t), CallOf(t)', SizeOfCall(t)',
         pc[t] \notin PassingSteps, pc'[t] \notin PassingSteps,
         arg'[t] = None \/ arg'[t] = arg[t] \/ Held(arg'[t]) \/ Listed(arg'[t])
  PROVE  IInv'
<1>1. \A u \in Threads : pc[u] = "registering" => SameCall(u)
  BY DEF OnlyCall, PassingSteps
<1>2. \A b \in Bos, u \in Threads : Passes(u, b)' <=> Passes(u, b)
  BY DEF OnlyCall, SameCall, Passes, PassingSteps
<1>3. \A b \in Bos, u \in Threads : arg'[u] = b => arg[u] = b \/ Held(b) \/ Listed(b)
  BY Constants DEF OnlyCall, SameCall
<1>4. OthersKept(t)
  <2>1. app' = app  BY DEF Still
  <2>2. \A u \in Threads \ {t} : arg'[u] = arg[u]  BY DEF OnlyCall, SameCall
  <2>3. \A u \in Threads \ {t} : pc[u] = "naming" => Held(arg[u])
    BY DEF IInv, CallInv, CallOf
  <2>4. \A u \in Threads \ {t} : Held(arg[u])' <=> Held(arg[u])  BY <2>1, <2>2 DEF Held
  <2>5. \A b \in Bos : SameIdentity(b) /\ SameUse(b)  BY DEF Still, SameBo
  <2> QED  BY <2>3, <2>4, <2>5 DEF OthersKept
<1>5. CallInv' /\ (\A u \in Threads : SizeOfCall(u)') /\ FlushInv'  BY <1>4, CallsKept
<1>6. /\ PlaceInv' /\ ListInv' /\ RefInv' /\ MmapInv' /\ TablesAreExact'
      /\ \A b \in Bos : SizeOfBo(b)'
  BY <1>1, <1>2, <1>3, StillKeeps
<1> QED  BY <1>5, <1>6 DEF IInv, SizeInv

LEMMA SameBos ==
  ASSUME UNCHANGED bo
  PROVE  \A b \in Bos : SameBo(b) /\ bo'[b].map = bo[b].map
  BY DEF SameBo, SameIdentity, SameUse, FreeStays

LEMMA NewMissKeeps ==
  ASSUME IInv, Ruled, NEW t \in Threads, NewMiss(t)
  PROVE  IInv'
<1>1. PICK r \in Requests :
        want' = [want EXCEPT ![t] = [refs |-> Rounded(r.size, BucketOf(r.size, r.sparse)), maps |-> 0,
                                     size |-> r.size, sparse |-> r.sparse]]
  BY DEF NewMiss
<1>2. At(t, "idle") /\ Goto(t, "creating")
      /\ UNCHANGED <<bo, cacheVars, mmapVars, tableVars, busy, app, arg>>
  BY DEF NewMiss
<1>3. pc[t] = "idle" /\ \A u \in Threads \ {t} : pc[u] \notin FlushSteps  BY <1>2, AtIs
<1>4. /\ TypeInv /\ CallOf(t) /\ arg[t] = None /\ pc \in [Threads -> Steps]
      /\ want \in [Threads -> Holds]
  BY <1>3 DEF IInv, CallInv, CallOf, TypeInv, CallTypes
<1> DEFINE k == BucketOf(r.size, r.sparse)
           w == [refs |-> Rounded(r.size, k), maps |-> 0, size |-> r.size, sparse |-> r.sparse]
<1>5. r.size \in Nat /\ r.sparse \in BOOLEAN  BY Constants
<1>6. w \in Holds /\ Fitting(w) /\ w.maps = 0
  <2>1. CASE k = None
    <3>1. Rounded(r.size, k) = r.size  BY <2>1 DEF Rounded
    <3> QED  BY <1>5, <2>1, <3>1 DEF Holds, Fitting
  <2>2. CASE k # None
    <3>1. k[1] \in Nat /\ k[1] >= r.size  BY <1>5, <2>2, BucketIs, Constants
    <3>2. BucketOf(k[1], r.sparse) = k  BY <1>5, <2>2, BucketOfBucket
    <3>3. Rounded(r.size, k) = k[1]  BY <2>2 DEF Rounded
    <3> HIDE DEF k
    <3> QED  BY <1>5, <3>1, <3>2, <3>3 DEF Holds, Fitting
  <2> QED  BY <2>1, <2>2
<1>7. want' = [want EXCEPT ![t] = w]  BY <1>1
<1> HIDE DEF w
<1>8. /\ pc' \in [Threads -> Steps] /\ want' \in [Threads -> Holds] /\ arg' = arg
      /\ pc'[t] = "creating" /\ want'[t] = w
      /\ \A u \in Threads \ {t} : pc'[u] = pc[u] /\ want'[u] = want[u]
  BY <1>2, <1>4, <1>6, <1>7 DEF Goto, Steps
<1>9. TypeInv'
  BY <1>2, <1>4, <1>8 DEF TypeInv, DataTypes, CallTypes, cacheVars, mmapVars, tableVars
<1>10. Still
  BY <1>2, SameBos DEF Still, cacheVars, mmapVars, tableVars
<1>11. OnlyCall(t)  BY <1>3, <1>8 DEF OnlyCall, SameCall
<1>12. CallOf(t)' /\ SizeOfCall(t)'
  BY <1>4, <1>6, <1>8 DEF CallOf, SizeOfCall, FlushSteps
<1>13. /\ pc[t] \notin PassingSteps /\ pc'[t] \notin PassingSteps
       /\ arg'[t] = None
  BY <1>3, <1>4, <1>8 DEF PassingSteps
<1> QED  BY <1>9, <1>10, <1>11, <1>12, <1>13, StillStep

\* The steps of a call that touch nothing else.
LEMMA CallStillKeeps ==
  ASSUME IInv, Ruled, NEW t \in Threads, NEW from, NEW step \in Steps, NEW b \in Bos \cup {None},
         At(t, from), from \notin PassingSteps, step \notin PassingSteps,
         b = None \/ Held(b) \/ Listed(b),
         step = "idle" => Return(t) /\ b = None,
         step # "idle" => Call(t, step, b),
         step = "naming" => b # None /\ Held(b), step = "flush_free" => b # None /\ Listed(b),
         step \notin {"naming", "flush_free"} => b = None,
         step \in {"retrying"} \cup FlushSteps => from \in {"creating"} \cup FlushSteps,
         step # "creating", DataTypes', Still
  PROVE  IInv'
<1>1. pc[t] = from /\ \A u \in Threads \ {t} : pc[u] \notin FlushSteps  BY AtIs
<1>2. TypeInv /\ CallOf(t) /\ SizeOfCall(t)  BY DEF IInv, CallInv, SizeInv
<1>3. /\ CallTypes' /\ pc'[t] = step /\ arg'[t] = b
      /\ \A u \in Threads \ {t} : SameCall(u) /\ want'[u] = want[u]
      /\ IF step = "idle" THEN want'[t] = Nobody ELSE want'[t] = want[t]
  BY <1>2, CallIs, ReturnIs
<1>4. OnlyCall(t)  BY <1>1, <1>3 DEF OnlyCall
<1>5. CallOf(t)'
  <2>1. list' = list /\ app' = app  BY DEF Still
  <2>2. Held(arg[t])' <=> app'[arg'[t]].refs > 0  BY DEF Held
  <2>3. Listed(arg[t])' <=> \E k \in Buckets : \E i \in DOMAIN list'[k] : list'[k][i] = arg'[t]
    BY DEF Listed
  <2> QED  BY <1>3, <2>1 DEF CallOf, PassingSteps, Held, Listed
<1>6. SizeOfCall(t)'
  <2>1. Nobody.maps = 0  BY DEF Nobody
  <2>2. step \in {"creating", "retrying"} \cup FlushSteps => Fitting(want[t])
    BY <1>1, <1>2 DEF SizeOfCall, FlushSteps
  <2>3. step \in {"creating", "retrying"} \cup FlushSteps => step # "idle"  BY DEF FlushSteps
  <2>4. step # "registering"  BY DEF PassingSteps
  <2> QED  BY <1>2, <1>3, <2>1, <2>2, <2>3, <2>4 DEF SizeOfCall, Fitting
<1>7. TypeInv'  BY <1>3 DEF TypeInv
<1> QED  BY <1>1, <1>3, <1>4, <1>5, <1>6, <1>7, StillStep

LEMMA CreateFailKeeps ==
  ASSUME IInv, Ruled, NEW t \in Threads, CreateFail(t)
  PROVE  IInv'
<1>1. UNCHANGED <<bo, cacheVars, mmapVars, tableVars, busy, app>>  BY DEF CreateFail
<1>2. DataTypes' /\ Still
  <2>1. DataTypes  BY DEF IInv, TypeInv
  <2>2. Still  BY <1>1, SameBos DEF Still, cacheVars, mmapVars, tableVars
  <2> QED  BY <1>1, <2>1, <2>2 DEF DataTypes, cacheVars, mmapVars, tableVars
<1>3. CASE At(t, "creating") /\ Call(t, IF cacheTime = "zero" THEN "retrying" ELSE "flushing", None)
  <2>1. PICK step \in {"retrying", "flushing"} : Call(t, step, None)  BY <1>3
  <2>2. step \in Steps /\ step \notin PassingSteps /\ "creating" \notin PassingSteps
    BY DEF Steps, PassingSteps, FlushSteps
  <2> QED  BY <1>2, <1>3, <2>1, <2>2, CallStillKeeps
<1>4. CASE At(t, "retrying") /\ Return(t)
  <2>1. "idle" \in Steps /\ "idle" \notin PassingSteps /\ "retrying" \notin PassingSteps
        /\ "idle" \notin {"retrying"} \cup FlushSteps
    BY DEF Steps, PassingSteps, FlushSteps
  <2> QED  BY <1>2, <1>4, <2>1, CallStillKeeps
<1> QED  BY <1>3, <1>4 DEF CreateFail

LEMMA HeadIsListed ==
  ASSUME TypeInv, ListInv, NEW k \in Buckets, list[k] # <<>>
  PROVE  Head(list[k]) \in Bos /\ Head(list[k]) \in ToSet(list[k]) /\ Listed(Head(list[k]))
<1>1. list[k] \in Seq(Bos) /\ IsInjective(list[k])  BY DEF TypeInv, DataTypes, ListInv
<1>2. Head(list[k]) \in ToSet(list[k])  BY <1>1, TailIs
<1>3. ToSet(list[k]) \subseteq Bos  BY <1>1, ListIs
<1> QED  BY <1>2, <1>3, ListedIs

LEMMA FlushTakeKeeps ==
  ASSUME IInv, Ruled, NEW t \in Threads, FlushTake(t)
  PROVE  IInv'
<1>1. UNCHANGED <<bo, cacheVars, mmapVars, tableVars, busy, app>> /\ At(t, "flushing")
  BY DEF FlushTake
<1>2. DataTypes' /\ Still
  <2>1. DataTypes  BY DEF IInv, TypeInv
  <2>2. Still  BY <1>1, SameBos DEF Still, cacheVars, mmapVars, tableVars
  <2> QED  BY <1>1, <2>1, <2>2 DEF DataTypes, cacheVars, mmapVars, tableVars
<1>3. PICK k \in Buckets : list[k] # <<>> /\ Call(t, "flush_free", Head(list[k]))
  BY DEF FlushTake
<1>4. Head(list[k]) \in Bos /\ Listed(Head(list[k]))  BY <1>3, HeadIsListed DEF IInv
<1>5. "flush_free" \in Steps /\ "flush_free" \notin PassingSteps /\ "flushing" \notin PassingSteps
      /\ "flushing" \in FlushSteps
  BY DEF Steps, PassingSteps, FlushSteps
<1>6. Head(list[k]) # None  BY <1>4, Constants
<1> QED  BY <1>1, <1>2, <1>3, <1>4, <1>5, <1>6, CallStillKeeps

LEMMA FlushEndKeeps ==
  ASSUME IInv, Ruled, NEW t \in Threads, FlushEnd(t)
  PROVE  IInv'
<1>1. /\ UNCHANGED <<bo, list, entries, mmapVars, tableVars, busy, app>> /\ At(t, "flushing")
      /\ cacheTime' = "zero" /\ Call(t, "retrying", None)
  BY DEF FlushEnd
<1>2. DataTypes' /\ Still
  <2>1. DataTypes  BY DEF IInv, TypeInv
  <2>2. Still  BY <1>1, SameBos DEF Still, mmapVars, tableVars
  <2> QED  BY <1>1, <2>1, <2>2 DEF DataTypes, mmapVars, tableVars
<1>3. "retrying" \in Steps /\ "retrying" \notin PassingSteps /\ "flushing" \notin PassingSteps
      /\ "flushing" \in FlushSteps /\ "retrying" # "flush_free"
  BY DEF Steps, PassingSteps, FlushSteps
<1> QED  BY <1>1, <1>2, <1>3, CallStillKeeps

LEMMA GetNameKeeps ==
  ASSUME IInv, Ruled, NEW t \in Threads, NEW b \in Bos, GetName(t, b)
  PROVE  IInv'
<1>1. /\ UNCHANGED <<bo, cacheVars, mmapVars, tableVars, busy, app>> /\ At(t, "idle")
      /\ Call(t, "naming", b) /\ Held(b)
  BY DEF GetName, Held
<1>2. DataTypes' /\ Still
  <2>1. DataTypes  BY DEF IInv, TypeInv
  <2>2. Still  BY <1>1, SameBos DEF Still, cacheVars, mmapVars, tableVars
  <2> QED  BY <1>1, <2>1, <2>2 DEF DataTypes, cacheVars, mmapVars, tableVars
<1>3. "naming" \in Steps /\ "naming" \notin PassingSteps /\ "idle" \notin PassingSteps
      /\ "naming" \notin {"retrying"} \cup FlushSteps
  BY DEF Steps, PassingSteps, FlushSteps
<1>4. b # None  BY Constants
<1> QED  BY <1>1, <1>2, <1>3, <1>4, CallStillKeeps

\* Steps of no thread: no call moves, no list and no reference changes.
LEMMA NoCallKeeps ==
  ASSUME IInv, DataTypes', Still, UNCHANGED <<pc, arg, want>>
  PROVE  IInv'
<1>1. TypeInv /\ CallTypes' /\ \A u \in Threads : SameCall(u) /\ want'[u] = want[u]
  BY NoCall DEF IInv
<1>2. /\ PlaceInv' /\ ListInv' /\ RefInv' /\ MmapInv' /\ TablesAreExact'
      /\ \A b \in Bos : SizeOfBo(b)'
  <2>1. \A b \in Bos, u \in Threads : Passes(u, b)' <=> Passes(u, b)  BY DEF Passes
  <2>2. \A b \in Bos, u \in Threads : arg'[u] = b => arg[u] = b  OBVIOUS
  <2> QED  BY <1>1, <2>1, <2>2, StillKeeps
<1>3. CallInv'
  <2> SUFFICES ASSUME NEW u \in Threads PROVE CallOf(u)'  BY DEF CallInv
  <2>1. CallOf(u)  BY DEF IInv, CallInv
  <2>2. app' = app /\ list' = list /\ \A b \in Bos : SameIdentity(b) /\ SameUse(b)
    BY DEF Still, SameBo
  <2>3. (pc[u] = "naming" => Held(arg[u])') /\ (pc[u] = "flush_free" => Listed(arg[u])')
    BY <2>1, <2>2 DEF CallOf, Held, Listed
  <2>4. \A b \in Bos : Passes(u, b) =>
           /\ bo'[b].kind = bo[b].kind /\ bo'[b].ref = bo[b].ref
           /\ bo'[b].map = "mapped" <=> bo[b].map = "mapped"
           /\ bo'[b].mmapRef = bo[b].mmapRef
    BY <2>2 DEF SameIdentity, SameUse
  <2> QED  BY <1>1, <2>1, <2>3, <2>4, CallKept
<1>4. \A u \in Threads : SizeOfCall(u)'
  <2> TAKE u \in Threads
  <2>1. SizeOfCall(u)  BY DEF IInv, SizeInv
  <2>2. pc[u] = "registering" => SameIdentity(arg[u])
    <3>1. pc[u] = "registering" => arg[u] \in Bos
      BY DEF IInv, TypeInv, CallTypes, CallInv, CallOf
    <3> QED  BY <3>1 DEF Still, SameBo
  <2> QED  BY <1>1, <2>1, <2>2, SizeCallKept
<1>5. FlushInv'  BY DEF IInv, FlushInv
<1> QED  BY <1>1, <1>2, <1>3, <1>4, <1>5 DEF IInv, SizeInv, TypeInv

LEMMA FinishKeeps ==
  ASSUME IInv, NEW b \in Bos, Finish(b)
  PROVE  IInv'
<1>1. /\ UNCHANGED <<bo, cacheVars, mmapVars, tableVars, app, pc, arg, want>>
      /\ busy' = busy \ {b}
  BY DEF Finish
<1>2. DataTypes' /\ Still
  <2>1. DataTypes  BY DEF IInv, TypeInv
  <2>2. Still  BY <1>1, SameBos DEF Still, cacheVars, mmapVars, tableVars
  <2> QED  BY <1>1, <2>1, <2>2 DEF DataTypes, cacheVars, mmapVars, tableVars
<1> QED  BY <1>1, <1>2, NoCallKeeps

LEMMA TickKeeps ==
  ASSUME IInv, Tick
  PROVE  IInv'
<1>1. /\ bo' = [b \in Bos |-> [bo[b] EXCEPT !.freeAge = Older(@, Listed(b)),
                                          !.unmapAge = Older(@, bo[b].map = "cached")]]
      /\ cacheTime' = IF cacheTime = "zero" THEN "zero" ELSE "earlier"
      /\ mmapTime' = "earlier"
      /\ UNCHANGED <<list, entries, mmapList, mmaps, tableVars, busy, app, pc, arg, want>>
  BY DEF Tick
<1>2. DataTypes /\ PlaceInv  BY DEF IInv, TypeInv
<1>3. \A b \in Bos : bo'[b] \in Objects /\ SameBo(b) /\ bo'[b].map = bo[b].map
  <2> TAKE b \in Bos
  <2> DEFINE free == Older(bo[b].freeAge, Listed(b))
             unmap == Older(bo[b].unmapAge, bo[b].map = "cached")
  <2>1. bo[b] \in Objects  BY <1>2 DEF DataTypes
  <2>2. free \in Nat /\ unmap \in Nat
    <3>1. bo[b].freeAge \in Nat /\ bo[b].unmapAge \in Nat  BY <2>1 DEF Objects
    <3> QED  BY <3>1 DEF Older
  <2>3. bo[b].kind = "free" => free = bo[b].freeAge /\ unmap = bo[b].unmapAge
    <3>1. bo[b].kind = "free" => ~Listed(b) /\ bo[b].map = "none"  BY <1>2 DEF PlaceInv, PlaceOf, NoBo
    <3> QED  BY <3>1 DEF Older
  <2>4. bo'[b] = [bo[b] EXCEPT !.freeAge = free, !.unmapAge = unmap]  BY <1>1
  <2> HIDE DEF free, unmap
  <2>5. bo'[b] \in Objects  BY <2>1, <2>2, <2>4 DEF Objects
  <2>6. SameIdentity(b) /\ SameUse(b) /\ bo'[b].map = bo[b].map  BY <2>1, <2>4 DEF SameIdentity, SameUse, Objects
  <2>7. FreeStays(b)
    <3> SUFFICES ASSUME bo[b].kind = "free" PROVE bo'[b] = bo[b]  BY DEF FreeStays
    <3>1. free = bo[b].freeAge /\ unmap = bo[b].unmapAge  BY <2>3
    <3> QED  BY <2>1, <2>4, <3>1 DEF Objects
  <2> QED  BY <2>5, <2>6, <2>7 DEF SameBo
<1>4. DataTypes' /\ Still
  <2>1. bo' \in [Bos -> Objects]  BY <1>1, <1>3
  <2>2. Still  BY <1>1, <1>3 DEF Still, tableVars
  <2> QED  BY <1>1, <1>2, <2>1, <2>2 DEF DataTypes, tableVars
<1> QED  BY <1>1, <1>4, NoCallKeeps

LEMMA StutterKeeps ==
  ASSUME IInv, UNCHANGED vars
  PROVE  IInv'
<1>1. UNCHANGED <<bo, cacheVars, mmapVars, tableVars, busy, app, pc, arg, want>>  BY DEF vars
<1>2. DataTypes' /\ Still
  <2>1. DataTypes  BY DEF IInv, TypeInv
  <2>2. Still  BY <1>1, SameBos DEF Still, cacheVars, mmapVars, tableVars
  <2> QED  BY <1>1, <2>1, <2>2 DEF DataTypes, cacheVars, mmapVars, tableVars
<1> QED  BY <1>1, <1>2, NoCallKeeps

-----------------------------------------------------------------------------
(* Steps that change one buffer, which is in no bucket.                    *)

OnlyBo(b) == \A c \in Bos \ {b} : SameBo(c) /\ app'[c] = app[c]
NotOthers(t, b) ==
  \A u \in Threads \ {t} : ~Passes(u, b) /\ (pc[u] = "naming" /\ arg[u] = b => Held(b)')

LEMMA OneBoStep ==
  ASSUME IInv, TypeInv', NEW t \in Threads, NEW b \in Bos, OnlyCall(t), OnlyBo(b),
         UNCHANGED <<list, entries>>, ~Listed(b), NotOthers(t, b),
         arg[t] \in {b, None}, arg'[t] \in {b, None}, PlaceOf(b)', RefOf(b)', SizeOfBo(b)',
         CallOf(t)', SizeOfCall(t)', MmapInv', TablesAreExact'
  PROVE  IInv'
<1>1. \A c \in Bos \ {b} :
        /\ SameIdentity(c) /\ SameUse(c) /\ FreeStays(c) /\ bo'[c].kind = bo[c].kind
        /\ bo'[c].ref = bo[c].ref /\ app'[c] = app[c]
        /\ Held(c)' <=> Held(c)
  BY DEF OnlyBo, SameBo, SameIdentity, SameUse, Held
<1>2. \A c : Listed(c)' <=> Listed(c)  BY SameLists
<1>3. PlaceInv'
  <2>1. \A c \in Bos \ {b} : PlaceOf(c)'
    <3> TAKE c \in Bos \ {b}
    <3>1. PlaceOf(c) /\ c # None  BY Constants DEF IInv, PlaceInv
    <3>2. \A u \in Threads : Passes(u, c)' <=> Passes(u, c)
      BY <3>1 DEF OnlyCall, SameCall, Passes
    <3>3. \A u \in Threads : arg'[u] = c => arg[u] = c
      BY <3>1 DEF OnlyCall, SameCall
    <3> QED  BY <1>1, <1>2, <3>1, <3>2, <3>3, PlaceKept
  <2> QED  BY <2>1 DEF PlaceInv
<1>4. ListInv'
  <2>1. \A c \in Bos : Listed(c) => SameIdentity(c) /\ bo'[c].ref = bo[c].ref  BY <1>1
  <2> QED  BY <2>1, ListKept DEF IInv
<1>5. RefInv'
  <2>1. \A c \in Bos \ {b} : RefOf(c)'  BY <1>1, RefKept DEF IInv, RefInv
  <2> QED  BY <2>1 DEF RefInv
<1>6. \A c \in Bos : SizeOfBo(c)'
  <2>1. \A c \in Bos \ {b} : SizeOfBo(c)  BY DEF IInv, SizeInv
  <2>2. \A c \in Bos \ {b} : SizeOfBo(c)'  BY <1>1, <2>1, SizeKept
  <2> QED  BY <2>2
<1>7. OthersKept(t)
  <2> SUFFICES ASSUME NEW u \in Threads \ {t}
               PROVE  /\ \A c \in Bos : Passes(u, c) => SameIdentity(c) /\ SameUse(c)
                      /\ pc[u] = "naming" => Held(arg[u])'
    BY DEF OthersKept
  <2>1. \A c \in Bos : Passes(u, c) => SameIdentity(c) /\ SameUse(c)
    BY <1>1 DEF NotOthers
  <2>2. pc[u] = "naming" => Held(arg[u])'
    <3> SUFFICES ASSUME pc[u] = "naming" PROVE app'[arg'[u]].refs > 0  BY DEF Held
    <3>1. CallOf(u) /\ arg[u] \in Bos \cup {None} /\ arg'[u] = arg[u]
      BY DEF IInv, CallInv, TypeInv, CallTypes, OnlyCall, SameCall
    <3>2. arg[u] \in Bos /\ app[arg[u]].refs > 0  BY <3>1 DEF CallOf, Held
    <3>3. arg[u] = b => app'[b].refs > 0  BY DEF NotOthers, Held
    <3>4. arg[u] # b => app'[arg[u]] = app[arg[u]]  BY <1>1, <3>2
    <3> QED  BY <3>1, <3>2, <3>3, <3>4
  <2> QED  BY <2>1, <2>2
<1>8. CallInv' /\ (\A u \in Threads : SizeOfCall(u)') /\ FlushInv'  BY <1>7, CallsKept
<1> QED  BY <1>3, <1>4, <1>5, <1>6, <1>8 DEF IInv, SizeInv

LEMMA BoChange ==
  ASSUME DataTypes, NEW b \in Bos, NEW x \in Objects, bo' = [bo EXCEPT ![b] = x]
  PROVE  bo' \in [Bos -> Objects] /\ bo'[b] = x /\ \A c \in Bos \ {b} : SameBo(c) /\ bo'[c] = bo[c]
<1>1. bo \in [Bos -> Objects]  BY DEF DataTypes
<1>2. bo' \in [Bos -> Objects] /\ bo'[b] = x /\ \A c \in Bos \ {b} : bo'[c] = bo[c]
  BY <1>1
<1> QED  BY <1>2 DEF SameBo, SameIdentity, SameUse, FreeStays

LEMMA AppChange ==
  ASSUME DataTypes, NEW b \in Bos, NEW x \in Holds, app' = [app EXCEPT ![b] = x]
  PROVE  app' \in [Bos -> Holds] /\ app'[b] = x /\ \A c \in Bos \ {b} : app'[c] = app[c]
  BY DEF DataTypes

LEMMA HeldIs ==
  ASSUME IInv, NEW b \in Bos, Held(b)
  PROVE  /\ ~Listed(b) /\ bo[b].kind # "free" /\ \A u \in Threads : ~Passes(u, b)
         /\ bo[b].ref = app[b].refs /\ bo[b].mmapRef = app[b].maps
         /\ bo[b].map = "mapped" <=> app[b].maps > 0
  BY DEF IInv, PlaceInv, PlaceOf, RefInv, RefOf

LEMMA InvIs ==
  ASSUME IInv
  PROVE  /\ TypeInv /\ DataTypes /\ CallTypes /\ MmapInv /\ ListInv /\ TablesAreExact
         /\ handleTable \subseteq Bos
         /\ \A b \in Bos : /\ PlaceOf(b) /\ RefOf(b) /\ SizeOfBo(b)
                          /\ bo[b] \in Objects /\ app[b] \in Holds
         /\ \A t \in Threads : CallOf(t) /\ SizeOfCall(t) /\ want[t].maps = 0 /\ want[t] \in Holds
  BY DEF IInv, TypeInv, DataTypes, CallTypes, PlaceInv, RefInv, SizeInv, CallInv, SizeOfCall

LEMMA RefKeeps ==
  ASSUME IInv, Ruled, NEW t \in Threads, NEW b \in Bos, Ref(t, b)
  PROVE  IInv'
<1>1. /\ At(t, "idle") /\ app[b].refs \in 1..(MaxRefs - 1)
      /\ bo' = [bo EXCEPT ![b].ref = @ + 1] /\ app' = [app EXCEPT ![b].refs = @ + 1]
      /\ UNCHANGED <<cacheVars, mmapVars, tableVars, busy, pc, arg, want>>
  BY DEF Ref
<1>2. /\ TypeInv /\ DataTypes /\ CallTypes /\ PlaceOf(b) /\ RefOf(b) /\ SizeOfBo(b) /\ MmapInv
      /\ TablesAreExact /\ CallOf(t) /\ want[t].maps = 0
      /\ bo[b] \in Objects /\ app[b] \in Holds /\ handleTable \subseteq Bos
  BY InvIs
<1>3. pc[t] = "idle" /\ (\A u \in Threads \ {t} : pc[u] \notin FlushSteps)
  BY <1>1, AtIs
<1>4. CallTypes' /\ (\A u \in Threads : SameCall(u) /\ want'[u] = want[u])
  BY <1>1, <1>2, NoCall
<1>5. arg[t] = None /\ arg'[t] = None /\ pc'[t] = "idle" /\ want'[t].maps = 0
  BY <1>1, <1>2, <1>3 DEF CallOf
<1> DEFINE x == [bo[b] EXCEPT !.ref = bo[b].ref + 1]
           y == [app[b] EXCEPT !.refs = app[b].refs + 1]
<1>6. x \in Objects /\ y \in Holds  BY <1>2 DEF Objects, Holds
<1>7. bo' = [bo EXCEPT ![b] = x] /\ app' = [app EXCEPT ![b] = y]  BY <1>1
<1>8. /\ x.kind = bo[b].kind /\ x.size = bo[b].size /\ x.sparse = bo[b].sparse
      /\ x.reuse = bo[b].reuse /\ x.name = bo[b].name /\ x.map = bo[b].map
      /\ x.mmapRef = bo[b].mmapRef /\ x.ref = bo[b].ref + 1
      /\ y.refs = app[b].refs + 1 /\ y.maps = app[b].maps /\ y.size = app[b].size
      /\ y.sparse = app[b].sparse
  BY <1>2 DEF Objects, Holds
<1> HIDE DEF x, y
<1>9. /\ bo' \in [Bos -> Objects] /\ bo'[b] = x /\ \A c \in Bos \ {b} : SameBo(c) /\ bo'[c] = bo[c]
  BY <1>2, <1>6, <1>7, BoChange
<1>10. /\ app' \in [Bos -> Holds] /\ app'[b] = y /\ \A c \in Bos \ {b} : app'[c] = app[c]
  BY <1>2, <1>6, <1>7, AppChange
<1>11. TypeInv'
  BY <1>1, <1>2, <1>4, <1>9, <1>10 DEF TypeInv, DataTypes, cacheVars, mmapVars, tableVars
<1>12. Held(b) /\ Held(b)' /\ ~Listed(b) /\ bo[b].kind # "free" /\ ~Listed(b)'
  <2>1. Held(b) /\ app'[b].refs > 0  BY <1>1, <1>8, <1>10 DEF Held
  <2>2. UNCHANGED list  BY <1>1 DEF cacheVars
  <2> QED  BY <2>1, <2>2, <1>2, SameLists DEF PlaceOf, Held
<1>13. NotOthers(t, b) /\ (\A u \in Threads : ~Passes(u, b))
  BY <1>2, <1>12 DEF NotOthers, PlaceOf
<1>14. PlaceOf(b)'
  <2>1. bo'[b].kind # "free"  BY <1>8, <1>9, <1>12
  <2>2. \A u \in Threads : ~Passes(u, b)'  BY <1>4, <1>13 DEF SameCall, Passes
  <2> QED  BY <2>1, <2>2, <1>12 DEF PlaceOf
<1>15. RefOf(b)'
  <2>1. app[b].refs + 1 <= MaxRefs  BY <1>1, Constants
  <2> QED  BY <1>2, <1>8, <1>9, <1>10, <1>12, <2>1 DEF RefOf, Held, Objects, Holds
<1>16. SizeOfBo(b)'
  <2>1. SameIdentity(b)  BY <1>8, <1>9 DEF SameIdentity
  <2> QED  BY <1>2, <1>8, <1>10, <1>12, <2>1, SizeKept
<1>17. MmapInv'
  <2>1. \A c \in Bos : bo'[c].map = bo[c].map /\ bo'[c].size = bo[c].size /\ bo'[c].sparse = bo[c].sparse
    BY <1>8, <1>9
  <2> QED  BY <1>1, <1>2, <2>1, MappingsKept DEF mmapVars
<1>18. TablesAreExact'
  <2>1. \A c \in Bos : bo'[c].kind = bo[c].kind /\ bo'[c].name = bo[c].name  BY <1>8, <1>9
  <2> QED  BY <1>1, <1>2, <1>4, <2>1, TablesKept DEF tableVars
<1>19. OnlyCall(t) /\ OnlyBo(b)  BY <1>3, <1>4, <1>9, <1>10 DEF OnlyCall, OnlyBo
<1>20. CallOf(t)' /\ SizeOfCall(t)'  BY <1>5, IdleCall
<1>21. UNCHANGED <<list, entries>>  BY <1>1 DEF cacheVars
<1> QED
  BY <1>5, <1>11, <1>12, <1>13, <1>14, <1>15, <1>16, <1>17, <1>18, <1>19, <1>20, <1>21, OneBoStep

LEMMA UnrefKeeps ==
  ASSUME IInv, Ruled, NEW t \in Threads, NEW b \in Bos, Unref(t, b)
  PROVE  IInv'
<1>1. /\ At(t, "idle") /\ app[b].refs > 0 /\ (app[b].refs = 1 => ~InCall(b))
      /\ bo' = [bo EXCEPT ![b].ref = @ - 1]
      /\ app' = IF app[b].refs = 1 THEN [app EXCEPT ![b] = Nobody]
                                    ELSE [app EXCEPT ![b].refs = @ - 1]
      /\ IF bo[b].ref = 1 THEN Call(t, "releasing", b) /\ busy' \in {busy, busy \cup {b}}
         ELSE UNCHANGED <<pc, arg, want, busy>>
      /\ UNCHANGED <<cacheVars, mmapVars, tableVars>>
  BY DEF Unref
<1>2. /\ TypeInv /\ DataTypes /\ CallTypes /\ PlaceOf(b) /\ RefOf(b) /\ SizeOfBo(b) /\ MmapInv
      /\ TablesAreExact /\ CallOf(t) /\ SizeOfCall(t) /\ want[t].maps = 0
      /\ bo[b] \in Objects /\ app[b] \in Holds /\ handleTable \subseteq Bos
  BY InvIs
<1>3. pc[t] = "idle" /\ (\A u \in Threads \ {t} : pc[u] \notin FlushSteps)
  BY <1>1, AtIs
<1>4. arg[t] = None /\ b # None  BY <1>2, <1>3, Constants DEF CallOf
<1>5. Held(b) /\ ~Listed(b) /\ bo[b].kind # "free" /\ bo[b].ref = app[b].refs
      /\ (\A u \in Threads : ~Passes(u, b))
  <2>1. Held(b)  BY <1>1 DEF Held
  <2> QED  BY <2>1, HeldIs
<1> DEFINE x == [bo[b] EXCEPT !.ref = bo[b].ref - 1]
           y == IF app[b].refs = 1 THEN Nobody ELSE [app[b] EXCEPT !.refs = app[b].refs - 1]
<1>6. x \in Objects /\ y \in Holds
  <2>1. bo[b].ref - 1 \in Nat /\ app[b].refs - 1 \in Nat
    BY <1>1, <1>2, <1>5 DEF Objects, Holds
  <2>2. [app[b] EXCEPT !.refs = app[b].refs - 1] \in Holds /\ Nobody \in Holds
    BY <1>2, <2>1 DEF Holds, Nobody
  <2> QED  BY <1>2, <2>1, <2>2 DEF Objects
<1>7. bo' = [bo EXCEPT ![b] = x] /\ app' = [app EXCEPT ![b] = y]
  <2>1. bo' = [bo EXCEPT ![b] = x]  BY <1>1
  <2>2. app' = [app EXCEPT ![b] = y]  BY <1>1
  <2> QED  BY <2>1, <2>2
<1>8. /\ x.kind = bo[b].kind /\ x.size = bo[b].size /\ x.sparse = bo[b].sparse
      /\ x.reuse = bo[b].reuse /\ x.name = bo[b].name /\ x.map = bo[b].map
      /\ x.mmapRef = bo[b].mmapRef /\ x.ref = bo[b].ref - 1
  BY <1>2 DEF Objects
<1>9. /\ app[b].refs = 1 => y.refs = 0 /\ y.maps = 0
      /\ app[b].refs # 1 => /\ y.refs = app[b].refs - 1 /\ y.maps = app[b].maps
                            /\ y.size = app[b].size /\ y.sparse = app[b].sparse
  BY <1>2 DEF Holds, Nobody
<1> HIDE DEF x, y
<1>10. /\ bo' \in [Bos -> Objects] /\ bo'[b] = x /\ \A c \in Bos \ {b} : SameBo(c) /\ bo'[c] = bo[c]
  BY <1>2, <1>6, <1>7, BoChange
<1>11. /\ app' \in [Bos -> Holds] /\ app'[b] = y /\ \A c \in Bos \ {b} : app'[c] = app[c]
  BY <1>2, <1>6, <1>7, AppChange
<1>12. /\ CallTypes' /\ (\A u \in Threads \ {t} : SameCall(u) /\ want'[u] = want[u])
       /\ want'[t] = want[t]
       /\ IF app[b].refs = 1 THEN pc'[t] = "releasing" /\ arg'[t] = b
          ELSE pc'[t] = "idle" /\ arg'[t] = None
  <2>1. CASE app[b].refs = 1
    <3>1. Call(t, "releasing", b) /\ "releasing" \in Steps  BY <1>1, <1>5, <2>1 DEF Steps
    <3> QED  BY <1>2, <2>1, <3>1, CallIs
  <2>2. CASE app[b].refs # 1
    <3>1. UNCHANGED <<pc, arg, want>>  BY <1>1, <1>5, <2>2
    <3> QED  BY <1>2, <1>3, <1>4, <2>2, <3>1, NoCall
  <2> QED  BY <2>1, <2>2
<1>13. TypeInv'
  <2>1. busy' \subseteq Bos  BY <1>1, <1>2 DEF DataTypes
  <2> QED
    BY <1>1, <1>2, <1>10, <1>11, <1>12, <2>1 DEF TypeInv, DataTypes, cacheVars, mmapVars, tableVars
<1>14. ~Listed(b)' /\ UNCHANGED <<list, entries, mmapList, mmaps, handleTable, nameTable>>
  <2>1. UNCHANGED <<list, entries, mmapList, mmaps, handleTable, nameTable>>
    BY <1>1 DEF cacheVars, mmapVars, tableVars
  <2> QED  BY <1>5, <2>1, SameLists
<1>15. Held(b)' <=> app[b].refs # 1  BY <1>1, <1>2, <1>9, <1>11 DEF Held, Holds
<1>16. NotOthers(t, b)
  <2>1. app[b].refs = 1 => \A u \in Threads : ~(arg[u] = b /\ pc[u] = "naming")
    BY <1>1 DEF InCall
  <2> QED  BY <1>5, <1>15, <2>1 DEF NotOthers
<1>17. PlaceOf(b)'
  <2>1. bo'[b].kind # "free"  BY <1>5, <1>8, <1>10
  <2>2. \A u \in Threads \ {t} : ~Passes(u, b)'  BY <1>5, <1>12 DEF SameCall, Passes
  <2>3. Passes(t, b)' <=> app[b].refs = 1  BY <1>4, <1>12 DEF Passes
  <2> QED  BY <1>14, <1>15, <2>1, <2>2, <2>3 DEF PlaceOf
<1>18. RefOf(b)'
  <2>1. app[b].refs \in Nat /\ app[b].maps \in Nat  BY <1>2 DEF Holds
  <2>2. MaxRefs \in Nat  BY Constants
  <2>3. Held(b) /\ (Held(b)' <=> app'[b].refs > 0)  BY <1>5 DEF Held
  <2>4. /\ bo'[b].ref = bo[b].ref - 1 /\ bo'[b].mmapRef = bo[b].mmapRef /\ bo'[b].map = bo[b].map
        /\ bo'[b].reuse = bo[b].reuse /\ bo'[b].kind = bo[b].kind
    BY <1>8, <1>10
  <2>5. CASE app[b].refs = 1
    <3>1. app'[b].refs = 0 /\ app'[b].maps = 0  BY <1>9, <1>11, <2>5
    <3> QED  BY <1>2, <1>15, <2>2, <2>4, <2>5, <3>1 DEF RefOf
  <2>6. CASE app[b].refs # 1
    <3>1. app'[b].refs = app[b].refs - 1 /\ app'[b].maps = app[b].maps  BY <1>9, <1>11, <2>6
    <3>2. app[b].refs - 1 <= MaxRefs /\ app[b].refs - 1 # 0  BY <1>2, <2>1, <2>2, <2>6 DEF RefOf
    <3> QED  BY <1>2, <1>5, <2>4, <3>1, <3>2 DEF RefOf
  <2> QED  BY <2>5, <2>6
<1>19. SizeOfBo(b)'
  <2>1. Bucket(b)' = Bucket(b)  BY <1>8, <1>10, SameBucket
  <2> QED  BY <1>2, <1>5, <1>8, <1>9, <1>10, <1>11, <1>15, <2>1 DEF SizeOfBo
<1>20. MmapInv'
  <2>1. \A c \in Bos : bo'[c].map = bo[c].map /\ bo'[c].size = bo[c].size /\ bo'[c].sparse = bo[c].sparse
    BY <1>8, <1>10
  <2> QED  BY <1>2, <1>14, <2>1, MappingsKept
<1>21. TablesAreExact'
  <2>1. \A c \in Bos : bo'[c].kind = bo[c].kind /\ bo'[c].name = bo[c].name  BY <1>8, <1>10
  <2>2. \A u \in Threads : pc[u] = "registering" => SameCall(u)  BY <1>3, <1>12
  <2> QED  BY <1>2, <1>14, <2>1, <2>2, TablesKept
<1>22. OnlyCall(t) /\ OnlyBo(b)  BY <1>3, <1>10, <1>11, <1>12 DEF OnlyCall, OnlyBo
<1>23. CallOf(t)' /\ SizeOfCall(t)'
  <2>1. CASE app[b].refs = 1
    <3>1. bo'[b].ref = 0  BY <1>2, <1>5, <1>8, <1>10, <2>1 DEF Objects
    <3> QED  BY <1>2, <1>4, <1>12, <2>1, <3>1 DEF CallOf, SizeOfCall, FlushSteps
  <2>2. CASE app[b].refs # 1  BY <1>2, <1>12, <2>2, IdleCall
  <2> QED  BY <2>1, <2>2
<1>24. arg[t] \in {b, None} /\ arg'[t] \in {b, None}  BY <1>4, <1>12
<1> QED
  BY <1>5, <1>13, <1>14, <1>16, <1>17, <1>18, <1>19, <1>20, <1>21, <1>22, <1>23, <1>24, OneBoStep

LEMMA ForbidKeeps ==
  ASSUME IInv, Ruled, NEW t \in Threads, Forbid(t)
  PROVE  IInv'
<1>0. PICK b \in Bos : b = arg[t]
  <2>1. pc[t] = "opened"  BY AtIs DEF Forbid
  <2>2. CallOf(t) /\ CallTypes  BY InvIs
  <2> QED  BY <2>1, <2>2 DEF CallOf, CallTypes
<1>1. /\ At(t, "opened") /\ bo' = [bo EXCEPT ![b].reuse = FALSE]
      /\ app' = [app EXCEPT ![b].refs = @ + 1] /\ Return(t)
      /\ UNCHANGED <<cacheVars, mmapVars, tableVars, busy>>
  BY <1>0 DEF Forbid
<1>2. pc[t] = "opened" /\ (\A u \in Threads \ {t} : pc[u] \notin FlushSteps)
  BY <1>1, AtIs
<1>3. /\ bo[b].kind = "opened" /\ bo[b].ref = 1 /\ bo[b].map # "mapped"
      /\ bo[b].mmapRef = 0 /\ Passes(t, b)
  <2>1. CallOf(t) /\ CallTypes  BY InvIs
  <2> QED  BY <1>0, <1>2, <2>1 DEF CallOf, CallTypes, Passes
<1>4. /\ TypeInv /\ DataTypes /\ CallTypes /\ PlaceOf(b) /\ RefOf(b) /\ SizeOfBo(b) /\ MmapInv
      /\ TablesAreExact /\ bo[b] \in Objects /\ app[b] \in Holds /\ handleTable \subseteq Bos
  BY <1>3, InvIs
<1>5. ~Held(b) /\ ~Listed(b) /\ (\A u \in Threads \ {t} : ~Passes(u, b))
  BY <1>3, <1>4 DEF PlaceOf
<1>6. app[b].refs = 0 /\ app[b].maps = 0  BY <1>4, <1>5 DEF RefOf, Held, Holds
<1> DEFINE x == [bo[b] EXCEPT !.reuse = FALSE]
           y == [app[b] EXCEPT !.refs = app[b].refs + 1]
<1>7. x \in Objects /\ y \in Holds
  <2>1. y \in Holds  BY <1>4 DEF Holds
  <2>2. x \in Objects
    <3>1. PICK no \in BOOLEAN : no = FALSE  OBVIOUS
    <3>2. [bo[b] EXCEPT !.reuse = no] \in Objects  BY <1>4 DEF Objects
    <3> QED  BY <3>1, <3>2
  <2> QED  BY <2>1, <2>2
<1>8. bo' = [bo EXCEPT ![b] = x] /\ app' = [app EXCEPT ![b] = y]  BY <1>1
<1>9. /\ x.kind = bo[b].kind /\ x.size = bo[b].size /\ x.sparse = bo[b].sparse
      /\ x.name = bo[b].name /\ x.map = bo[b].map /\ x.mmapRef = bo[b].mmapRef
      /\ x.ref = bo[b].ref /\ ~x.reuse /\ y.refs = 1 /\ y.maps = 0
  BY <1>4, <1>6 DEF Objects, Holds
<1> HIDE DEF x, y
<1>10. /\ bo' \in [Bos -> Objects] /\ bo'[b] = x /\ \A c \in Bos \ {b} : SameBo(c) /\ bo'[c] = bo[c]
  BY <1>3, <1>4, <1>7, <1>8, BoChange
<1>11. /\ app' \in [Bos -> Holds] /\ app'[b] = y /\ \A c \in Bos \ {b} : app'[c] = app[c]
  BY <1>3, <1>4, <1>7, <1>8, AppChange
<1>12. /\ CallTypes' /\ pc'[t] = "idle" /\ arg'[t] = None /\ want'[t] = Nobody
       /\ (\A u \in Threads \ {t} : SameCall(u) /\ want'[u] = want[u])
  BY <1>1, <1>4, ReturnIs
<1>13. TypeInv'
  BY <1>1, <1>4, <1>10, <1>11, <1>12 DEF TypeInv, DataTypes, cacheVars, mmapVars, tableVars
<1>14. ~Listed(b)' /\ UNCHANGED <<list, entries, mmapList, mmaps, handleTable, nameTable>>
  <2>1. UNCHANGED <<list, entries, mmapList, mmaps, handleTable, nameTable>>
    BY <1>1 DEF cacheVars, mmapVars, tableVars
  <2> QED  BY <1>5, <2>1, SameLists
<1>15. Held(b)'  BY <1>9, <1>11 DEF Held
<1>16. NotOthers(t, b)  BY <1>5, <1>15 DEF NotOthers
<1>17. PlaceOf(b)'
  <2>1. bo'[b].kind # "free"  BY <1>3, <1>9, <1>10
  <2>2. \A u \in Threads : ~Passes(u, b)'
    BY <1>3, <1>5, <1>12, Constants DEF SameCall, Passes
  <2> QED  BY <1>14, <1>15, <2>1, <2>2 DEF PlaceOf
<1>18. RefOf(b)'
  BY <1>3, <1>4, <1>9, <1>10, <1>11, Constants DEF RefOf
<1>19. SizeOfBo(b)'
  BY <1>3, <1>9, <1>10 DEF SizeOfBo
<1>20. MmapInv'
  <2>1. \A c \in Bos : bo'[c].map = bo[c].map /\ bo'[c].size = bo[c].size /\ bo'[c].sparse = bo[c].sparse
    BY <1>9, <1>10
  <2> QED  BY <1>4, <1>14, <2>1, MappingsKept
<1>21. TablesAreExact'
  <2>1. \A c \in Bos : bo'[c].kind = bo[c].kind /\ bo'[c].name = bo[c].name  BY <1>9, <1>10
  <2>2. \A u \in Threads : pc[u] = "registering" => SameCall(u)  BY <1>2, <1>12
  <2> QED  BY <1>4, <1>14, <2>1, <2>2, TablesKept
<1>22. OnlyCall(t) /\ OnlyBo(b)  BY <1>2, <1>10, <1>11, <1>12 DEF OnlyCall, OnlyBo
<1>23. CallOf(t)' /\ SizeOfCall(t)'
  <2>1. Nobody.maps = 0  BY DEF Nobody
  <2> QED  BY <1>12, <2>1, IdleCall
<1>24. arg[t] \in {b, None} /\ arg'[t] \in {b, None}  BY <1>0, <1>12
<1> QED
  BY <1>3, <1>5, <1>13, <1>14, <1>16, <1>17, <1>18, <1>19, <1>20, <1>21, <1>22, <1>23, <1>24, OneBoStep

\* An object at an address that was free: its own call has it.
LEMMA FreeIs ==
  ASSUME IInv, NEW b \in Bos, bo[b].kind = "free"
  PROVE  /\ bo[b] = NoBo /\ ~Held(b) /\ ~Listed(b) /\ (\A u \in Threads : arg[u] # b)
         /\ app[b].refs = 0 /\ app[b].maps = 0 /\ b \notin handleTable
<1>1. PlaceOf(b) /\ RefOf(b) /\ app[b] \in Holds /\ TablesAreExact  BY InvIs
<1> QED  BY <1>1 DEF PlaceOf, RefOf, Held, Holds, TablesAreExact

LEMMA NewPlace ==
  ASSUME NEW b \in Bos, NEW t \in Threads, bo'[b].kind # "free", Passes(t, b)',
         \A u \in Threads \ {t} : ~Passes(u, b)', ~Held(b)', ~Listed(b)'
  PROVE  PlaceOf(b)'
  BY DEF PlaceOf

LEMMA CreateKeeps ==
  ASSUME IInv, Ruled, NEW t \in Threads, Create(t)
  PROVE  IInv'
<1>1. PICK b \in Bos :
        /\ bo[b].kind = "free"
        /\ bo' = [bo EXCEPT ![b] = [NoBo EXCEPT !.kind = "own", !.ref = 1, !.reuse = TRUE,
                                      !.size = want[t].refs, !.sparse = want[t].sparse]]
        /\ Call(t, "registering", b)
  BY DEF Create
<1>2. (At(t, "creating") \/ At(t, "retrying")) /\ UNCHANGED <<cacheVars, mmapVars, tableVars, busy, app>>
  BY DEF Create
<1>3. pc[t] \in {"creating", "retrying"} /\ (\A u \in Threads \ {t} : pc[u] \notin FlushSteps)
  BY <1>2, AtIs
<1>4. /\ TypeInv /\ DataTypes /\ CallTypes /\ RefOf(b) /\ MmapInv /\ TablesAreExact
      /\ CallOf(t) /\ SizeOfCall(t) /\ want[t] \in Holds /\ app[b] \in Holds
  BY InvIs
<1>5. /\ bo[b] = NoBo /\ ~Held(b) /\ ~Listed(b) /\ (\A u \in Threads : arg[u] # b)
      /\ app[b].refs = 0 /\ app[b].maps = 0 /\ b \notin handleTable
  BY <1>1, FreeIs
<1>6. arg[t] = None /\ b # None /\ Fitting(want[t])
  BY <1>3, <1>4, Constants DEF CallOf, SizeOfCall
<1> DEFINE x == [NoBo EXCEPT !.kind = "own", !.ref = 1, !.reuse = TRUE,
                             !.size = want[t].refs, !.sparse = want[t].sparse]
<1>7. x \in Objects
  BY <1>4 DEF NoBo, Objects, Holds
<1>8. /\ x.kind = "own" /\ x.ref = 1 /\ x.reuse /\ x.size = want[t].refs
      /\ x.sparse = want[t].sparse /\ x.name = None /\ x.map = "none" /\ x.mmapRef = 0
  BY DEF NoBo
<1>9. NoBo.name = None /\ NoBo.map = "none" /\ NoBo.kind = "free"  BY DEF NoBo
<1>10. bo' = [bo EXCEPT ![b] = x]  BY <1>1
<1> HIDE DEF x
<1>11. /\ bo' \in [Bos -> Objects] /\ bo'[b] = x /\ \A c \in Bos \ {b} : SameBo(c) /\ bo'[c] = bo[c]
  BY <1>4, <1>7, <1>10, BoChange
<1>12. /\ CallTypes' /\ pc'[t] = "registering" /\ arg'[t] = b /\ want'[t] = want[t]
       /\ (\A u \in Threads \ {t} : SameCall(u) /\ want'[u] = want[u])
  <2>1. "registering" \in Steps  BY DEF Steps
  <2> QED  BY <1>1, <1>4, <2>1, CallIs
<1>13. TypeInv'
  BY <1>2, <1>4, <1>11, <1>12 DEF TypeInv, DataTypes, cacheVars, mmapVars, tableVars
<1>14. /\ UNCHANGED <<list, entries, mmapList, mmaps, handleTable, nameTable>> /\ app' = app
       /\ ~Listed(b)'
  <2>1. UNCHANGED <<list, entries, mmapList, mmaps, handleTable, nameTable, app>>
    BY <1>2 DEF cacheVars, mmapVars, tableVars
  <2> QED  BY <1>5, <2>1, SameLists
<1>15. ~Held(b)'  BY <1>5, <1>14 DEF Held
<1>16. NotOthers(t, b)  BY <1>5 DEF NotOthers, Passes
<1>17. PlaceOf(b)'
  <2>1. \A u \in Threads \ {t} : ~Passes(u, b)'  BY <1>5, <1>12 DEF SameCall, Passes
  <2>2. Passes(t, b)'  BY <1>12 DEF Passes
  <2>3. bo'[b].kind # "free"  BY <1>8, <1>11
  <2> QED  BY <1>14, <1>15, <2>1, <2>2, <2>3, NewPlace
<1>18. RefOf(b)'
  <2>1. app'[b].refs = 0 /\ app'[b].maps = 0 /\ 0 <= MaxRefs  BY <1>5, <1>14, Constants
  <2> QED  BY <1>8, <1>11, <1>15, <2>1 DEF RefOf
<1>19. SizeOfBo(b)'
  <2>1. Bucket(b)' = BucketOf(want[t].refs, want[t].sparse)  BY <1>8, <1>11 DEF Bucket
  <2> QED  BY <1>6, <1>8, <1>11, <1>15, <2>1 DEF SizeOfBo, Fitting
<1>20. MmapInv'
  <2>1. \A c \in Bos : /\ bo'[c].map = "cached" <=> bo[c].map = "cached"
                       /\ InMmapCache(c) => bo'[c].size = bo[c].size /\ bo'[c].sparse = bo[c].sparse
    BY <1>5, <1>8, <1>9, <1>11 DEF InMmapCache
  <2> QED  BY <1>4, <1>14, <2>1, MappingsKept
<1>21. TablesAreExact'
  <2>1. \A c \in handleTable : bo'[c].kind = "own"
    <3>1. handleTable \subseteq Bos \ {b}  BY <1>5, InvIs
    <3> QED  BY <1>4, <1>11, <3>1 DEF TablesAreExact
  <2>2. \A c \in Bos : bo'[c].kind = "own" =>
          c \in handleTable \/ \E u \in Threads : pc'[u] = "registering" /\ arg'[u] = c
    <3> TAKE c \in Bos
    <3>1. CASE c = b  BY <1>12, <3>1
    <3>2. CASE c # b
      <4> SUFFICES ASSUME bo'[c].kind = "own", c \notin handleTable
                   PROVE  \E u \in Threads : pc'[u] = "registering" /\ arg'[u] = c
        OBVIOUS
      <4>1. PICK u \in Threads : pc[u] = "registering" /\ arg[u] = c
        BY <1>4, <1>11, <3>2 DEF TablesAreExact
      <4>2. u # t  BY <1>3, <4>1
      <4> QED  BY <1>12, <4>1, <4>2 DEF SameCall
    <3> QED  BY <3>1, <3>2
  <2>3. \A n \in Names, c \in Bos : nameTable[n] = c <=> bo'[c].name = n
    BY <1>4, <1>5, <1>8, <1>9, <1>11 DEF TablesAreExact
  <2> QED  BY <1>14, <2>1, <2>2, <2>3 DEF TablesAreExact
<1>22. OnlyCall(t) /\ OnlyBo(b)  BY <1>3, <1>11, <1>12, <1>14 DEF OnlyCall, OnlyBo
<1>23. CallOf(t)'
  BY <1>6, <1>8, <1>11, <1>12 DEF CallOf
<1>24. SizeOfCall(t)'
  BY <1>4, <1>6, <1>8, <1>11, <1>12 DEF SizeOfCall, Fitting, FlushSteps
<1>25. arg[t] \in {b, None} /\ arg'[t] \in {b, None}  BY <1>6, <1>12
<1> QED
  BY <1>5, <1>13, <1>14, <1>16, <1>17, <1>18, <1>19, <1>20, <1>21, <1>22, <1>23, <1>24, <1>25, OneBoStep

LEMMA RegisterKeeps ==
  ASSUME IInv, Ruled, NEW t \in Threads, Register(t)
  PROVE  IInv'
<1>1. pc[t] = "registering" /\ (\A u \in Threads \ {t} : pc[u] \notin FlushSteps)
  BY AtIs DEF Register
<1>2. PICK b \in Bos : b = arg[t]
  <2>1. CallOf(t) /\ CallTypes  BY InvIs
  <2> QED  BY <1>1, <2>1 DEF CallOf, CallTypes
<1>3. /\ handleTable' = handleTable \cup {b} /\ app' = [app EXCEPT ![b] = [want[t] EXCEPT !.refs = 1]]
      /\ Return(t) /\ UNCHANGED <<bo, cacheVars, mmapVars, nameTable, busy>>
  BY <1>2 DEF Register
<1>4. /\ TypeInv /\ DataTypes /\ CallTypes /\ PlaceOf(b) /\ RefOf(b) /\ SizeOfBo(b) /\ MmapInv
      /\ TablesAreExact /\ CallOf(t) /\ SizeOfCall(t)
      /\ want[t] \in Holds /\ want[t].maps = 0 /\ bo[b] \in Objects
  BY InvIs
<1>5. /\ bo[b].kind = "own" /\ bo[b].ref = 1 /\ bo[b].map # "mapped" /\ bo[b].mmapRef = 0
      /\ bo[b].size >= want[t].size /\ bo[b].sparse = want[t].sparse /\ Passes(t, b)
  BY <1>1, <1>2, <1>4 DEF CallOf, SizeOfCall, Passes
<1>6. ~Held(b) /\ ~Listed(b) /\ (\A u \in Threads \ {t} : ~Passes(u, b))
  BY <1>4, <1>5 DEF PlaceOf
<1> DEFINE y == [want[t] EXCEPT !.refs = 1]
<1>7. /\ y \in Holds /\ y.refs = 1 /\ y.maps = 0 /\ y.size = want[t].size
      /\ y.sparse = want[t].sparse
  BY <1>4 DEF Holds
<1>8. app' = [app EXCEPT ![b] = y]  BY <1>3
<1> HIDE DEF y
<1>9. /\ app' \in [Bos -> Holds] /\ app'[b] = y /\ \A c \in Bos \ {b} : app'[c] = app[c]
  BY <1>4, <1>7, <1>8, AppChange
<1>10. /\ CallTypes' /\ pc'[t] = "idle" /\ arg'[t] = None /\ want'[t] = Nobody
       /\ (\A u \in Threads \ {t} : SameCall(u) /\ want'[u] = want[u])
  BY <1>3, <1>4, ReturnIs
<1>11. TypeInv'
  BY <1>3, <1>4, <1>9, <1>10 DEF TypeInv, DataTypes, cacheVars, mmapVars
<1>12. /\ UNCHANGED <<bo, list, entries, mmapList, mmaps, nameTable>> /\ ~Listed(b)'
  <2>1. UNCHANGED <<bo, list, entries, mmapList, mmaps, nameTable>>
    BY <1>3 DEF cacheVars, mmapVars
  <2> QED  BY <1>6, <2>1, SameLists
<1>13. Held(b)'  BY <1>7, <1>9 DEF Held
<1>14. NotOthers(t, b)  BY <1>6, <1>13 DEF NotOthers
<1>15. PlaceOf(b)'
  <2>1. \A u \in Threads : ~Passes(u, b)'  BY <1>6, <1>10 DEF SameCall, Passes
  <2>2. bo'[b].kind # "free"  BY <1>5, <1>12
  <2> QED  BY <1>12, <1>13, <2>1, <2>2 DEF PlaceOf
<1>16. RefOf(b)'
  BY <1>4, <1>5, <1>7, <1>9, <1>12, Constants DEF RefOf
<1>17. SizeOfBo(b)'
  <2>1. Bucket(b)' = Bucket(b)  BY <1>12, SameBucket
  <2> QED  BY <1>4, <1>5, <1>7, <1>9, <1>12, <2>1 DEF SizeOfBo
<1>18. MmapInv'  BY <1>4, <1>12, MappingsKept
<1>19. TablesAreExact'
  <2>1. \A c \in handleTable' : bo'[c].kind = "own"
    BY <1>3, <1>4, <1>5, <1>12 DEF TablesAreExact
  <2>2. \A c \in Bos : bo'[c].kind = "own" =>
          c \in handleTable' \/ \E u \in Threads : pc'[u] = "registering" /\ arg'[u] = c
    <3> SUFFICES ASSUME NEW c \in Bos, bo[c].kind = "own", c \notin handleTable'
                 PROVE  \E u \in Threads : pc'[u] = "registering" /\ arg'[u] = c
      BY <1>12
    <3>1. c # b /\ c \notin handleTable  BY <1>3
    <3>2. PICK u \in Threads : pc[u] = "registering" /\ arg[u] = c
      BY <1>4, <3>1 DEF TablesAreExact
    <3>3. u # t  BY <1>2, <3>1, <3>2
    <3> QED  BY <1>10, <3>2, <3>3 DEF SameCall
  <2>3. \A n \in Names, c \in Bos : nameTable'[n] = c <=> bo'[c].name = n
    BY <1>4, <1>12 DEF TablesAreExact
  <2> QED  BY <2>1, <2>2, <2>3 DEF TablesAreExact
<1>20. OnlyCall(t) /\ OnlyBo(b)
  <2>1. \A c \in Bos \ {b} : SameBo(c)  BY <1>12, SameBos
  <2> QED  BY <1>1, <1>9, <1>10, <2>1 DEF OnlyCall, OnlyBo
<1>21. CallOf(t)' /\ SizeOfCall(t)'
  <2>1. Nobody.maps = 0  BY DEF Nobody
  <2> QED  BY <1>10, <2>1, IdleCall
<1>22. arg[t] \in {b, None} /\ arg'[t] \in {b, None}  BY <1>2, <1>10
<1> QED
  BY <1>6, <1>11, <1>12, <1>14, <1>15, <1>16, <1>17, <1>18, <1>19, <1>20, <1>21, <1>22, OneBoStep

LEMMA InsertNameKeeps ==
  ASSUME IInv, Ruled, NEW t \in Threads, InsertName(t)
  PROVE  IInv'
<1>1. pc[t] = "naming" /\ At(t, "naming") /\ (\A u \in Threads \ {t} : pc[u] \notin FlushSteps)
  BY AtIs DEF InsertName
<1>2. PICK b \in Bos : b = arg[t] /\ Held(b)
  <2>1. CallOf(t) /\ CallTypes  BY InvIs
  <2> QED  BY <1>1, <2>1 DEF CallOf, CallTypes
<1>3. Return(t) /\ UNCHANGED <<cacheVars, mmapVars, handleTable, busy, app>>
  BY DEF InsertName
<1>4. /\ TypeInv /\ DataTypes /\ CallTypes /\ PlaceOf(b) /\ RefOf(b) /\ SizeOfBo(b) /\ MmapInv
      /\ TablesAreExact /\ bo[b] \in Objects
  BY InvIs
<1>5. ~Listed(b) /\ bo[b].kind # "free" /\ (\A u \in Threads : ~Passes(u, b))
  BY <1>2, HeldIs
<1>6. CASE bo[b].name # None
  <2>1. UNCHANGED <<bo, nameTable>>  BY <1>2, <1>6 DEF InsertName
  <2>2. DataTypes' /\ Still
    <3>1. Still  BY <1>3, <2>1, SameBos DEF Still, cacheVars, mmapVars
    <3> QED  BY <1>3, <1>4, <2>1, <3>1 DEF DataTypes, cacheVars, mmapVars
  <2>3. "idle" \in Steps /\ "naming" \notin PassingSteps /\ "idle" \notin PassingSteps
        /\ "idle" \notin {"retrying"} \cup FlushSteps
    BY DEF Steps, PassingSteps, FlushSteps
  <2> QED  BY <1>1, <1>3, <2>2, <2>3, CallStillKeeps
<1>7. CASE bo[b].name = None
  <2>1. PICK n \in Names :
          /\ nameTable[n] = None /\ nameTable' = [nameTable EXCEPT ![n] = b]
          /\ bo' = [bo EXCEPT ![b].name = n]
    BY <1>2, <1>7 DEF InsertName
  <2> DEFINE x == [bo[b] EXCEPT !.name = n]
  <2>2. x \in Objects  BY <1>4 DEF Objects
  <2>3. /\ x.kind = bo[b].kind /\ x.size = bo[b].size /\ x.sparse = bo[b].sparse
        /\ x.reuse = bo[b].reuse /\ x.ref = bo[b].ref /\ x.map = bo[b].map
        /\ x.mmapRef = bo[b].mmapRef /\ x.name = n
    BY <1>4 DEF Objects
  <2>4. bo' = [bo EXCEPT ![b] = x]  BY <2>1
  <2> HIDE DEF x
  <2>5. /\ bo' \in [Bos -> Objects] /\ bo'[b] = x /\ \A c \in Bos \ {b} : SameBo(c) /\ bo'[c] = bo[c]
    BY <1>4, <2>2, <2>4, BoChange
  <2>6. /\ CallTypes' /\ pc'[t] = "idle" /\ arg'[t] = None /\ want'[t] = Nobody
        /\ (\A u \in Threads \ {t} : SameCall(u) /\ want'[u] = want[u])
    BY <1>3, <1>4, ReturnIs
  <2>7. nameTable' \in [Names -> Bos \cup {None}] /\ nameTable'[n] = b
        /\ (\A m \in Names \ {n} : nameTable'[m] = nameTable[m])
    BY <1>4, <2>1 DEF DataTypes
  <2>8. TypeInv'
    BY <1>3, <1>4, <2>5, <2>6, <2>7 DEF TypeInv, DataTypes, cacheVars, mmapVars
  <2>9. /\ UNCHANGED <<list, entries, mmapList, mmaps, handleTable, app>> /\ ~Listed(b)' /\ Held(b)'
    <3>1. UNCHANGED <<list, entries, mmapList, mmaps, handleTable, app>>
      BY <1>3 DEF cacheVars, mmapVars
    <3> QED  BY <1>2, <1>5, <3>1, SameLists DEF Held
  <2>10. NotOthers(t, b)  BY <1>5, <2>9 DEF NotOthers
  <2>11. PlaceOf(b)'
    <3>1. \A u \in Threads : ~Passes(u, b)'  BY <1>5, <2>6 DEF SameCall, Passes
    <3>2. bo'[b].kind # "free"  BY <1>5, <2>3, <2>5
    <3> QED  BY <2>9, <3>1, <3>2 DEF PlaceOf
  <2>12. RefOf(b)'  BY <1>2, <1>4, <2>3, <2>5, <2>9 DEF RefOf, Held
  <2>13. SizeOfBo(b)'
    <3>1. Bucket(b)' = Bucket(b)  BY <2>3, <2>5, SameBucket
    <3> QED  BY <1>2, <1>4, <2>3, <2>5, <2>9, <3>1 DEF SizeOfBo
  <2>14. MmapInv'
    <3>1. \A c \in Bos : bo'[c].map = bo[c].map /\ bo'[c].size = bo[c].size /\ bo'[c].sparse = bo[c].sparse
      BY <2>3, <2>5
    <3> QED  BY <1>4, <2>9, <3>1, MappingsKept
  <2>15. TablesAreExact'
    <3>1. \A c \in Bos : bo'[c].kind = bo[c].kind  BY <2>3, <2>5
    <3>2. \A c \in handleTable : bo'[c].kind = "own"
      BY <1>4, <3>1 DEF TablesAreExact, DataTypes
    <3>3. \A c \in Bos : bo'[c].kind = "own" =>
            c \in handleTable \/ \E u \in Threads : pc'[u] = "registering" /\ arg'[u] = c
      <4>1. \A u \in Threads : pc[u] = "registering" => pc'[u] = pc[u] /\ arg'[u] = arg[u]
        BY <1>1, <2>6 DEF SameCall
      <4> QED  BY <1>4, <3>1, <4>1 DEF TablesAreExact
    <3>4. \A m \in Names, c \in Bos : nameTable'[m] = c <=> bo'[c].name = m
      <4> TAKE m \in Names, c \in Bos
      <4>1. /\ nameTable[m] = c <=> bo[c].name = m
            /\ nameTable[m] = b <=> bo[b].name = m
            /\ nameTable[n] = c <=> bo[c].name = n
        BY <1>4 DEF TablesAreExact
      <4>2. None # m /\ None # c  BY Constants
      <4> QED  BY <1>7, <2>1, <2>3, <2>5, <2>7, <4>1, <4>2
    <3> QED  BY <2>9, <3>2, <3>3, <3>4 DEF TablesAreExact
  <2>16. OnlyCall(t) /\ OnlyBo(b)  BY <1>1, <2>5, <2>6, <2>9 DEF OnlyCall, OnlyBo
  <2>17. CallOf(t)' /\ SizeOfCall(t)'
    <3>1. Nobody.maps = 0  BY DEF Nobody
    <3> QED  BY <2>6, <3>1, IdleCall
  <2>18. arg[t] \in {b, None} /\ arg'[t] \in {b, None}  BY <1>2, <2>6
  <2> QED
    BY <1>5, <2>8, <2>9, <2>10, <2>11, <2>12, <2>13, <2>14, <2>15, <2>16, <2>17, <2>18, OneBoStep
<1> QED  BY <1>6, <1>7

LEMMA FromNameKeeps ==
  ASSUME IInv, Ruled, NEW t \in Threads, NEW n \in Names, FromName(t, n)
  PROVE  IInv'
<1>1. /\ At(t, "idle") /\ nameTable[n] = None /\ UNCHANGED <<cacheTime, handleTable, busy, app>>
  BY DEF FromName, Ruled
<1>2. PICK b \in Bos :
        /\ bo[b].kind = "free"
        /\ bo' = [bo EXCEPT ![b] = [NoBo EXCEPT !.kind = "opened", !.ref = 1,
                                      !.size = ServerSize, !.name = n]]
        /\ nameTable' = [nameTable EXCEPT ![n] = b]
        /\ Call(t, "opened", b) /\ UNCHANGED <<list, entries, mmapVars>>
  BY <1>1 DEF FromName
<1>3. pc[t] = "idle" /\ (\A u \in Threads \ {t} : pc[u] \notin FlushSteps)
  BY <1>1, AtIs
<1>4. /\ TypeInv /\ DataTypes /\ CallTypes /\ RefOf(b) /\ MmapInv /\ TablesAreExact
      /\ CallOf(t) /\ want[t].maps = 0
  BY InvIs
<1>5. /\ bo[b] = NoBo /\ ~Held(b) /\ ~Listed(b) /\ (\A u \in Threads : arg[u] # b)
      /\ app[b].refs = 0 /\ app[b].maps = 0 /\ b \notin handleTable
  BY <1>2, FreeIs
<1>6. arg[t] = None /\ b # None /\ n # None  BY <1>3, <1>4, Constants DEF CallOf
<1> DEFINE x == [NoBo EXCEPT !.kind = "opened", !.ref = 1, !.size = ServerSize, !.name = n]
<1>7. x \in Objects  BY Constants DEF NoBo, Objects
<1>8. /\ x.kind = "opened" /\ x.ref = 1 /\ ~x.reuse /\ x.name = n /\ x.map = "none"
      /\ x.mmapRef = 0
  BY DEF NoBo
<1>9. NoBo.name = None /\ NoBo.map = "none" /\ NoBo.kind = "free"  BY DEF NoBo
<1>10. bo' = [bo EXCEPT ![b] = x]  BY <1>2
<1> HIDE DEF x
<1>11. /\ bo' \in [Bos -> Objects] /\ bo'[b] = x /\ \A c \in Bos \ {b} : SameBo(c) /\ bo'[c] = bo[c]
  BY <1>4, <1>7, <1>10, BoChange
<1>12. /\ CallTypes' /\ pc'[t] = "opened" /\ arg'[t] = b /\ want'[t] = want[t]
       /\ (\A u \in Threads \ {t} : SameCall(u) /\ want'[u] = want[u])
  <2>1. "opened" \in Steps  BY DEF Steps
  <2> QED  BY <1>2, <1>4, <2>1, CallIs
<1>13. nameTable' \in [Names -> Bos \cup {None}] /\ nameTable'[n] = b
       /\ (\A m \in Names \ {n} : nameTable'[m] = nameTable[m])
  BY <1>2, <1>4 DEF DataTypes
<1>14. TypeInv'
  BY <1>1, <1>2, <1>4, <1>11, <1>12, <1>13 DEF TypeInv, DataTypes, mmapVars
<1>15. /\ UNCHANGED <<list, entries, mmapList, mmaps, handleTable, app>> /\ ~Listed(b)'
  <2>1. UNCHANGED <<list, entries, mmapList, mmaps, handleTable, app>>
    BY <1>1, <1>2 DEF mmapVars
  <2> QED  BY <1>5, <2>1, SameLists
<1>16. ~Held(b)'  BY <1>5, <1>15 DEF Held
<1>17. NotOthers(t, b)  BY <1>5 DEF NotOthers, Passes
<1>18. PlaceOf(b)'
  <2>1. \A u \in Threads \ {t} : ~Passes(u, b)'  BY <1>5, <1>12 DEF SameCall, Passes
  <2>2. Passes(t, b)'  BY <1>12 DEF Passes
  <2>3. bo'[b].kind # "free"  BY <1>8, <1>11
  <2> QED  BY <1>15, <1>16, <2>1, <2>2, <2>3, NewPlace
<1>19. RefOf(b)'
  <2>1. app'[b].refs = 0 /\ app'[b].maps = 0 /\ 0 <= MaxRefs  BY <1>5, <1>15, Constants
  <2> QED  BY <1>8, <1>11, <1>16, <2>1 DEF RefOf
<1>20. SizeOfBo(b)'  BY <1>8, <1>11 DEF SizeOfBo
<1>21. MmapInv'
  <2>1. \A c \in Bos : /\ bo'[c].map = "cached" <=> bo[c].map = "cached"
                       /\ InMmapCache(c) => bo'[c].size = bo[c].size /\ bo'[c].sparse = bo[c].sparse
    BY <1>5, <1>8, <1>9, <1>11 DEF InMmapCache
  <2> QED  BY <1>4, <1>15, <2>1, MappingsKept
<1>22. TablesAreExact'
  <2>1. \A c \in handleTable : bo'[c].kind = "own"
    <3>1. handleTable \subseteq Bos \ {b}  BY <1>5, InvIs
    <3> QED  BY <1>4, <1>11, <3>1 DEF TablesAreExact
  <2>2. \A c \in Bos : bo'[c].kind = "own" =>
          c \in handleTable \/ \E u \in Threads : pc'[u] = "registering" /\ arg'[u] = c
    <3> TAKE c \in Bos
    <3>1. bo'[c].kind = "own" => bo[c].kind = "own"  BY <1>8, <1>11
    <3>2. \A u \in Threads : pc[u] = "registering" => pc'[u] = pc[u] /\ arg'[u] = arg[u]
      BY <1>3, <1>12 DEF SameCall
    <3> QED  BY <1>4, <3>1, <3>2 DEF TablesAreExact
  <2>3. \A m \in Names, c \in Bos : nameTable'[m] = c <=> bo'[c].name = m
    <3> TAKE m \in Names, c \in Bos
    <3>1. /\ nameTable[m] = c <=> bo[c].name = m
          /\ nameTable[m] = b <=> bo[b].name = m
          /\ nameTable[n] = c <=> bo[c].name = n
      BY <1>4 DEF TablesAreExact
    <3>2. None # m /\ None # c  BY Constants
    <3> QED  BY <1>1, <1>5, <1>8, <1>9, <1>11, <1>13, <3>1, <3>2
  <2> QED  BY <1>15, <2>1, <2>2, <2>3 DEF TablesAreExact
<1>23. OnlyCall(t) /\ OnlyBo(b)  BY <1>3, <1>11, <1>12, <1>15 DEF OnlyCall, OnlyBo
<1>24. CallOf(t)' /\ SizeOfCall(t)'
  BY <1>4, <1>6, <1>8, <1>11, <1>12 DEF CallOf, SizeOfCall, FlushSteps
<1>25. arg[t] \in {b, None} /\ arg'[t] \in {b, None}  BY <1>6, <1>12
<1> QED
  BY <1>5, <1>14, <1>15, <1>17, <1>18, <1>19, <1>20, <1>21, <1>22, <1>23, <1>24, <1>25, OneBoStep

-----------------------------------------------------------------------------
(* The mmap cache: what comes out of it, and what goes into it.            *)

\* G are the buffers whose mappings are dropped or taken, A those that are added.
MmapMoves(G, A) ==
  /\ G \subseteq Bos /\ A \subseteq Bos
  /\ \A c \in G : InMmapCache(c)
  /\ \A c \in A : ~InMmapCache(c)
  /\ mmapList' \in Seq(Bos) /\ IsInjective(mmapList') /\ ToSet(mmapList') = (ToSet(mmapList) \ G) \cup A
  /\ \A c \in Bos : bo'[c].map = "cached" <=> (InMmapCache(c) /\ c \notin G) \/ c \in A
  /\ \A c \in Bos : bo'[c].map = "cached" => bo'[c].size = bo[c].size /\ bo'[c].sparse = bo[c].sparse
  /\ \A k \in Buckets : mmaps'[k] = mmaps[k] - Cardinality({d \in G : Bucket(d) = k})
                                             + Cardinality({d \in A : Bucket(d) = k})

LEMMA MmapMoved ==
  ASSUME MmapInv, NEW G, NEW A, MmapMoves(G, A)
  PROVE  MmapInv'
<1>1. \A c \in Bos : InMmapCache(c)' <=> (InMmapCache(c) /\ c \notin G) \/ c \in A
  BY DEF MmapMoves, InMmapCache
<1>2. \A c \in Bos : c \in ToSet(mmapList') <=> InMmapCache(c)'
  <2>1. \A c \in Bos : c \in ToSet(mmapList) <=> InMmapCache(c)  BY DEF MmapInv
  <2> QED  BY <1>1, <2>1 DEF MmapMoves
<1>3. \A k \in Buckets : mmaps'[k] = Cardinality(MappingsOf(k)')
  <2> TAKE k \in Buckets
  <2> DEFINE g == {d \in G : Bucket(d) = k}
             a == {d \in A : Bucket(d) = k}
             m == MappingsOf(k)
  <2>1. MappingsOf(k)' = (m \ g) \cup a
    <3>1. \A c \in Bos : InMmapCache(c)' => Bucket(c)' = Bucket(c)
      BY SameBucket DEF MmapMoves, InMmapCache
    <3>2. MappingsOf(k)' = {c \in Bos : InMmapCache(c)' /\ Bucket(c)' = k}  BY DEF MappingsOf
    <3>3. m = {c \in Bos : InMmapCache(c) /\ Bucket(c) = k}  BY DEF MappingsOf
    <3>4. G \subseteq Bos /\ A \subseteq Bos  BY DEF MmapMoves
    <3> HIDE DEF m
    <3> QED  BY <1>1, <3>1, <3>2, <3>3, <3>4
  <2>2. m \subseteq Bos /\ g \subseteq m /\ a \cap m = {} /\ a \subseteq Bos
    BY DEF MmapMoves, MappingsOf
  <2>3. mmaps'[k] = Cardinality(m) - Cardinality(g) + Cardinality(a)
    BY DEF MmapMoves, MmapInv
  <2> HIDE DEF g, a, m
  <2>4. IsFiniteSet(m) /\ IsFiniteSet(a) /\ IsFiniteSet(g)
    <3>1. IsFiniteSet(m) /\ IsFiniteSet(a)  BY <2>2, Constants, FS_Subset
    <3> QED  BY <2>2, <3>1, FS_Subset
  <2>5. m \cap g = g /\ (m \ g) \cap a = {}  BY <2>2
  <2>6. /\ IsFiniteSet(m \ g)
        /\ Cardinality(m \ g) = Cardinality(m) - Cardinality(g)
    <3>1. /\ IsFiniteSet(m \ g)
          /\ Cardinality(m \ g) = Cardinality(m) - Cardinality(m \cap g)
      BY <2>4, FS_Difference
    <3> QED  BY <2>5, <3>1
  <2>7. Cardinality((m \ g) \cup a) = Cardinality(m \ g) + Cardinality(a) - Cardinality({})
    BY <2>4, <2>5, <2>6, FS_Union
  <2>8. Cardinality(m) \in Nat /\ Cardinality(g) \in Nat /\ Cardinality(a) \in Nat /\ Cardinality({}) = 0
    BY <2>4, FS_CardinalityType, FS_EmptySet
  <2> QED  BY <2>1, <2>3, <2>6, <2>7, <2>8
<1> QED  BY <1>2, <1>3 DEF MmapInv, MmapMoves

LEMMA OneOf ==
  ASSUME NEW b, NEW k
  PROVE  Cardinality({d \in {b} : Bucket(d) = k}) = IF Bucket(b) = k THEN 1 ELSE 0
<1>1. CASE Bucket(b) = k
  <2>1. {d \in {b} : Bucket(d) = k} = {b}  BY <1>1
  <2> QED  BY <1>1, <2>1, FS_Singleton
<1>2. CASE Bucket(b) # k
  <2>1. {d \in {b} : Bucket(d) = k} = {}  BY <1>2
  <2> QED  BY <1>2, <2>1, FS_EmptySet
<1> QED  BY <1>1, <1>2

LEMMA NoneOf ==
  ASSUME NEW k
  PROVE  Cardinality({d \in {} : Bucket(d) = k}) = 0
<1>1. {d \in {} : Bucket(d) = k} = {}  OBVIOUS
<1> QED  BY <1>1, FS_EmptySet

LEMMA CountsOf ==
  ASSUME NEW G \in SUBSET Bos, NEW k
  PROVE  Cardinality({d \in G : Bucket(d) = k}) \in Nat
<1>1. {d \in G : Bucket(d) = k} \in SUBSET Bos  OBVIOUS
<1>2. IsFiniteSet({d \in G : Bucket(d) = k})  BY <1>1, Constants, FS_Subset
<1> QED  BY <1>2, FS_CardinalityType

\* drm_tegra_bo_cache_map.
LEMMA FromCacheMapIs ==
  ASSUME IInv, NEW b \in Bos, InMmapCache(b), FromCacheMap(b), bo'[b].map # "cached",
         \A c \in Bos \ {b} : bo'[c] = bo[c]
  PROVE  MmapInv' /\ mmapList' \in Seq(Bos) /\ mmaps' \in [Buckets -> Int] /\ mmapTime' = mmapTime
<1>1. /\ mmapList' = Without(mmapList, {b})
      /\ mmaps' = [k \in Buckets |-> mmaps[k] - (IF Bucket(b) = k THEN 1 ELSE 0)]
      /\ mmapTime' = mmapTime
  BY DEF FromCacheMap
<1>2. MmapInv /\ mmapList \in Seq(Bos) /\ mmaps \in [Buckets -> Int] /\ IsInjective(mmapList)
  BY InvIs DEF DataTypes, MmapInv
<1>3. /\ mmapList' \in Seq(Bos) /\ IsInjective(mmapList')
      /\ ToSet(mmapList') = ToSet(mmapList) \ {b}
  BY <1>1, <1>2, WithoutIs
<1>4. mmaps' \in [Buckets -> Int]  BY <1>1, <1>2
<1>5. \A k \in Buckets : mmaps'[k] = mmaps[k] - Cardinality({d \in {b} : Bucket(d) = k})
                                              + Cardinality({d \in {} : Bucket(d) = k})
  <2> TAKE k \in Buckets
  <2>1. mmaps[k] \in Int /\ mmaps'[k] = mmaps[k] - (IF Bucket(b) = k THEN 1 ELSE 0)  BY <1>1, <1>2
  <2>2. Cardinality({d \in {b} : Bucket(d) = k}) = IF Bucket(b) = k THEN 1 ELSE 0  BY OneOf
  <2>3. Cardinality({d \in {} : Bucket(d) = k}) = 0  BY NoneOf
  <2> QED  BY <2>1, <2>2, <2>3
<1>6. MmapMoves({b}, {})
  <2>1. \A c \in Bos : bo'[c].map = "cached" <=> InMmapCache(c) /\ c \notin {b}
    BY DEF InMmapCache
  <2>2. \A c \in Bos : bo'[c].map = "cached" => bo'[c].size = bo[c].size /\ bo'[c].sparse = bo[c].sparse
    OBVIOUS
  <2> QED  BY <1>3, <1>5, <2>1, <2>2 DEF MmapMoves
<1> QED  BY <1>1, <1>2, <1>3, <1>4, <1>6, MmapMoved

\* drm_tegra_bo_cache_unmap, of a buffer that becomes x.
LEMMA UnmapToCacheIs ==
  ASSUME IInv, NEW b \in Bos, bo[b].map = "mapped", NEW x \in Objects,
         x.size = bo[b].size, x.sparse = bo[b].sparse, UnmapToCache(b, [bo EXCEPT ![b] = x])
  PROVE  /\ bo' \in [Bos -> Objects] /\ bo'[b] = [x EXCEPT !.map = "cached", !.unmapAge = 0]
         /\ (\A c \in Bos \ {b} : SameBo(c)) /\ MmapInv'
         /\ mmapList' \in Seq(Bos) /\ mmaps' \in [Buckets -> Int] /\ mmapTime' = "now"
<1> DEFINE gone == ToSet(mmapList) \cap MmapCleanup.dropped
           f == [bo EXCEPT ![b] = x]
           Count(k) == Cardinality({d \in gone : Bucket(d) = k})
<1>1. /\ bo' = [c \in Bos |->
                  IF c = b THEN [f[c] EXCEPT !.map = "cached", !.unmapAge = 0]
                  ELSE IF c \in gone THEN [f[c] EXCEPT !.map = "none", !.unmapAge = 0]
                  ELSE f[c]]
      /\ mmapList' = Append(Without(mmapList, gone), b)
      /\ mmaps' = [k \in Buckets |-> mmaps[k] - Count(k) + (IF Bucket(b) = k THEN 1 ELSE 0)]
      /\ mmapTime' = "now"
  BY DEF UnmapToCache
<1>2. /\ MmapInv /\ mmapList \in Seq(Bos) /\ mmaps \in [Buckets -> Int] /\ IsInjective(mmapList)
      /\ bo \in [Bos -> Objects] /\ ToSet(mmapList) \subseteq Bos
      /\ \A c \in Bos : PlaceOf(c)
  <2>1. mmapList \in Seq(Bos)  BY InvIs DEF DataTypes
  <2> QED  BY <2>1, InvIs, ListIs DEF DataTypes, MmapInv
<1>3. gone \subseteq ToSet(mmapList) /\ gone \in SUBSET Bos /\ ~InMmapCache(b)
      /\ (\A c \in gone : InMmapCache(c)) /\ b \notin ToSet(mmapList) /\ b \notin gone
  BY <1>2 DEF InMmapCache, MmapInv
<1> HIDE DEF gone
<1>4. f[b] = x /\ \A c \in Bos \ {b} : f[c] = bo[c]  BY <1>2
<1> HIDE DEF f
<1>5. bo'[b] = [x EXCEPT !.map = "cached", !.unmapAge = 0]  BY <1>1, <1>4
<1>6. \A c \in Bos \ {b} :
        bo'[c] = IF c \in gone THEN [bo[c] EXCEPT !.map = "none", !.unmapAge = 0] ELSE bo[c]
  BY <1>1, <1>4
<1>7. bo'[b] \in Objects /\ bo'[b].map = "cached" /\ bo'[b].size = x.size /\ bo'[b].sparse = x.sparse
  <2>1. [x EXCEPT !.map = "cached", !.unmapAge = 0] \in Objects  BY DEF Objects
  <2>2. bo'[b].map = "cached" /\ bo'[b].size = x.size /\ bo'[b].sparse = x.sparse
    BY <1>5 DEF Objects
  <2> QED  BY <1>5, <2>1, <2>2
<1>8. \A c \in Bos \ {b} :
        /\ bo'[c] \in Objects /\ SameIdentity(c) /\ SameUse(c)
        /\ bo'[c].map = "cached" <=> (InMmapCache(c) /\ c \notin gone)
  <2> TAKE c \in Bos \ {b}
  <2>1. bo[c] \in Objects  BY <1>2
  <2>2. CASE c \in gone
    <3>1. bo'[c] = [bo[c] EXCEPT !.map = "none", !.unmapAge = 0]  BY <1>6, <2>2
    <3>2. bo[c].map = "cached"  BY <1>3, <2>2 DEF InMmapCache
    <3>3. bo'[c] \in Objects
      <4>1. [bo[c] EXCEPT !.map = "none", !.unmapAge = 0] \in Objects  BY <2>1 DEF Objects
      <4> QED  BY <3>1, <4>1
    <3>4. /\ bo'[c].kind = bo[c].kind /\ bo'[c].size = bo[c].size /\ bo'[c].sparse = bo[c].sparse
          /\ bo'[c].reuse = bo[c].reuse /\ bo'[c].name = bo[c].name /\ bo'[c].ref = bo[c].ref
          /\ bo'[c].mmapRef = bo[c].mmapRef /\ bo'[c].map = "none"
      BY <2>1, <3>1 DEF Objects
    <3> QED  BY <2>2, <3>2, <3>3, <3>4 DEF SameIdentity, SameUse
  <2>3. CASE c \notin gone
    <3>1. bo'[c] = bo[c]  BY <1>6, <2>3
    <3> QED  BY <2>1, <2>3, <3>1 DEF SameIdentity, SameUse, InMmapCache
  <2> QED  BY <2>2, <2>3
<1>9. \A c \in Bos \ {b} : SameBo(c)
  <2> TAKE c \in Bos \ {b}
  <2>1. FreeStays(c)
    <3>1. bo[c].kind = "free" => ~InMmapCache(c)
      BY <1>2 DEF PlaceOf, NoBo, InMmapCache
    <3> QED  BY <1>3, <1>6, <3>1 DEF FreeStays
  <2> QED  BY <1>8, <2>1 DEF SameBo
<1>10. bo' \in [Bos -> Objects]  BY <1>1, <1>7, <1>8
<1> DEFINE rest == Without(mmapList, gone)
<1>11. /\ rest \in Seq(Bos) /\ IsInjective(rest) /\ ToSet(rest) = ToSet(mmapList) \ gone
  BY <1>2, WithoutIs
<1>12. mmapList' = Append(rest, b)  BY <1>1
<1> HIDE DEF rest
<1>13. /\ mmapList' \in Seq(Bos) /\ IsInjective(mmapList')
       /\ ToSet(mmapList') = (ToSet(mmapList) \ gone) \cup {b}
  BY <1>3, <1>11, <1>12, AppendIs
<1>14. \A k \in Buckets : Count(k) \in Nat  BY <1>3, CountsOf
<1>15. \A k \in Buckets : /\ mmaps[k] \in Int
                          /\ mmaps'[k] = mmaps[k] - Count(k) + (IF Bucket(b) = k THEN 1 ELSE 0)
  BY <1>1, <1>2
<1>16. mmaps' \in [Buckets -> Int]
  <2>1. \A k \in Buckets : mmaps'[k] \in Int
    <3> HIDE DEF Count
    <3> QED  BY <1>14, <1>15
  <2>2. mmaps' = [k \in Buckets |-> mmaps'[k]]  BY <1>1
  <2> QED  BY <2>1, <2>2
<1>17. MmapMoves(gone, {b})
  <2>1. \A k \in Buckets : mmaps'[k] = mmaps[k] - Cardinality({d \in gone : Bucket(d) = k})
                                                + Cardinality({d \in {b} : Bucket(d) = k})
    BY <1>15, OneOf
  <2>2. \A c \in Bos : bo'[c].map = "cached" <=> (InMmapCache(c) /\ c \notin gone) \/ c \in {b}
    BY <1>7, <1>8
  <2>3. \A c \in Bos : bo'[c].map = "cached" => bo'[c].size = bo[c].size /\ bo'[c].sparse = bo[c].sparse
    BY <1>7, <1>8 DEF SameIdentity
  <2> QED  BY <1>3, <1>13, <2>1, <2>2, <2>3 DEF MmapMoves
<1> QED  BY <1>1, <1>2, <1>5, <1>9, <1>10, <1>13, <1>16, <1>17, MmapMoved

LEMMA MapKeeps ==
  ASSUME IInv, Ruled, NEW t \in Threads, NEW b \in Bos, Map(t, b)
  PROVE  IInv'
<1>1. /\ At(t, "idle") /\ app[b].refs > 0 /\ app[b].maps < MaxRefs
      /\ app' = [app EXCEPT ![b].maps = @ + 1]
      /\ bo' = [bo EXCEPT ![b].map = "mapped", ![b].unmapAge = 0,
                          ![b].mmapRef = IF bo[b].map = "mapped" THEN @ + 1 ELSE 1]
      /\ IF bo[b].map = "cached" THEN FromCacheMap(b) ELSE UNCHANGED mmapVars
      /\ UNCHANGED <<cacheVars, tableVars, busy, pc, arg, want>>
  BY DEF Map
<1>2. /\ TypeInv /\ DataTypes /\ CallTypes /\ PlaceOf(b) /\ RefOf(b) /\ SizeOfBo(b) /\ MmapInv
      /\ TablesAreExact /\ CallOf(t) /\ want[t].maps = 0
      /\ bo[b] \in Objects /\ app[b] \in Holds /\ handleTable \subseteq Bos
  BY InvIs
<1>3. pc[t] = "idle" /\ (\A u \in Threads \ {t} : pc[u] \notin FlushSteps)
  BY <1>1, AtIs
<1>4. CallTypes' /\ (\A u \in Threads : SameCall(u) /\ want'[u] = want[u])
  BY <1>1, <1>2, NoCall
<1>5. arg[t] = None /\ arg'[t] = None /\ pc'[t] = "idle" /\ want'[t].maps = 0
  BY <1>1, <1>2, <1>3 DEF CallOf
<1>6. /\ Held(b) /\ ~Listed(b) /\ bo[b].kind # "free" /\ (\A u \in Threads : ~Passes(u, b))
      /\ bo[b].ref = app[b].refs /\ bo[b].mmapRef = app[b].maps
      /\ bo[b].map = "mapped" <=> app[b].maps > 0
  <2>1. Held(b)  BY <1>1 DEF Held
  <2> QED  BY <2>1, HeldIs
<1> DEFINE uses == IF bo[b].map = "mapped" THEN bo[b].mmapRef + 1 ELSE 1
           x == [bo[b] EXCEPT !.map = "mapped", !.unmapAge = 0, !.mmapRef = uses]
           y == [app[b] EXCEPT !.maps = app[b].maps + 1]
<1>7. uses \in Nat /\ uses = app[b].maps + 1
  BY <1>2, <1>6 DEF Objects, Holds
<1>8. bo' = [bo EXCEPT ![b] = x] /\ app' = [app EXCEPT ![b] = y]
  <2>1. bo' = [bo EXCEPT ![b] = x]  BY <1>1, <1>2 DEF DataTypes
  <2>2. app' = [app EXCEPT ![b] = y]  BY <1>1
  <2> QED  BY <2>1, <2>2
<1> HIDE DEF uses
<1>9. x \in Objects  BY <1>2, <1>7 DEF Objects
<1>10. y \in Holds  BY <1>2 DEF Holds
<1>11. /\ x.kind = bo[b].kind /\ x.size = bo[b].size /\ x.sparse = bo[b].sparse
       /\ x.reuse = bo[b].reuse /\ x.name = bo[b].name /\ x.map = "mapped"
       /\ x.mmapRef = uses /\ x.ref = bo[b].ref
       /\ y.refs = app[b].refs /\ y.maps = app[b].maps + 1 /\ y.size = app[b].size
       /\ y.sparse = app[b].sparse
  BY <1>2 DEF Objects, Holds
<1> HIDE DEF x, y
<1>12. /\ bo' \in [Bos -> Objects] /\ bo'[b] = x /\ \A c \in Bos \ {b} : SameBo(c) /\ bo'[c] = bo[c]
  BY <1>2, <1>8, <1>9, BoChange
<1>13. /\ app' \in [Bos -> Holds] /\ app'[b] = y /\ \A c \in Bos \ {b} : app'[c] = app[c]
  BY <1>2, <1>8, <1>10, AppChange
<1>14. MmapInv' /\ mmapList' \in Seq(Bos) /\ mmaps' \in [Buckets -> Int] /\ mmapTime' = mmapTime
  <2>1. CASE bo[b].map = "cached"
    <3>1. bo'[b].map # "cached"  BY <1>11, <1>12
    <3> QED  BY <1>1, <1>12, <2>1, <3>1, FromCacheMapIs DEF InMmapCache
  <2>2. CASE bo[b].map # "cached"
    <3>1. UNCHANGED <<mmapList, mmaps, mmapTime>>  BY <1>1, <2>2 DEF mmapVars
    <3>2. \A c \in Bos : /\ bo'[c].map = "cached" <=> bo[c].map = "cached"
                         /\ bo'[c].size = bo[c].size /\ bo'[c].sparse = bo[c].sparse
      BY <1>11, <1>12, <2>2
    <3> QED  BY <1>2, <3>1, <3>2, MappingsKept DEF DataTypes
  <2> QED  BY <2>1, <2>2
<1>15. TypeInv'
  BY <1>1, <1>2, <1>4, <1>12, <1>13, <1>14 DEF TypeInv, DataTypes, cacheVars, tableVars
<1>16. Held(b)' /\ ~Listed(b)' /\ UNCHANGED <<list, entries, handleTable, nameTable>>
  <2>1. UNCHANGED <<list, entries, handleTable, nameTable>>  BY <1>1 DEF cacheVars, tableVars
  <2> QED  BY <1>1, <1>6, <1>11, <1>13, <2>1, SameLists DEF Held
<1>17. NotOthers(t, b)  BY <1>6, <1>16 DEF NotOthers
<1>18. PlaceOf(b)'
  <2>1. bo'[b].kind # "free"  BY <1>6, <1>11, <1>12
  <2>2. \A u \in Threads : ~Passes(u, b)'  BY <1>4, <1>6 DEF SameCall, Passes
  <2> QED  BY <2>1, <2>2, <1>16 DEF PlaceOf
<1>19. RefOf(b)'
  <2>1. app[b].maps + 1 <= MaxRefs /\ app[b].maps + 1 > 0  BY <1>1, <1>2, Constants DEF Holds
  <2>2. app[b].refs # 0  BY <1>1
  <2> QED  BY <1>2, <1>6, <1>7, <1>11, <1>12, <1>13, <2>1, <2>2 DEF RefOf
<1>20. SizeOfBo(b)'
  <2>1. SameIdentity(b)  BY <1>11, <1>12 DEF SameIdentity
  <2> QED  BY <1>2, <1>6, <1>11, <1>13, <1>16, <2>1, SizeKept
<1>21. TablesAreExact'
  <2>1. \A c \in Bos : bo'[c].kind = bo[c].kind /\ bo'[c].name = bo[c].name  BY <1>11, <1>12
  <2> QED  BY <1>2, <1>4, <1>16, <2>1, TablesKept
<1>22. OnlyCall(t) /\ OnlyBo(b)  BY <1>3, <1>4, <1>12, <1>13 DEF OnlyCall, OnlyBo
<1>23. CallOf(t)' /\ SizeOfCall(t)'  BY <1>5, IdleCall
<1> QED
  BY <1>5, <1>6, <1>14, <1>15, <1>16, <1>17, <1>18, <1>19, <1>20, <1>21, <1>22, <1>23, OneBoStep

LEMMA UnmapKeeps ==
  ASSUME IInv, Ruled, NEW t \in Threads, NEW b \in Bos, Unmap(t, b)
  PROVE  IInv'
<1>1. /\ At(t, "idle") /\ app[b].maps > 0 /\ app' = [app EXCEPT ![b].maps = @ - 1]
      /\ UNCHANGED <<cacheVars, tableVars, busy>>
  BY DEF Unmap
<1>2. /\ TypeInv /\ DataTypes /\ CallTypes /\ PlaceOf(b) /\ RefOf(b) /\ SizeOfBo(b) /\ MmapInv
      /\ TablesAreExact /\ CallOf(t) /\ SizeOfCall(t) /\ want[t].maps = 0
      /\ bo[b] \in Objects /\ app[b] \in Holds /\ handleTable \subseteq Bos
  BY InvIs
<1>3. pc[t] = "idle" /\ (\A u \in Threads \ {t} : pc[u] \notin FlushSteps)
  BY <1>1, AtIs
<1>4. arg[t] = None /\ b # None  BY <1>2, <1>3, Constants DEF CallOf
<1>5. /\ Held(b) /\ ~Listed(b) /\ bo[b].kind # "free" /\ (\A u \in Threads : ~Passes(u, b))
      /\ bo[b].ref = app[b].refs /\ bo[b].mmapRef = app[b].maps /\ bo[b].map = "mapped"
  <2>1. app[b].refs \in Nat /\ app[b].refs # 0  BY <1>1, <1>2 DEF RefOf, Holds
  <2>2. Held(b)  BY <2>1 DEF Held
  <2> QED  BY <1>1, <2>2, HeldIs
<1> DEFINE x == [bo[b] EXCEPT !.mmapRef = bo[b].mmapRef - 1]
           y == [app[b] EXCEPT !.maps = app[b].maps - 1]
<1>6. x \in Objects /\ y \in Holds
  <2>1. bo[b].mmapRef - 1 \in Nat /\ app[b].maps - 1 \in Nat
    BY <1>1, <1>2, <1>5 DEF Holds
  <2> QED  BY <1>2, <2>1 DEF Objects, Holds
<1>7. app' = [app EXCEPT ![b] = y]  BY <1>1
<1>8. /\ x.kind = bo[b].kind /\ x.size = bo[b].size /\ x.sparse = bo[b].sparse
      /\ x.reuse = bo[b].reuse /\ x.name = bo[b].name /\ x.map = "mapped"
      /\ x.mmapRef = app[b].maps - 1 /\ x.ref = bo[b].ref
      /\ y.refs = app[b].refs /\ y.maps = app[b].maps - 1 /\ y.size = app[b].size
      /\ y.sparse = app[b].sparse
  BY <1>2, <1>5 DEF Objects, Holds
<1>9. CASE bo[b].mmapRef = 1
  <2>1. /\ UnmapToCache(b, [bo EXCEPT ![b].mmapRef = 0])
        /\ IF MmapCleanup.crash THEN Call(t, "crashed", None) ELSE UNCHANGED <<pc, arg, want>>
    BY <1>9 DEF Unmap
  <2>2. [bo EXCEPT ![b].mmapRef = 0] = [bo EXCEPT ![b] = x]
    <3>1. bo[b].mmapRef - 1 = 0  BY <1>9
    <3> QED  BY <3>1
  <2>3. UnmapToCache(b, [bo EXCEPT ![b] = x])  BY <2>1, <2>2
  <2> HIDE DEF x
  <2> QED
    <3>1. /\ bo' \in [Bos -> Objects] /\ bo'[b] = [x EXCEPT !.map = "cached", !.unmapAge = 0]
          /\ (\A c \in Bos \ {b} : SameBo(c)) /\ MmapInv'
          /\ mmapList' \in Seq(Bos) /\ mmaps' \in [Buckets -> Int] /\ mmapTime' = "now"
      BY <1>5, <1>6, <1>8, <2>3, UnmapToCacheIs
    <3> DEFINE z == [x EXCEPT !.map = "cached", !.unmapAge = 0]
    <3>2. /\ z.kind = bo[b].kind /\ z.size = bo[b].size /\ z.sparse = bo[b].sparse
          /\ z.reuse = bo[b].reuse /\ z.name = bo[b].name /\ z.map = "cached"
          /\ z.mmapRef = 0 /\ z.ref = bo[b].ref
      <4>1. x.mmapRef = 0  BY <1>5, <1>8, <1>9
      <4> QED  BY <1>6, <1>8, <4>1 DEF Objects
    <3>3. bo'[b] = z  BY <3>1
    <3> HIDE DEF z
    <3>4. /\ CallTypes' /\ (\A u \in Threads \ {t} : SameCall(u) /\ want'[u] = want[u])
          /\ want'[t] = want[t] /\ arg'[t] = None /\ pc'[t] \in {"idle", "crashed"}
      <4>1. CASE MmapCleanup.crash
        <5>1. Call(t, "crashed", None) /\ "crashed" \in Steps  BY <2>1, <4>1 DEF Steps
        <5> QED  BY <1>2, <5>1, CallIs
      <4>2. CASE ~MmapCleanup.crash
        <5>1. UNCHANGED <<pc, arg, want>>  BY <2>1, <4>2
        <5> QED  BY <1>2, <1>3, <1>4, <5>1, NoCall
      <4> QED  BY <4>1, <4>2
    <3>5. y \in Holds /\ y.maps = 0  BY <1>5, <1>6, <1>8, <1>9
    <3> HIDE DEF y
    <3>6. /\ app' \in [Bos -> Holds] /\ app'[b] = y /\ \A c \in Bos \ {b} : app'[c] = app[c]
      BY <1>2, <1>7, <3>5, AppChange
    <3>7. TypeInv'
      BY <1>1, <1>2, <3>1, <3>4, <3>6 DEF TypeInv, DataTypes, cacheVars, tableVars
    <3>8. Held(b)' /\ ~Listed(b)' /\ UNCHANGED <<list, entries, handleTable, nameTable>>
      <4>1. UNCHANGED <<list, entries, handleTable, nameTable>>  BY <1>1 DEF cacheVars, tableVars
      <4> QED  BY <1>5, <1>8, <3>6, <4>1, SameLists DEF Held
    <3>9. NotOthers(t, b)  BY <1>5, <3>8 DEF NotOthers
    <3>10. PlaceOf(b)'
      <4>1. bo'[b].kind # "free"  BY <1>5, <3>2, <3>3
      <4>2. \A u \in Threads : ~Passes(u, b)'  BY <1>4, <1>5, <3>4 DEF SameCall, Passes
      <4> QED  BY <4>1, <4>2, <3>8 DEF PlaceOf
    <3>11. RefOf(b)'
      BY <1>2, <1>5, <1>8, <3>2, <3>3, <3>5, <3>6, Constants DEF RefOf
    <3>12. SizeOfBo(b)'
      <4>1. SameIdentity(b)  BY <3>2, <3>3 DEF SameIdentity
      <4> QED  BY <1>2, <1>5, <1>8, <3>6, <3>8, <4>1, SizeKept
    <3>13. TablesAreExact'
      <4>1. \A c \in Bos : bo'[c].kind = bo[c].kind /\ bo'[c].name = bo[c].name
        BY <3>1, <3>2, <3>3 DEF SameBo, SameIdentity
      <4>2. \A u \in Threads : pc[u] = "registering" => SameCall(u)  BY <1>3, <3>4
      <4> QED  BY <1>2, <3>8, <4>1, <4>2, TablesKept
    <3>14. OnlyCall(t) /\ OnlyBo(b)  BY <1>3, <3>1, <3>4, <3>6 DEF OnlyCall, OnlyBo
    <3>15. CallOf(t)' /\ SizeOfCall(t)'
      BY <1>2, <3>4 DEF CallOf, SizeOfCall, FlushSteps
    <3> QED
      BY <1>4, <1>5, <3>1, <3>4, <3>7, <3>8, <3>9, <3>10, <3>11, <3>12, <3>13, <3>14, <3>15, OneBoStep
<1>10. CASE bo[b].mmapRef # 1
  <2>1. /\ bo' = [bo EXCEPT ![b].mmapRef = IF @ = 0 THEN 0 ELSE @ - 1]
        /\ UNCHANGED <<mmapVars, pc, arg, want>>
    BY <1>10 DEF Unmap
  <2>2. bo' = [bo EXCEPT ![b] = x]
    <3>1. bo[b].mmapRef # 0  BY <1>1, <1>5
    <3> QED  BY <2>1, <3>1
  <2> HIDE DEF x, y
  <2>3. /\ bo' \in [Bos -> Objects] /\ bo'[b] = x /\ \A c \in Bos \ {b} : SameBo(c) /\ bo'[c] = bo[c]
    BY <1>2, <1>6, <2>2, BoChange
  <2>4. /\ app' \in [Bos -> Holds] /\ app'[b] = y /\ \A c \in Bos \ {b} : app'[c] = app[c]
    BY <1>2, <1>6, <1>7, AppChange
  <2>5. CallTypes' /\ (\A u \in Threads : SameCall(u) /\ want'[u] = want[u])
    BY <1>2, <2>1, NoCall
  <2>6. TypeInv'
    BY <1>1, <1>2, <2>1, <2>3, <2>4, <2>5 DEF TypeInv, DataTypes, cacheVars, mmapVars, tableVars
  <2>7. /\ Held(b)' /\ ~Listed(b)'
        /\ UNCHANGED <<list, entries, mmapList, mmaps, handleTable, nameTable>>
    <3>1. UNCHANGED <<list, entries, mmapList, mmaps, handleTable, nameTable>>
      BY <1>1, <2>1 DEF cacheVars, mmapVars, tableVars
    <3> QED  BY <1>5, <1>8, <2>4, <3>1, SameLists DEF Held
  <2>8. NotOthers(t, b)  BY <1>5, <2>7 DEF NotOthers
  <2>9. PlaceOf(b)'
    <3>1. bo'[b].kind # "free"  BY <1>5, <1>8, <2>3
    <3>2. \A u \in Threads : ~Passes(u, b)'  BY <1>5, <2>5 DEF SameCall, Passes
    <3> QED  BY <2>7, <3>1, <3>2 DEF PlaceOf
  <2>10. RefOf(b)'
    <3>1. app[b].maps \in Nat /\ app[b].maps - 1 > 0 /\ app[b].maps - 1 <= MaxRefs /\ app[b].refs # 0
      BY <1>1, <1>2, <1>5, <1>10, Constants DEF RefOf, Holds
    <3> QED  BY <1>2, <1>5, <1>8, <2>3, <2>4, <3>1 DEF RefOf
  <2>11. SizeOfBo(b)'
    <3>1. SameIdentity(b)  BY <1>8, <2>3 DEF SameIdentity
    <3> QED  BY <1>2, <1>5, <1>8, <2>4, <2>7, <3>1, SizeKept
  <2>12. MmapInv'
    <3>1. \A c \in Bos : bo'[c].map = bo[c].map /\ bo'[c].size = bo[c].size /\ bo'[c].sparse = bo[c].sparse
      BY <1>5, <1>8, <2>3
    <3> QED  BY <1>2, <2>7, <3>1, MappingsKept
  <2>13. TablesAreExact'
    <3>1. \A c \in Bos : bo'[c].kind = bo[c].kind /\ bo'[c].name = bo[c].name  BY <1>8, <2>3
    <3> QED  BY <1>2, <2>5, <2>7, <3>1, TablesKept
  <2>14. OnlyCall(t) /\ OnlyBo(b)  BY <1>3, <2>3, <2>4, <2>5 DEF OnlyCall, OnlyBo
  <2>15. CallOf(t)' /\ SizeOfCall(t)'
    <3>1. arg'[t] = None /\ pc'[t] = "idle" /\ want'[t].maps = 0  BY <1>2, <1>3, <1>4, <2>1
    <3> QED  BY <3>1, IdleCall
  <2>16. arg'[t] = None  BY <1>4, <2>1
  <2> QED
    BY <1>4, <1>5, <2>6, <2>7, <2>8, <2>9, <2>10, <2>11, <2>12, <2>13, <2>14, <2>15, <2>16, OneBoStep
<1> QED  BY <1>9, <1>10

-----------------------------------------------------------------------------
(* Steps that free the buffers of S, and move b into or out of a bucket.   *)

Unused(t, c) == ~Held(c) /\ \A u \in Threads \ {t} : ~Passes(u, c)
Freed(t, S) == \A c \in S : bo'[c] = NoBo /\ app'[c] = app[c] /\ ~Listed(c)' /\ Unused(t, c)
Others(S, b) ==
  \A c \in Bos \ (S \cup {b}) : SameBo(c) /\ app'[c] = app[c] /\ (Listed(c)' <=> Listed(c))

LEMMA UnusedIs ==
  ASSUME IInv, NEW t \in Threads, NEW c \in Bos, Unused(t, c), NEW u \in Threads \ {t},
         pc[u] \notin FlushSteps
  PROVE  arg[u] # c
<1>1. CallOf(u) /\ pc[u] \in Steps /\ c # None
  BY InvIs, Constants DEF CallTypes
<1>2. ~Held(c) /\ ~Passes(u, c)  BY DEF Unused
<1> QED  BY <1>1, <1>2 DEF CallOf, Passes, Steps, FlushSteps

LEMMA ListStep ==
  ASSUME IInv, TypeInv', NEW t \in Threads, NEW b \in Bos, NEW S \in SUBSET Bos, OnlyCall(t),
         Freed(t, S), Others(S, b), Unused(t, b), arg[t] \in {b, None}, arg'[t] = None,
         b \notin S => PlaceOf(b)' /\ RefOf(b)' /\ SizeOfBo(b)',
         ListInv', CallOf(t)', SizeOfCall(t)', MmapInv', TablesAreExact'
  PROVE  IInv'
<1>1. \A c \in Bos \ (S \cup {b}) :
        /\ SameIdentity(c) /\ SameUse(c) /\ FreeStays(c) /\ bo'[c].kind = bo[c].kind
        /\ app'[c] = app[c] /\ (Held(c)' <=> Held(c)) /\ (Listed(c)' <=> Listed(c))
  BY DEF Others, SameBo, SameIdentity, Held
<1>2. \A c \in S \cup {b} : \A u \in Threads \ {t} : arg[u] # c
  <2> SUFFICES ASSUME NEW c \in S \cup {b}, NEW u \in Threads \ {t} PROVE arg[u] # c
    OBVIOUS
  <2>1. Unused(t, c) /\ pc[u] \notin FlushSteps /\ c \in Bos  BY DEF Freed, OnlyCall
  <2> QED  BY <2>1, UnusedIs
<1>3. \A c \in Bos : \A u \in Threads \ {t} : Passes(u, c)' <=> Passes(u, c)
  BY DEF OnlyCall, SameCall, Passes
<1>4. \A c \in Bos : c # None  BY Constants
<1>5. \A c \in Bos : ~Passes(t, c)'  BY <1>4 DEF Passes
<1>6. \A c \in S :
        /\ bo'[c] = NoBo /\ ~Held(c)' /\ ~Listed(c)' /\ app'[c] = app[c]
        /\ (\A u \in Threads : arg'[u] # c)
  <2> TAKE c \in S
  <2>1. bo'[c] = NoBo /\ ~Listed(c)' /\ app'[c] = app[c] /\ ~Held(c)  BY DEF Freed, Unused
  <2>2. ~Held(c)'  BY <2>1 DEF Held
  <2>3. \A u \in Threads : arg'[u] # c  BY <1>2, <1>4 DEF OnlyCall, SameCall
  <2> QED  BY <2>1, <2>2, <2>3
<1>7. NoBo.kind = "free" /\ NoBo.mmapRef = 0 /\ NoBo.reuse = FALSE  BY DEF NoBo
<1>8. PlaceInv'
  <2>1. \A c \in S : PlaceOf(c)'
    <3> TAKE c \in S
    <3>1. \A u \in Threads : ~Passes(u, c)'  BY <1>6 DEF Passes
    <3> QED  BY <1>6, <1>7, <3>1 DEF PlaceOf
  <2>2. \A c \in Bos \ (S \cup {b}) : PlaceOf(c)'
    <3> TAKE c \in Bos \ (S \cup {b})
    <3>1. PlaceOf(c)  BY InvIs
    <3>2. ~Passes(t, c)  BY <1>4 DEF Passes
    <3>3. \A u \in Threads : Passes(u, c)' <=> Passes(u, c)  BY <1>3, <1>5, <3>2
    <3>4. \A u \in Threads : arg'[u] = c => arg[u] = c  BY <1>4 DEF OnlyCall, SameCall
    <3> QED  BY <1>1, <3>1, <3>3, <3>4, PlaceKept
  <2> QED  BY <2>1, <2>2 DEF PlaceInv
<1>9. RefInv'
  <2>1. \A c \in S : RefOf(c)'
    <3> TAKE c \in S
    <3>1. RefOf(c) /\ app[c] \in Holds /\ ~Held(c)  BY InvIs DEF Freed, Unused
    <3>2. app[c].refs = 0 /\ app[c].maps = 0  BY <3>1 DEF RefOf, Holds, Held
    <3> QED  BY <1>6, <1>7, <3>2, Constants DEF RefOf
  <2>2. \A c \in Bos \ (S \cup {b}) : RefOf(c)'  BY <1>1, RefKept, InvIs
  <2> QED  BY <2>1, <2>2 DEF RefInv
<1>10. \A c \in Bos : SizeOfBo(c)'
  <2>1. \A c \in S : SizeOfBo(c)'  BY <1>6, <1>7 DEF SizeOfBo
  <2>2. \A c \in Bos \ (S \cup {b}) : SizeOfBo(c)'
    <3>1. \A c \in Bos : SizeOfBo(c)  BY InvIs
    <3> QED  BY <1>1, <3>1, SizeKept
  <2> QED  BY <2>1, <2>2
<1>11. OthersKept(t)
  <2> SUFFICES ASSUME NEW u \in Threads \ {t}
               PROVE  /\ \A c \in Bos : Passes(u, c) => SameIdentity(c) /\ SameUse(c)
                      /\ pc[u] = "naming" => Held(arg[u])'
    BY DEF OthersKept
  <2>1. \A c \in Bos : Passes(u, c) => SameIdentity(c) /\ SameUse(c)
    BY <1>1, <1>2 DEF Passes
  <2>2. pc[u] = "naming" => Held(arg[u])'
    <3> SUFFICES ASSUME pc[u] = "naming" PROVE app'[arg'[u]].refs > 0  BY DEF Held
    <3>1. CallOf(u) /\ arg[u] \in Bos \cup {None} /\ arg'[u] = arg[u]
      BY InvIs DEF CallTypes, OnlyCall, SameCall
    <3>2. arg[u] \in Bos /\ app[arg[u]].refs > 0  BY <3>1 DEF CallOf, Held
    <3>3. app'[arg[u]] = app[arg[u]]  BY <1>1, <1>2, <3>2
    <3> QED  BY <3>1, <3>2, <3>3
  <2> QED  BY <2>1, <2>2
<1>12. CallInv' /\ (\A u \in Threads : SizeOfCall(u)') /\ FlushInv'  BY <1>11, CallsKept
<1> QED  BY <1>8, <1>9, <1>10, <1>12 DEF IInv, SizeInv

\* drm_tegra_bo_free, of the buffers of S; f are the others.
LEMMA FreeBosIs ==
  ASSUME IInv, NEW S \in SUBSET Bos, NEW f \in [Bos -> Objects], FreeBos(S, f),
         \A c \in Bos \ S : /\ f[c].kind = bo[c].kind /\ f[c].name = bo[c].name
                            /\ f[c].size = bo[c].size /\ f[c].sparse = bo[c].sparse
                            /\ f[c].map = bo[c].map,
         \A u \in Threads : pc[u] = "registering" => SameCall(u)
  PROVE  /\ bo' \in [Bos -> Objects] /\ (\A c \in S : bo'[c] = NoBo)
         /\ (\A c \in Bos \ S : bo'[c] = f[c]) /\ MmapInv' /\ TablesAreExact'
         /\ mmapList' \in Seq(Bos) /\ mmaps' \in [Buckets -> Int] /\ mmapTime' = mmapTime
         /\ nameTable' \in [Names -> Bos \cup {None}] /\ handleTable' \subseteq Bos /\ busy' \subseteq Bos
<1> DEFINE G == {c \in S : InMmapCache(c)}
           Count(k) == Cardinality({c \in S : bo[c].map = "cached" /\ Bucket(c) = k})
<1>1. /\ bo' = [c \in Bos |-> IF c \in S THEN NoBo ELSE f[c]]
      /\ mmapList' = Without(mmapList, S)
      /\ mmaps' = [k \in Buckets |-> mmaps[k] - Count(k)]
      /\ nameTable' = [n \in Names |-> IF \E c \in S : bo[c].name = n THEN None ELSE nameTable[n]]
      /\ handleTable' = handleTable \ S /\ busy' = busy \ S /\ mmapTime' = mmapTime
  BY DEF FreeBos
<1>2. /\ MmapInv /\ TablesAreExact /\ mmapList \in Seq(Bos) /\ mmaps \in [Buckets -> Int]
      /\ IsInjective(mmapList) /\ handleTable \subseteq Bos /\ busy \subseteq Bos
      /\ nameTable \in [Names -> Bos \cup {None}] /\ ToSet(mmapList) \subseteq Bos
  <2>1. mmapList \in Seq(Bos)  BY InvIs DEF DataTypes
  <2> QED  BY <2>1, InvIs, ListIs DEF DataTypes, MmapInv
<1>3. (\A c \in S : bo'[c] = NoBo) /\ (\A c \in Bos \ S : bo'[c] = f[c])
  BY <1>1
<1>4. bo' \in [Bos -> Objects]
  <2>1. NoBo \in Objects
    <3>1. FALSE \in BOOLEAN  OBVIOUS
    <3> QED  BY <3>1 DEF NoBo, Objects
  <2> QED  BY <1>1, <2>1
<1>5. G \in SUBSET Bos /\ \A k : Count(k) = Cardinality({c \in G : Bucket(c) = k})
  <2>1. \A k : {c \in S : bo[c].map = "cached" /\ Bucket(c) = k} = {c \in G : Bucket(c) = k}
    BY DEF InMmapCache
  <2> QED  BY <2>1
<1>6. \A k \in Buckets : Count(k) \in Nat  BY <1>5, CountsOf
<1>7. \A k \in Buckets : mmaps[k] \in Int /\ mmaps'[k] = mmaps[k] - Count(k)  BY <1>1, <1>2
<1> HIDE DEF Count
<1>8. mmaps' \in [Buckets -> Int]
  <2>1. \A k \in Buckets : mmaps'[k] \in Int  BY <1>6, <1>7
  <2>2. mmaps' = [k \in Buckets |-> mmaps'[k]]  BY <1>1
  <2> QED  BY <2>1, <2>2
<1>9. /\ mmapList' \in Seq(Bos) /\ IsInjective(mmapList')
      /\ ToSet(mmapList') = ToSet(mmapList) \ S
  BY <1>1, <1>2, WithoutIs
<1>10. NoBo.map = "none" /\ NoBo.kind = "free" /\ NoBo.name = None  BY DEF NoBo
<1>11. MmapMoves(G, {})
  <2>1. ToSet(mmapList') = (ToSet(mmapList) \ G) \cup {}
    <3>1. \A c \in ToSet(mmapList) : c \in G <=> c \in S  BY <1>2 DEF MmapInv
    <3> QED  BY <1>9, <3>1
  <2>2. \A c \in Bos : bo'[c].map = "cached" <=> (InMmapCache(c) /\ c \notin G)
    BY <1>3, <1>10 DEF InMmapCache
  <2>3. \A c \in Bos : bo'[c].map = "cached" => bo'[c].size = bo[c].size /\ bo'[c].sparse = bo[c].sparse
    BY <1>3, <1>10
  <2>4. \A k \in Buckets : mmaps'[k] = mmaps[k] - Cardinality({d \in G : Bucket(d) = k})
                                                + Cardinality({d \in {} : Bucket(d) = k})
    BY <1>5, <1>6, <1>7, NoneOf
  <2>5. \A c \in G : InMmapCache(c)  OBVIOUS
  <2> HIDE DEF G
  <2> QED  BY <1>5, <1>9, <2>1, <2>2, <2>3, <2>4, <2>5 DEF MmapMoves
<1>12. MmapInv'  BY <1>2, <1>11, MmapMoved
<1>13. \A n \in Names :
         nameTable'[n] = IF \E c \in S : bo[c].name = n THEN None ELSE nameTable[n]
  BY <1>1
<1>14. TablesAreExact'
  <2>1. \A c \in handleTable' : bo'[c].kind = "own"
    BY <1>1, <1>2, <1>3 DEF TablesAreExact
  <2>2. \A c \in Bos : bo'[c].kind = "own" =>
          c \in handleTable' \/ \E u \in Threads : pc'[u] = "registering" /\ arg'[u] = c
    <3> SUFFICES ASSUME NEW c \in Bos, bo'[c].kind = "own", c \notin handleTable'
                 PROVE  \E u \in Threads : pc'[u] = "registering" /\ arg'[u] = c
      OBVIOUS
    <3>1. c \notin S /\ bo[c].kind = "own" /\ c \notin handleTable
      BY <1>1, <1>3, <1>10
    <3>2. PICK u \in Threads : pc[u] = "registering" /\ arg[u] = c
      BY <1>2, <3>1 DEF TablesAreExact
    <3> QED  BY <3>2 DEF SameCall
  <2>3. \A n \in Names, c \in Bos : nameTable'[n] = c <=> bo'[c].name = n
    <3> TAKE n \in Names, c \in Bos
    <3>1. \A d \in Bos : nameTable[n] = d <=> bo[d].name = n  BY <1>2 DEF TablesAreExact
    <3>2. None # n /\ None # c  BY Constants
    <3> QED  BY <1>3, <1>10, <1>13, <3>1, <3>2
  <2> QED  BY <2>1, <2>2, <2>3 DEF TablesAreExact
<1>15. nameTable' \in [Names -> Bos \cup {None}]  BY <1>1, <1>2
<1>16. handleTable' \subseteq Bos /\ busy' \subseteq Bos  BY <1>1, <1>2
<1> QED  BY <1>1, <1>3, <1>4, <1>8, <1>9, <1>12, <1>14, <1>15, <1>16

\* A buffer in a bucket: of its own size, nobody's, and in no other bucket.
LEMMA ListedBo ==
  ASSUME IInv, NEW b, Listed(b)
  PROVE  /\ b \in Bos /\ Bucket(b) \in Buckets /\ b \in ToSet(list[Bucket(b)])
         /\ bo[b].kind = "own" /\ bo[b].ref = 0 /\ ~Held(b) /\ (\A u \in Threads : ~Passes(u, b))
         /\ (\A k \in Buckets : b \in ToSet(list[k]) => k = Bucket(b))
<1>1. TypeInv /\ ListInv /\ \A k \in Buckets : list[k] \in Seq(Bos)  BY InvIs DEF DataTypes
<1>2. PICK k \in Buckets : b \in ToSet(list[k])  BY <1>1, ListedIs
<1>3. b \in Bos  BY <1>1, <1>2, ListIs
<1>4. PlaceOf(b)  BY <1>3, InvIs
<1> QED  BY <1>1, <1>2, <1>3, <1>4 DEF ListInv, PlaceOf

\* What list' has to be.
ListsAre(L) ==
  /\ list' \in [Buckets -> Seq(Bos)]
  /\ \A k \in Buckets : /\ IsInjective(list'[k]) /\ entries'[k] = Len(list'[k])
                        /\ ToSet(list'[k]) = L[k]

LEMMA NewLists ==
  ASSUME NEW L, ListsAre(L),
         \A k \in Buckets : \A c \in L[k] :
           bo'[c].kind = "own" /\ Bucket(c)' = k /\ bo'[c].ref = 0
  PROVE  ListInv' /\ \A c : Listed(c)' <=> \E k \in Buckets : c \in L[k]
<1>1. ListInv'
  <2>1. \A k \in Buckets : \A c \in ToSet(list'[k]) :
          bo'[c].kind = "own" /\ Bucket(c)' = k /\ bo'[c].ref = 0
    BY DEF ListsAre
  <2> QED  BY <2>1 DEF ListInv, ListsAre
<1>2. \A c : Listed(c)' <=> \E k \in Buckets : c \in L[k]
  <2> TAKE c
  <2>1. Listed(c)' <=> \E k \in Buckets : c \in ToSet(list'[k])  BY DEF Listed, ToSet
  <2> QED  BY <2>1 DEF ListsAre
<1> QED  BY <1>1, <1>2

LEMMA FlushFreeKeeps ==
  ASSUME IInv, Ruled, NEW t \in Threads, FlushFree(t)
  PROVE  IInv'
<1>1. pc[t] = "flush_free" /\ (\A u \in Threads \ {t} : pc[u] \notin FlushSteps)
  BY AtIs DEF FlushFree
<1>2. PICK b \in Bos : b = arg[t] /\ Listed(b)
  <2>1. CallOf(t) /\ CallTypes  BY InvIs
  <2> QED  BY <1>1, <2>1 DEF CallOf, CallTypes
<1> DEFINE k == Bucket(b)
<1>3. /\ list' = [list EXCEPT ![k] = Without(@, {b})] /\ entries' = [entries EXCEPT ![k] = @ - 1]
      /\ FreeBos({b}, bo) /\ Call(t, "flushing", None) /\ UNCHANGED <<cacheTime, app>>
  BY <1>2 DEF FlushFree
<1>4. /\ k \in Buckets /\ b \in ToSet(list[k]) /\ bo[b].kind = "own" /\ ~Held(b)
      /\ (\A u \in Threads : ~Passes(u, b)) /\ (\A j \in Buckets : b \in ToSet(list[j]) => j = k)
  BY <1>2, ListedBo
<1>5. /\ TypeInv /\ DataTypes /\ CallTypes /\ ListInv /\ SizeOfCall(t) /\ want[t].maps = 0
      /\ bo \in [Bos -> Objects] /\ list \in [Buckets -> Seq(Bos)] /\ entries \in [Buckets -> Int]
      /\ app \in [Bos -> Holds]
  BY InvIs DEF DataTypes
<1>6. PICK kb \in Buckets : kb = k  BY <1>4
<1>7. /\ list' = [list EXCEPT ![kb] = Without(@, {b})] /\ entries' = [entries EXCEPT ![kb] = @ - 1]
  BY <1>3, <1>6
<1>8. /\ CallTypes' /\ pc'[t] = "flushing" /\ arg'[t] = None /\ want'[t] = want[t]
      /\ (\A u \in Threads \ {t} : SameCall(u) /\ want'[u] = want[u])
  <2>1. "flushing" \in Steps  BY DEF Steps, FlushSteps
  <2> QED  BY <1>3, <1>5, <2>1, CallIs
<1>9. /\ bo' \in [Bos -> Objects] /\ (\A c \in {b} : bo'[c] = NoBo)
      /\ (\A c \in Bos \ {b} : bo'[c] = bo[c]) /\ MmapInv' /\ TablesAreExact'
      /\ mmapList' \in Seq(Bos) /\ mmaps' \in [Buckets -> Int] /\ mmapTime' = mmapTime
      /\ nameTable' \in [Names -> Bos \cup {None}] /\ handleTable' \subseteq Bos /\ busy' \subseteq Bos
  <2>1. \A u \in Threads : pc[u] = "registering" => SameCall(u)  BY <1>1, <1>8
  <2> QED  BY <1>3, <1>5, <2>1, FreeBosIs
<1> HIDE DEF k
<1>10. /\ Without(list[kb], {b}) \in Seq(Bos) /\ IsInjective(Without(list[kb], {b}))
       /\ ToSet(Without(list[kb], {b})) = ToSet(list[kb]) \ {b}
       /\ Len(Without(list[kb], {b})) = Len(list[kb]) - 1
  <2>1. list[kb] \in Seq(Bos) /\ IsInjective(list[kb]) /\ b \in ToSet(list[kb])
    BY <1>4, <1>5, <1>6 DEF ListInv
  <2> QED  BY <2>1, WithoutIs, WithoutOne
<1>11. /\ list' \in [Buckets -> Seq(Bos)] /\ list'[kb] = Without(list[kb], {b})
       /\ (\A j \in Buckets \ {kb} : list'[j] = list[j] /\ entries'[j] = entries[j])
       /\ entries'[kb] = entries[kb] - 1 /\ entries' \in [Buckets -> Int]
  BY <1>5, <1>7, <1>10
<1> DEFINE L == [j \in Buckets |-> ToSet(list[j]) \ {b}]
<1>12. ListsAre(L)
  <2>1. IsInjective(list'[kb]) /\ entries'[kb] = Len(list'[kb]) /\ ToSet(list'[kb]) = L[kb]
    BY <1>5, <1>10, <1>11 DEF ListInv
  <2>2. \A j \in Buckets \ {kb} : /\ IsInjective(list'[j]) /\ entries'[j] = Len(list'[j])
                                  /\ ToSet(list'[j]) = L[j]
    BY <1>4, <1>5, <1>6, <1>11 DEF ListInv
  <2> QED  BY <1>11, <2>1, <2>2 DEF ListsAre
<1>13. \A j \in Buckets : \A c \in L[j] : c \in Bos /\ c # b /\ c \in ToSet(list[j])
  <2>1. \A j \in Buckets : ToSet(list[j]) \subseteq Bos  BY <1>5, ListIs
  <2> QED  BY <2>1
<1>14. \A j \in Buckets : L[j] = ToSet(list[j]) \ {b}  OBVIOUS
<1> HIDE DEF L
<1>15. \A j \in Buckets : \A c \in L[j] : bo'[c].kind = "own" /\ Bucket(c)' = j /\ bo'[c].ref = 0
  <2>1. \A c \in Bos \ {b} : Bucket(c)' = Bucket(c)  BY <1>9, SameBucket
  <2> QED  BY <1>5, <1>9, <1>13, <2>1 DEF ListInv
<1>16. ListInv' /\ \A c : Listed(c)' <=> \E j \in Buckets : c \in L[j]
  BY <1>12, <1>15, NewLists
<1>17. TypeInv'
  BY <1>3, <1>5, <1>8, <1>9, <1>11 DEF TypeInv, DataTypes
<1>18. OnlyCall(t)  BY <1>1, <1>8 DEF OnlyCall
<1>19. Freed(t, {b}) /\ Unused(t, b)
  BY <1>3, <1>4, <1>9, <1>14, <1>16 DEF Freed, Unused
<1>20. Others({b}, b)
  <2>1. \A c \in Bos \ {b} : SameBo(c)
    BY <1>9 DEF SameBo, SameIdentity, SameUse, FreeStays
  <2>2. \A c \in Bos \ {b} : Listed(c)' <=> Listed(c)  BY <1>5, <1>14, <1>16, ListedIs
  <2> QED  BY <1>3, <2>1, <2>2 DEF Others
<1>21. CallOf(t)' /\ SizeOfCall(t)'
  <2>1. SizeOfCall(t)'
    BY <1>1, <1>5, <1>8 DEF SizeOfCall, FlushSteps, Fitting
  <2> QED  BY <1>8, <2>1 DEF CallOf
<1> QED  BY <1>2, <1>8, <1>9, <1>16, <1>17, <1>18, <1>19, <1>20, <1>21, ListStep

\* How many buffers of a bucket have had their time.
LEMMA ExpiredIs ==
  ASSUME NEW k \in Buckets, list[k] \in Seq(Bos)
  PROVE  Expired(k) \in 0..Len(list[k])
<1> DEFINE n == Len(list[k])
           T == {m \in 0..n : m = n \/ Keeps(k, entries[k] - m, list[k][m + 1])}
<1>1. n \in Nat  BY ListIs
<1>2. T \in SUBSET Nat /\ n \in T  BY <1>1
<1>3. Min(T) \in T
  <2> HIDE DEF T
  <2> QED  BY <1>2, MinIn
<1>4. Expired(k) = IF cacheTime = "now" \/ ~FreeUp(k, entries[k]) THEN 0 ELSE Min(T)
  BY DEF Expired
<1> QED  BY <1>1, <1>3, <1>4

LEMMA ExpiredBosAre ==
  ASSUME IInv
  PROVE  /\ ExpiredBos \in SUBSET Bos /\ (\A c \in ExpiredBos : Listed(c))
         /\ \A k \in Buckets : {list[k][i] : i \in 1..Expired(k)} = ToSet(list[k]) \cap ExpiredBos
<1> DEFINE E(k) == {list[k][i] : i \in 1..Expired(k)}
<1>1. \A k \in Buckets : E(k) \subseteq ToSet(list[k]) /\ ToSet(list[k]) \subseteq Bos
  <2> TAKE k \in Buckets
  <2>1. list[k] \in Seq(Bos)  BY InvIs DEF DataTypes
  <2>2. /\ Len(list[k]) \in Nat /\ ToSet(list[k]) = {list[k][i] : i \in 1..Len(list[k])}
        /\ ToSet(list[k]) \subseteq Bos
    BY <2>1, ListIs
  <2>3. Expired(k) \in 0..Len(list[k])  BY <2>1, ExpiredIs
  <2>4. \A i \in 1..Expired(k) : i \in 1..Len(list[k])  BY <2>2, <2>3
  <2> QED  BY <2>2, <2>4
<1>2. ExpiredBos = UNION {E(k) : k \in Buckets}  BY DEF ExpiredBos
<1> HIDE DEF E
<1>3. \A c : c \in ExpiredBos <=> \E k \in Buckets : c \in E(k)  BY <1>2
<1>4. \A c \in ExpiredBos : c \in Bos /\ Listed(c)  BY <1>1, <1>3, ListedIs, InvIs
<1>5. \A k \in Buckets : E(k) = ToSet(list[k]) \cap ExpiredBos
  <2> TAKE k \in Buckets
  <2>1. \A c \in ToSet(list[k]) : c \in ExpiredBos => c \in E(k)
    <3> SUFFICES ASSUME NEW c \in ToSet(list[k]), c \in ExpiredBos PROVE c \in E(k)
      OBVIOUS
    <3>1. PICK j \in Buckets : c \in E(j)  BY <1>3
    <3>2. c \in ToSet(list[j]) /\ Listed(c)  BY <1>1, <1>4, <3>1
    <3>3. j = Bucket(c) /\ k = Bucket(c)  BY <3>2, ListedBo
    <3> QED  BY <3>1, <3>3
  <2> QED  BY <1>1, <1>3, <2>1
<1> QED  BY <1>4, <1>5 DEF E

\* drm_tegra_bo_cache_free.
LEMMA CacheFreeKeeps ==
  ASSUME IInv, NEW t \in Threads, pc[t] = "releasing",
         \A u \in Threads \ {t} : pc[u] \notin FlushSteps, NEW b \in Bos, arg[t] = b,
         bo[b].kind = "own", NEW k \in Buckets, Bucket(b) = k, k # None,
         CacheFree(b), Return(t), UNCHANGED app
  PROVE  IInv'
<1> DEFINE left == [j \in Buckets |-> SubSeq(list[j], Expired(j) + 1, Len(list[j]))]
           S == ExpiredBos
           x == [bo[b] EXCEPT !.freeAge = 0]
           f == [bo EXCEPT ![b] = x]
<1>1. /\ FreeBos(S, f) /\ list' = [left EXCEPT ![k] = Append(@, b)]
      /\ entries' = [j \in Buckets |-> entries[j] - Expired(j) + (IF j = k THEN 1 ELSE 0)]
      /\ cacheTime' = "now"
  BY DEF CacheFree
<1>2. /\ TypeInv /\ DataTypes /\ CallTypes /\ ListInv /\ PlaceOf(b) /\ RefOf(b) /\ SizeOfBo(b)
      /\ CallOf(t) /\ bo \in [Bos -> Objects] /\ app \in [Bos -> Holds]
      /\ list \in [Buckets -> Seq(Bos)] /\ entries \in [Buckets -> Int]
  BY InvIs DEF DataTypes
<1>3. Passes(t, b) /\ bo[b].ref = 0 /\ b # None  BY <1>2, Constants DEF Passes, CallOf
<1>4. ~Held(b) /\ ~Listed(b) /\ (\A u \in Threads \ {t} : ~Passes(u, b))
  BY <1>2, <1>3 DEF PlaceOf
<1>5. /\ S \in SUBSET Bos /\ (\A c \in S : Listed(c)) /\ b \notin S
      /\ \A j \in Buckets : {list[j][i] : i \in 1..Expired(j)} = ToSet(list[j]) \cap S
  BY <1>4, ExpiredBosAre
<1> HIDE DEF S
<1>6. x \in Objects
  <2>1. bo[b] \in Objects  BY <1>2
  <2> QED  BY <2>1 DEF Objects
<1>7. /\ x.kind = bo[b].kind /\ x.size = bo[b].size /\ x.sparse = bo[b].sparse
      /\ x.reuse = bo[b].reuse /\ x.name = bo[b].name /\ x.map = bo[b].map
      /\ x.mmapRef = bo[b].mmapRef /\ x.ref = bo[b].ref
  BY <1>2 DEF Objects
<1> HIDE DEF x
<1>8. f \in [Bos -> Objects] /\ f[b] = x /\ (\A c \in Bos \ {b} : f[c] = bo[c])
  BY <1>2, <1>6
<1> HIDE DEF f
<1>9. /\ CallTypes' /\ pc'[t] = "idle" /\ arg'[t] = None /\ want'[t] = Nobody
      /\ (\A u \in Threads \ {t} : SameCall(u) /\ want'[u] = want[u])
  BY <1>2, ReturnIs
<1>10. /\ bo' \in [Bos -> Objects] /\ (\A c \in S : bo'[c] = NoBo)
       /\ (\A c \in Bos \ S : bo'[c] = f[c]) /\ MmapInv' /\ TablesAreExact'
       /\ mmapList' \in Seq(Bos) /\ mmaps' \in [Buckets -> Int] /\ mmapTime' = mmapTime
       /\ nameTable' \in [Names -> Bos \cup {None}] /\ handleTable' \subseteq Bos /\ busy' \subseteq Bos
  <2>1. \A u \in Threads : pc[u] = "registering" => SameCall(u)  BY <1>9
  <2>2. \A c \in Bos \ S : /\ f[c].kind = bo[c].kind /\ f[c].name = bo[c].name
                           /\ f[c].size = bo[c].size /\ f[c].sparse = bo[c].sparse
                           /\ f[c].map = bo[c].map
    BY <1>7, <1>8
  <2> QED  BY <1>1, <1>5, <1>8, <2>1, <2>2, FreeBosIs
<1>11. \A j \in Buckets :
         /\ left[j] \in Seq(Bos) /\ IsInjective(left[j]) /\ ToSet(left[j]) = ToSet(list[j]) \ S
         /\ Len(left[j]) = entries[j] - Expired(j)
  <2> TAKE j \in Buckets
  <2>1. list[j] \in Seq(Bos) /\ IsInjective(list[j]) /\ entries[j] = Len(list[j])
    BY <1>2 DEF ListInv
  <2>2. Expired(j) \in 0..Len(list[j])  BY <2>1, ExpiredIs
  <2>3. left[j] = SubSeq(list[j], Expired(j) + 1, Len(list[j]))  OBVIOUS
  <2> HIDE DEF left
  <2>4. /\ left[j] \in Seq(Bos) /\ IsInjective(left[j])
        /\ ToSet(left[j]) = ToSet(list[j]) \ {list[j][i] : i \in 1..Expired(j)}
        /\ Len(left[j]) = Len(list[j]) - Expired(j)
    <3> DEFINE s == list[j]
               n == Expired(j)
    <3>1. s \in Seq(Bos) /\ IsInjective(s) /\ n \in 0..Len(s) /\ left[j] = SubSeq(s, n + 1, Len(s))
      BY <2>1, <2>2, <2>3
    <3> HIDE DEF s, n
    <3>2. /\ SubSeq(s, n + 1, Len(s)) \in Seq(Bos) /\ IsInjective(SubSeq(s, n + 1, Len(s)))
          /\ ToSet(SubSeq(s, n + 1, Len(s))) = ToSet(s) \ {s[i] : i \in 1..n}
          /\ Len(SubSeq(s, n + 1, Len(s))) = Len(s) - n
      BY <3>1, DropIs
    <3> QED  BY <3>1, <3>2 DEF s, n
  <2> QED  BY <1>5, <2>1, <2>4
<1>12. DOMAIN left = Buckets /\ left = [j \in Buckets |-> left[j]]  OBVIOUS
<1> HIDE DEF left
<1>13. b \notin ToSet(left[k])
  <2>1. b \notin ToSet(list[k])  BY <1>2, <1>4, ListedIs
  <2> QED  BY <1>11, <2>1
<1>14. /\ Append(left[k], b) \in Seq(Bos) /\ IsInjective(Append(left[k], b))
       /\ ToSet(Append(left[k], b)) = ToSet(left[k]) \cup {b}
       /\ Len(Append(left[k], b)) = Len(left[k]) + 1
  BY <1>11, <1>13, AppendIs
<1>15. list'[k] = Append(left[k], b) /\ (\A j \in Buckets \ {k} : list'[j] = left[j])
  BY <1>1, <1>12
<1>16. list' \in [Buckets -> Seq(Bos)]
  <2>1. \A j \in Buckets : list'[j] \in Seq(Bos)  BY <1>11, <1>14, <1>15
  <2>2. list' = [j \in Buckets |-> list'[j]]  BY <1>1, <1>12
  <2> QED  BY <2>1, <2>2
<1>17. \A j \in Buckets : entries'[j] = entries[j] - Expired(j) + (IF j = k THEN 1 ELSE 0)
  BY <1>1
<1>18. \A j \in Buckets : entries[j] - Expired(j) = Len(left[j]) /\ Len(left[j]) \in Nat
  BY <1>11, ListIs
<1> DEFINE L == [j \in Buckets |-> (ToSet(list[j]) \ S) \cup (IF j = k THEN {b} ELSE {})]
<1>19. \A j \in Buckets : L[j] = (ToSet(list[j]) \ S) \cup (IF j = k THEN {b} ELSE {})
  OBVIOUS
<1> HIDE DEF L
<1>20. ListsAre(L)
  <2>1. IsInjective(list'[k]) /\ entries'[k] = Len(list'[k]) /\ ToSet(list'[k]) = L[k]
    BY <1>11, <1>14, <1>15, <1>17, <1>18, <1>19
  <2>2. \A j \in Buckets \ {k} : /\ IsInjective(list'[j]) /\ entries'[j] = Len(list'[j])
                                 /\ ToSet(list'[j]) = L[j]
    <3> TAKE j \in Buckets \ {k}
    <3>1. list'[j] = left[j] /\ IsInjective(left[j]) /\ ToSet(left[j]) = ToSet(list[j]) \ S
      BY <1>11, <1>15
    <3>2. L[j] = ToSet(list[j]) \ S  BY <1>19
    <3>3. entries'[j] = Len(left[j])  BY <1>17, <1>18
    <3> QED  BY <3>1, <3>2, <3>3
  <2> QED  BY <1>16, <2>1, <2>2 DEF ListsAre
<1>21. /\ bo'[b].kind = bo[b].kind /\ bo'[b].size = bo[b].size /\ bo'[b].sparse = bo[b].sparse
       /\ bo'[b].reuse = bo[b].reuse /\ bo'[b].ref = bo[b].ref /\ bo'[b].mmapRef = bo[b].mmapRef
  BY <1>5, <1>7, <1>8, <1>10
<1>22. Bucket(b)' = k  BY <1>21, SameBucket
<1>23. \A c \in Bos \ (S \cup {b}) : bo'[c] = bo[c] /\ Bucket(c)' = Bucket(c)
  <2>1. \A c \in Bos \ (S \cup {b}) : bo'[c] = bo[c]  BY <1>8, <1>10
  <2> QED  BY <2>1, SameBucket
<1>24. \A j \in Buckets : ToSet(list[j]) \subseteq Bos /\ b \notin ToSet(list[j])
  BY <1>2, <1>4, ListIs, ListedIs
<1>25. \A j \in Buckets : \A c \in L[j] : bo'[c].kind = "own" /\ Bucket(c)' = j /\ bo'[c].ref = 0
  <2> SUFFICES ASSUME NEW j \in Buckets, NEW c \in L[j]
               PROVE  bo'[c].kind = "own" /\ Bucket(c)' = j /\ bo'[c].ref = 0
    OBVIOUS
  <2>1. CASE c = b
    <3>1. j = k  BY <1>19, <1>24, <2>1
    <3>2. bo'[b].kind = "own" /\ bo'[b].ref = 0 /\ Bucket(b)' = j  BY <1>3, <1>21, <1>22, <3>1
    <3>3. Bucket(c)' = Bucket(b)'  BY <2>1
    <3> QED  BY <2>1, <3>2, <3>3
  <2>2. CASE c # b
    <3>1. c \in ToSet(list[j]) /\ c \notin S /\ c \in Bos  BY <1>19, <1>24, <2>2
    <3> QED  BY <1>2, <1>23, <2>2, <3>1 DEF ListInv
  <2> QED  BY <2>1, <2>2
<1>26. ListInv' /\ \A c : Listed(c)' <=> \E j \in Buckets : c \in L[j]
  BY <1>20, <1>25, NewLists
<1>27. TypeInv'
  <2>1. \A j \in Buckets : entries'[j] \in Int  BY <1>17, <1>18
  <2>2. entries' \in [Buckets -> Int]
    <3>1. entries' = [j \in Buckets |-> entries'[j]]  BY <1>1
    <3> QED  BY <2>1, <3>1
  <2> QED  BY <1>1, <1>2, <1>9, <1>10, <1>16, <2>2 DEF TypeInv, DataTypes
<1>28. OnlyCall(t)  BY <1>9 DEF OnlyCall
<1>29. Unused(t, b)  BY <1>4 DEF Unused
<1>30. Freed(t, S)
  <2> SUFFICES ASSUME NEW c \in S
               PROVE  bo'[c] = NoBo /\ app'[c] = app[c] /\ ~Listed(c)' /\ Unused(t, c)
    BY DEF Freed
  <2>1. ~Held(c) /\ (\A u \in Threads : ~Passes(u, c))  BY <1>5, ListedBo
  <2>2. ~Listed(c)'  BY <1>5, <1>19, <1>26
  <2> QED  BY <1>10, <2>1, <2>2 DEF Unused
<1>31. Others(S, b)
  <2>1. \A c \in Bos \ (S \cup {b}) : SameBo(c)
    BY <1>23 DEF SameBo, SameIdentity, SameUse, FreeStays
  <2>2. \A c \in Bos \ (S \cup {b}) : Listed(c)' <=> Listed(c)
    BY <1>2, <1>19, <1>26, ListedIs
  <2> QED  BY <2>1, <2>2 DEF Others
<1>32. Listed(b)' /\ ~Held(b)'
  <2>1. b \in L[k]  BY <1>19
  <2> QED  BY <1>4, <1>26, <2>1 DEF Held
<1>33. PlaceOf(b)'
  <2>1. \A u \in Threads : ~Passes(u, b)'  BY <1>3, <1>4, <1>9 DEF SameCall, Passes
  <2>2. bo'[b].kind # "free"  BY <1>21
  <2> QED  BY <1>32, <2>1, <2>2 DEF PlaceOf
<1>34. RefOf(b)'  BY <1>2, <1>21, <1>32 DEF RefOf
<1>35. SizeOfBo(b)'
  <2>1. bo[b].size = k[1] /\ Bucket(b)' = k
    <3>1. bo[b].kind = "own" /\ Bucket(b) # None /\ Bucket(b) = k  OBVIOUS
    <3> QED  BY <1>2, <1>22, <3>1 DEF SizeOfBo
  <2> QED  BY <1>21, <1>32, <2>1 DEF SizeOfBo
<1>36. CallOf(t)' /\ SizeOfCall(t)'
  <2>1. Nobody.maps = 0  BY DEF Nobody
  <2> QED  BY <1>9, <2>1, IdleCall
<1> QED
  BY <1>5, <1>9, <1>10, <1>26, <1>27, <1>28, <1>29, <1>30, <1>31, <1>33, <1>34, <1>35, <1>36, ListStep

LEMMA ReleaseKeeps ==
  ASSUME IInv, Ruled, NEW t \in Threads, Release(t)
  PROVE  IInv'
<1>1. pc[t] = "releasing" /\ (\A u \in Threads \ {t} : pc[u] \notin FlushSteps)
  BY AtIs DEF Release
<1>2. PICK b \in Bos : b = arg[t]
  <2>1. CallOf(t) /\ CallTypes  BY InvIs
  <2> QED  BY <1>1, <2>1 DEF CallOf, CallTypes
<1>3. /\ Return(t) /\ UNCHANGED app
      /\ \/ bo[b].reuse /\ Bucket(b) # None /\ CacheFree(b)
         \/ FreeBos({b}, bo) /\ UNCHANGED cacheVars
  <2>1. Return(t) /\ UNCHANGED app  BY DEF Release
  <2>2. IF bo[b].reuse /\ Bucket(b) # None THEN CacheFree(b)
        ELSE FreeBos({b}, bo) /\ UNCHANGED cacheVars
    BY <1>2, Zenon DEF Release
  <2> QED  BY <2>1, <2>2, Zenon
<1>4. CASE bo[b].reuse /\ Bucket(b) # None /\ CacheFree(b)
  <2>1. TypeInv /\ RefOf(b)  BY InvIs
  <2>2. bo[b].kind = "own"  BY <1>4, <2>1 DEF RefOf
  <2>3. PICK k \in Buckets : Bucket(b) = k /\ k # None  BY <1>4, <2>1, BucketOfBo
  <2> QED  BY <1>1, <1>2, <1>3, <1>4, <2>2, <2>3, CacheFreeKeeps
<1>5. CASE FreeBos({b}, bo) /\ UNCHANGED cacheVars
  <2>1. /\ TypeInv /\ DataTypes /\ CallTypes /\ ListInv /\ PlaceOf(b) /\ bo \in [Bos -> Objects]
    BY InvIs DEF DataTypes
  <2>2. Passes(t, b)  BY <1>1, <1>2 DEF Passes
  <2>3. ~Held(b) /\ ~Listed(b) /\ Unused(t, b)  BY <2>1, <2>2 DEF PlaceOf, Unused
  <2>4. /\ CallTypes' /\ pc'[t] = "idle" /\ arg'[t] = None /\ want'[t] = Nobody
        /\ (\A u \in Threads \ {t} : SameCall(u) /\ want'[u] = want[u])
    BY <1>3, <2>1, ReturnIs
  <2>5. /\ bo' \in [Bos -> Objects] /\ (\A c \in {b} : bo'[c] = NoBo)
        /\ (\A c \in Bos \ {b} : bo'[c] = bo[c]) /\ MmapInv' /\ TablesAreExact'
        /\ mmapList' \in Seq(Bos) /\ mmaps' \in [Buckets -> Int] /\ mmapTime' = mmapTime
        /\ nameTable' \in [Names -> Bos \cup {None}] /\ handleTable' \subseteq Bos /\ busy' \subseteq Bos
    <3>1. \A u \in Threads : pc[u] = "registering" => SameCall(u)  BY <1>1, <2>4
    <3> QED  BY <1>5, <2>1, <3>1, FreeBosIs
  <2>6. list' = list /\ entries' = entries /\ cacheTime' = cacheTime  BY <1>5 DEF cacheVars
  <2>7. TypeInv'  BY <1>3, <2>1, <2>4, <2>5, <2>6 DEF TypeInv, DataTypes
  <2>8. \A c : Listed(c)' <=> Listed(c)  BY <2>6, SameLists
  <2>9. \A c \in Bos \ {b} : SameBo(c)
    BY <2>5 DEF SameBo, SameIdentity, SameUse, FreeStays
  <2>10. ListInv'
    <3>1. \A c \in Bos : Listed(c) => SameIdentity(c) /\ bo'[c].ref = bo[c].ref
      BY <2>3, <2>5 DEF SameIdentity
    <3> QED  BY <2>1, <2>6, <3>1, ListKept
  <2>11. OnlyCall(t)  BY <1>1, <2>4 DEF OnlyCall
  <2>12. Freed(t, {b}) /\ Others({b}, b)
    BY <1>3, <2>3, <2>5, <2>8, <2>9 DEF Freed, Others
  <2>13. CallOf(t)' /\ SizeOfCall(t)'
    <3>1. Nobody.maps = 0  BY DEF Nobody
    <3> QED  BY <2>4, <3>1, IdleCall
  <2> QED
    BY <1>2, <2>3, <2>4, <2>5, <2>7, <2>10, <2>11, <2>12, <2>13, ListStep
<1> QED  BY <1>3, <1>4, <1>5

LEMMA NewFromCacheKeeps ==
  ASSUME IInv, Ruled, NEW t \in Threads, NewFromCache(t)
  PROVE  IInv'
<1>1. pc[t] = "idle" /\ (\A u \in Threads \ {t} : pc[u] \notin FlushSteps)
  BY AtIs DEF NewFromCache
<1> DEFINE K(r) == BucketOf(r.size, r.sparse)
<1>2. PICK r \in Requests :
        /\ Hit(K(r))
        /\ list' = [list EXCEPT ![K(r)] = Tail(@)] /\ entries' = [entries EXCEPT ![K(r)] = @ - 1]
        /\ Reset(Head(list[K(r)]), 1)
        /\ app' = [app EXCEPT ![Head(list[K(r)])] = [refs |-> 1, maps |-> 0, size |-> r.size,
                                                     sparse |-> r.sparse]]
  BY DEF NewFromCache
<1>3. UNCHANGED <<cacheTime, tableVars, busy, pc, arg, want>>  BY DEF NewFromCache
<1>4. r.size \in Nat /\ r.sparse \in BOOLEAN  BY Constants
<1>5. PICK k \in Buckets :
        /\ k = K(r) /\ k # None /\ list[k] # <<>>
        /\ k[1] >= r.size /\ (k[2] <=> (r.sparse /\ SparseKernel))
  <2>1. K(r) # None /\ list[K(r)] # <<>>  BY <1>2 DEF Hit
  <2> QED  BY <1>4, <2>1, BucketIs
<1> HIDE DEF K
<1>6. /\ TypeInv /\ DataTypes /\ CallTypes /\ ListInv /\ MmapInv /\ TablesAreExact
      /\ CallOf(t) /\ SizeOfCall(t) /\ want[t].maps = 0
      /\ bo \in [Bos -> Objects] /\ app \in [Bos -> Holds]
      /\ list \in [Buckets -> Seq(Bos)] /\ entries \in [Buckets -> Int]
  BY InvIs DEF DataTypes
<1>7. PICK b \in Bos : b = Head(list[k]) /\ b \in ToSet(list[k]) /\ Listed(b)
  BY <1>5, <1>6, HeadIsListed
<1>8. /\ bo[b].kind = "own" /\ bo[b].ref = 0 /\ ~Held(b) /\ (\A u \in Threads : ~Passes(u, b))
      /\ Bucket(b) = k /\ (\A j \in Buckets : b \in ToSet(list[j]) => j = k)
  BY <1>5, <1>7, ListedBo
<1>9. PlaceOf(b) /\ RefOf(b) /\ SizeOfBo(b) /\ bo[b] \in Objects  BY InvIs
<1> DEFINE x == [bo[b] EXCEPT !.ref = 1, !.mmapRef = 0, !.freeAge = 0]
           y == [refs |-> 1, maps |-> 0, size |-> r.size, sparse |-> r.sparse]
<1>10. /\ list' = [list EXCEPT ![k] = Tail(@)] /\ entries' = [entries EXCEPT ![k] = @ - 1]
       /\ Reset(b, 1) /\ app' = [app EXCEPT ![b] = y]
  BY <1>2, <1>5, <1>7
<1>11. /\ y \in Holds /\ y.refs = 1 /\ y.maps = 0 /\ y.size = r.size /\ y.sparse = r.sparse
  BY <1>4 DEF Holds
<1>12. IF bo[b].map = "mapped" THEN UnmapToCache(b, [bo EXCEPT ![b] = x])
       ELSE bo' = [bo EXCEPT ![b] = x] /\ UNCHANGED mmapVars
  <2>1. [bo EXCEPT ![b].ref = 1, ![b].mmapRef = 0, ![b].freeAge = 0] = [bo EXCEPT ![b] = x]
    BY <1>6
  <2>2. IF bo[b].map = "mapped"
        THEN UnmapToCache(b, [bo EXCEPT ![b].ref = 1, ![b].mmapRef = 0, ![b].freeAge = 0])
        ELSE bo' = [bo EXCEPT ![b].ref = 1, ![b].mmapRef = 0, ![b].freeAge = 0] /\ UNCHANGED mmapVars
    BY <1>10 DEF Reset
  <2> HIDE DEF x
  <2> QED  BY <2>1, <2>2
<1>13. x \in Objects  BY <1>9 DEF Objects
<1>14. /\ x.kind = bo[b].kind /\ x.size = bo[b].size /\ x.sparse = bo[b].sparse
       /\ x.reuse = bo[b].reuse /\ x.name = bo[b].name /\ x.map = bo[b].map
       /\ x.mmapRef = 0 /\ x.ref = 1
  BY <1>9 DEF Objects
<1> HIDE DEF x, y
<1>15. /\ bo' \in [Bos -> Objects] /\ (\A c \in Bos \ {b} : SameBo(c)) /\ MmapInv'
       /\ mmapList' \in Seq(Bos) /\ mmaps' \in [Buckets -> Int] /\ mmapTime' \in {"now", "earlier"}
       /\ bo'[b].kind = bo[b].kind /\ bo'[b].size = bo[b].size /\ bo'[b].sparse = bo[b].sparse
       /\ bo'[b].reuse = bo[b].reuse /\ bo'[b].name = bo[b].name /\ bo'[b].map # "mapped"
       /\ bo'[b].mmapRef = 0 /\ bo'[b].ref = 1
  <2>1. CASE bo[b].map = "mapped"
    <3>1. UnmapToCache(b, [bo EXCEPT ![b] = x])  BY <1>12, <2>1
    <3>2. /\ bo' \in [Bos -> Objects] /\ bo'[b] = [x EXCEPT !.map = "cached", !.unmapAge = 0]
          /\ (\A c \in Bos \ {b} : SameBo(c)) /\ MmapInv'
          /\ mmapList' \in Seq(Bos) /\ mmaps' \in [Buckets -> Int] /\ mmapTime' = "now"
      BY <1>13, <1>14, <2>1, <3>1, UnmapToCacheIs
    <3> DEFINE z == [x EXCEPT !.map = "cached", !.unmapAge = 0]
    <3>3. /\ z.kind = x.kind /\ z.size = x.size /\ z.sparse = x.sparse /\ z.reuse = x.reuse
          /\ z.name = x.name /\ z.map = "cached" /\ z.mmapRef = x.mmapRef /\ z.ref = x.ref
      BY <1>13 DEF Objects
    <3>4. bo'[b] = z  BY <3>2
    <3> HIDE DEF z
    <3> QED  BY <1>14, <3>2, <3>3, <3>4
  <2>2. CASE bo[b].map # "mapped"
    <3>1. bo' = [bo EXCEPT ![b] = x] /\ UNCHANGED <<mmapList, mmaps, mmapTime>>
      BY <1>12, <2>2 DEF mmapVars
    <3>2. bo' \in [Bos -> Objects] /\ bo'[b] = x /\ \A c \in Bos \ {b} : SameBo(c) /\ bo'[c] = bo[c]
      BY <1>6, <1>13, <3>1, BoChange
    <3>3. MmapInv'
      <4>1. \A c \in Bos : /\ bo'[c].map = "cached" <=> bo[c].map = "cached"
                           /\ bo'[c].size = bo[c].size /\ bo'[c].sparse = bo[c].sparse
        BY <1>14, <3>2
      <4> QED  BY <1>6, <3>1, <4>1, MappingsKept
    <3> QED  BY <1>6, <1>14, <2>2, <3>1, <3>2, <3>3 DEF DataTypes
  <2> QED  BY <2>1, <2>2
<1>16. /\ app' \in [Bos -> Holds] /\ app'[b] = y /\ \A c \in Bos \ {b} : app'[c] = app[c]
  BY <1>6, <1>10, <1>11, AppChange
<1>17. /\ Tail(list[k]) \in Seq(Bos) /\ IsInjective(Tail(list[k]))
       /\ ToSet(Tail(list[k])) = ToSet(list[k]) \ {b} /\ Len(Tail(list[k])) = Len(list[k]) - 1
  <2>1. list[k] \in Seq(Bos) /\ IsInjective(list[k])  BY <1>6 DEF ListInv
  <2> QED  BY <1>5, <1>7, <2>1, TailIs
<1>18. /\ list' \in [Buckets -> Seq(Bos)] /\ list'[k] = Tail(list[k])
       /\ (\A j \in Buckets \ {k} : list'[j] = list[j] /\ entries'[j] = entries[j])
       /\ entries'[k] = entries[k] - 1 /\ entries' \in [Buckets -> Int]
  BY <1>6, <1>10, <1>17
<1> DEFINE L == [j \in Buckets |-> ToSet(list[j]) \ {b}]
<1>19. ListsAre(L)
  <2>1. IsInjective(list'[k]) /\ entries'[k] = Len(list'[k]) /\ ToSet(list'[k]) = L[k]
    BY <1>6, <1>17, <1>18 DEF ListInv
  <2>2. \A j \in Buckets \ {k} : /\ IsInjective(list'[j]) /\ entries'[j] = Len(list'[j])
                                 /\ ToSet(list'[j]) = L[j]
    BY <1>6, <1>8, <1>18 DEF ListInv
  <2> QED  BY <1>18, <2>1, <2>2 DEF ListsAre
<1>20. \A j \in Buckets : \A c \in L[j] : c \in Bos /\ c # b /\ c \in ToSet(list[j])
  <2>1. \A j \in Buckets : ToSet(list[j]) \subseteq Bos  BY <1>6, ListIs
  <2> QED  BY <2>1
<1>21. \A j \in Buckets : L[j] = ToSet(list[j]) \ {b}  OBVIOUS
<1> HIDE DEF L
<1>22. \A j \in Buckets : \A c \in L[j] : bo'[c].kind = "own" /\ Bucket(c)' = j /\ bo'[c].ref = 0
  <2>1. \A c \in Bos \ {b} : /\ bo'[c].kind = bo[c].kind /\ bo'[c].ref = bo[c].ref
                             /\ Bucket(c)' = Bucket(c)
    BY <1>15, SameBucket DEF SameBo, SameIdentity, SameUse
  <2>2. \A j \in Buckets : \A c \in L[j] :
          c \in Bos \ {b} /\ bo[c].kind = "own" /\ Bucket(c) = j /\ bo[c].ref = 0
    BY <1>6, <1>20 DEF ListInv
  <2> QED  BY <2>1, <2>2
<1>23. ListInv' /\ \A c : Listed(c)' <=> \E j \in Buckets : c \in L[j]
  BY <1>19, <1>22, NewLists
<1>24. CallTypes' /\ \A u \in Threads : SameCall(u) /\ want'[u] = want[u]  BY <1>3, <1>6, NoCall
<1>25. TypeInv'
  BY <1>3, <1>6, <1>15, <1>16, <1>18, <1>24 DEF TypeInv, DataTypes, tableVars
<1>26. OnlyCall(t)  BY <1>1, <1>24 DEF OnlyCall
<1>27. Freed(t, {}) /\ Unused(t, b)  BY <1>8 DEF Freed, Unused
<1>28. Others({}, b)
  <2>1. \A c \in Bos \ {b} : Listed(c)' <=> Listed(c)  BY <1>6, <1>21, <1>23, ListedIs
  <2> QED  BY <1>15, <1>16, <2>1 DEF Others
<1>29. Held(b)' /\ ~Listed(b)'
  <2>1. Held(b)'  BY <1>11, <1>16 DEF Held
  <2> QED  BY <1>21, <1>23, <2>1
<1>30. PlaceOf(b)'
  <2>1. \A u \in Threads : ~Passes(u, b)'  BY <1>8, <1>24 DEF SameCall, Passes
  <2>2. bo'[b].kind # "free"  BY <1>8, <1>15
  <2> QED  BY <1>29, <2>1, <2>2 DEF PlaceOf
<1>31. RefOf(b)'
  <2>1. 1 <= MaxRefs /\ 0 <= MaxRefs  BY Constants
  <2> QED  BY <1>9, <1>11, <1>15, <1>16, <2>1 DEF RefOf
<1>32. SizeOfBo(b)'
  <2>1. Bucket(b)' = k  BY <1>8, <1>15, SameBucket
  <2>2. bo[b].size = k[1]  BY <1>5, <1>8, <1>9 DEF SizeOfBo
  <2>3. SparseKernel => bo[b].sparse = r.sparse
    <3>1. bo[b].size \in Nat /\ bo[b].sparse \in BOOLEAN  BY <1>9 DEF Objects
    <3>2. k[2] <=> (bo[b].sparse /\ SparseKernel)
      BY <1>5, <1>8, <3>1, BucketIs DEF Bucket
    <3> QED  BY <1>4, <1>5, <3>1, <3>2
  <2> QED  BY <1>5, <1>11, <1>15, <1>16, <2>1, <2>2, <2>3 DEF SizeOfBo
<1>33. arg[t] = None /\ arg'[t] = None /\ pc'[t] = "idle" /\ want'[t].maps = 0
  BY <1>1, <1>3, <1>6 DEF CallOf
<1>34. CallOf(t)' /\ SizeOfCall(t)'  BY <1>33, IdleCall
<1>35. TablesAreExact'
  <2>1. \A c \in Bos : bo'[c].kind = bo[c].kind /\ bo'[c].name = bo[c].name
    BY <1>15 DEF SameBo, SameIdentity
  <2>2. UNCHANGED <<handleTable, nameTable>> /\ handleTable \subseteq Bos
    BY <1>3, InvIs DEF tableVars
  <2> QED  BY <1>6, <1>24, <2>1, <2>2, TablesKept
<1> QED
  BY <1>15, <1>23, <1>25, <1>26, <1>27, <1>28, <1>30, <1>31, <1>32, <1>33, <1>34, <1>35, ListStep

-----------------------------------------------------------------------------
(* The invariant holds, and says what the properties say.                  *)

LEMMA InitInv == Init => IInv
<1> SUFFICES ASSUME Init PROVE IInv  OBVIOUS
<1>1. /\ bo = [b \in Bos |-> NoBo] /\ list = [k \in Buckets |-> <<>>]
      /\ entries = [k \in Buckets |-> 0] /\ mmaps = [k \in Buckets |-> 0] /\ mmapList = <<>>
      /\ cacheTime = "zero" /\ mmapTime = "earlier" /\ handleTable = {}
      /\ nameTable = [n \in Names |-> None] /\ busy = {} /\ app = [b \in Bos |-> Nobody]
      /\ pc = [t \in Threads |-> "idle"] /\ arg = [t \in Threads |-> None]
      /\ want = [t \in Threads |-> Nobody]
  BY DEF Init
<1>2. NoBo \in Objects /\ Nobody \in Holds
  <2>1. FALSE \in BOOLEAN  OBVIOUS
  <2> QED  BY <2>1 DEF NoBo, Objects, Nobody, Holds
<1>3. TypeInv
  <2>1. \A T : <<>> \in Seq(T)  BY EmptySeq
  <2>2. list \in [Buckets -> Seq(Bos)] /\ mmapList \in Seq(Bos)  BY <1>1, <2>1
  <2>3. entries \in [Buckets -> Int] /\ mmaps \in [Buckets -> Int]  BY <1>1
  <2>4. bo \in [Bos -> Objects] /\ app \in [Bos -> Holds]  BY <1>1, <1>2
  <2>5. CallTypes  BY <1>1, <1>2 DEF CallTypes, Steps
  <2> QED  BY <1>1, <2>2, <2>3, <2>4, <2>5 DEF TypeInv, DataTypes
<1>4. \A b \in Bos : bo[b] = NoBo /\ ~Held(b) /\ app[b].refs = 0 /\ app[b].maps = 0 /\ ~Listed(b)
  <2>1. \A b : ~Listed(b)
    <3>1. \A k \in Buckets : DOMAIN list[k] = {}  BY <1>1
    <3> QED  BY <3>1 DEF Listed
  <2> QED  BY <1>1, <2>1 DEF Held, Nobody
<1>5. /\ NoBo.kind = "free" /\ NoBo.map = "none" /\ NoBo.name = None /\ NoBo.mmapRef = 0
      /\ NoBo.reuse = FALSE
  BY DEF NoBo
<1>6. \A t \in Threads : pc[t] = "idle" /\ arg[t] = None /\ want[t].maps = 0
  BY <1>1 DEF Nobody
<1>7. PlaceInv  BY <1>4, <1>5, <1>6, Constants DEF PlaceInv, PlaceOf, Passes
<1>8. ListInv
  <2>1. \A k \in Buckets : list[k] = <<>> /\ entries[k] = 0  BY <1>1
  <2>2. Len(<<>>) = 0  OBVIOUS
  <2> QED  BY <2>1, <2>2, EmptyList DEF ListInv
<1>9. CallInv  BY <1>6 DEF CallInv, CallOf
<1>10. RefInv  BY <1>4, <1>5, Constants DEF RefInv, RefOf
<1>11. MmapInv
  <2>1. \A k \in Buckets : mmaps[k] = 0 /\ MappingsOf(k) = {}
    BY <1>1, <1>4, <1>5 DEF MappingsOf, InMmapCache
  <2>2. \A b \in Bos : ~InMmapCache(b)  BY <1>4, <1>5 DEF InMmapCache
  <2> QED  BY <1>1, <2>1, <2>2, EmptyList, FS_EmptySet DEF MmapInv
<1>12. TablesAreExact
  <2>1. \A n \in Names, b \in Bos : nameTable[n] = b <=> bo[b].name = n
    BY <1>1, <1>4, <1>5, Constants
  <2> QED  BY <1>1, <1>4, <1>5, <2>1 DEF TablesAreExact
<1>13. SizeInv  BY <1>4, <1>5, <1>6 DEF SizeInv, SizeOfBo, SizeOfCall, FlushSteps
<1>14. FlushInv  BY <1>6 DEF FlushInv, FlushSteps
<1> QED  BY <1>3, <1>7, <1>8, <1>9, <1>10, <1>11, <1>12, <1>13, <1>14 DEF IInv

LEMMA NextKeeps ==
  ASSUME Ruled, IInv, [Next]_vars
  PROVE  IInv'
<1>1. ASSUME NEW t \in Threads,
             \/ NewFromCache(t) \/ NewMiss(t) \/ Create(t) \/ CreateFail(t) \/ Register(t)
             \/ FlushTake(t) \/ FlushFree(t) \/ FlushEnd(t) \/ Release(t) \/ InsertName(t) \/ Forbid(t)
      PROVE  IInv'
  BY <1>1, NewFromCacheKeeps, NewMissKeeps, CreateKeeps, CreateFailKeeps, RegisterKeeps,
     FlushTakeKeeps, FlushFreeKeeps, FlushEndKeeps, ReleaseKeeps, InsertNameKeeps, ForbidKeeps
<1>2. ASSUME NEW t \in Threads, NEW b \in Bos,
             Ref(t, b) \/ Unref(t, b) \/ Map(t, b) \/ Unmap(t, b) \/ GetName(t, b)
      PROVE  IInv'
  BY <1>2, RefKeeps, UnrefKeeps, MapKeeps, UnmapKeeps, GetNameKeeps
<1>3. ASSUME NEW t \in Threads, NEW n \in Names, FromName(t, n) PROVE IInv'
  BY <1>3, FromNameKeeps
<1>4. ASSUME NEW b \in Bos, Finish(b) PROVE IInv'  BY <1>4, FinishKeeps
<1>5. ASSUME Tick PROVE IInv'  BY <1>5, TickKeeps
<1>6. ASSUME UNCHANGED vars PROVE IInv'  BY <1>6, StutterKeeps
<1> QED  BY <1>1, <1>2, <1>3, <1>4, <1>5, <1>6 DEF Next

\* Every reachable state of the caches satisfies the invariant, if the application
\* does not run calls beside a failed create and does not open a name twice.
THEOREM CacheInvariance ==
  ASSUME Ruled
  PROVE  Spec => []IInv
<1>1. Init => IInv  BY InitInv
<1>2. IInv /\ [Next]_vars => IInv'  BY NextKeeps
<1> QED  BY <1>1, <1>2, PTL DEF Spec

LEMMA TypeHolds ==
  ASSUME IInv
  PROVE  TypeOK
<1>1. DataTypes /\ CallTypes /\ MmapInv /\ ListInv  BY InvIs
<1>2. MaxRefs \in Nat /\ MaxRefs > 0 /\ Cardinality(Threads) \in Nat
  BY Constants, FS_CardinalityType
<1>3. ASSUME NEW b \in Bos
      PROVE  /\ bo[b].kind \in {"free", "own", "opened"}
             /\ bo[b].ref \in 0..(MaxRefs + Cardinality(Threads)) /\ bo[b].mmapRef \in 0..MaxRefs
             /\ bo[b].map \in {"none", "mapped", "cached"}
             /\ bo[b].name \in Names \cup {None}
             /\ app[b].refs \in 0..MaxRefs /\ app[b].maps \in 0..MaxRefs
  <2>1. bo[b] \in Objects /\ app[b] \in Holds /\ RefOf(b) /\ PlaceOf(b)  BY InvIs
  <2>2. bo[b].ref <= MaxRefs
    <3>1. bo[b].kind = "free" => bo[b].ref = 0  BY <2>1 DEF PlaceOf, NoBo
    <3>2. Held(b) => bo[b].ref <= MaxRefs  BY <2>1 DEF RefOf
    <3>3. Listed(b) => bo[b].ref = 0  BY ListedBo
    <3>4. ASSUME NEW t \in Threads, Passes(t, b) PROVE bo[b].ref \in {0, 1}
      <4>1. CallOf(t)  BY InvIs
      <4> QED  BY <3>4, <4>1 DEF Passes, CallOf
    <3> QED  BY <1>2, <2>1, <3>1, <3>2, <3>3, <3>4 DEF PlaceOf
  <2>3. bo[b].ref \in Nat /\ bo[b].mmapRef \in Nat /\ app[b].refs \in Nat /\ app[b].maps \in Nat
    BY <2>1 DEF Objects, Holds
  <2>4. bo[b].mmapRef <= MaxRefs /\ app[b].refs <= MaxRefs /\ app[b].maps <= MaxRefs
    BY <2>1 DEF RefOf
  <2>5. bo[b].ref <= MaxRefs + Cardinality(Threads)  BY <1>2, <2>2, <2>3
  <2> QED  BY <1>2, <2>1, <2>3, <2>4, <2>5 DEF Objects
<1>4. ASSUME NEW k \in Buckets PROVE list[k] \in Seq(Bos) /\ entries[k] \in Nat /\ mmaps[k] \in Nat
  <2>1. list[k] \in Seq(Bos) /\ entries[k] = Len(list[k]) /\ mmaps[k] = Cardinality(MappingsOf(k))
    BY <1>1 DEF DataTypes, ListInv, MmapInv
  <2>2. MappingsOf(k) \in SUBSET Bos  BY DEF MappingsOf
  <2>3. Cardinality(MappingsOf(k)) \in Nat  BY <2>2, Constants, FS_Subset, FS_CardinalityType
  <2> QED  BY <2>1, <2>3, ListIs
<1> QED  BY <1>1, <1>3, <1>4 DEF TypeOK, DataTypes, CallTypes

\* The variables have their types, and the counts of references and mappings stay
\* within what the application holds.
THEOREM CacheTypeCorrect ==
  ASSUME Ruled
  PROVE  Spec => []TypeOK
<1>1. IInv => TypeOK  BY TypeHolds
<1> QED  BY <1>1, CacheInvariance, PTL

LEMMA ListPlace ==
  ASSUME IInv, NEW b \in Bos, Listed(b)
  PROVE  \E p : {q \in Buckets \X (1..Cardinality(Bos)) :
                   q[2] \in DOMAIN list[q[1]] /\ list[q[1]][q[2]] = b} = {p}
<1> DEFINE k == Bucket(b)
           P == {q \in Buckets \X (1..Cardinality(Bos)) :
                   q[2] \in DOMAIN list[q[1]] /\ list[q[1]][q[2]] = b}
<1>1. /\ k \in Buckets /\ b \in ToSet(list[k])
      /\ (\A j \in Buckets : b \in ToSet(list[j]) => j = k)
  BY ListedBo
<1> HIDE DEF k
<1>2. \A j \in Buckets : list[j] \in Seq(Bos) /\ IsInjective(list[j])
  BY InvIs DEF DataTypes, ListInv
<1>3. \A j \in Buckets : DOMAIN list[j] = 1..Len(list[j]) /\ ToSet(list[j]) = {list[j][i] : i \in 1..Len(list[j])}
  BY <1>2, ListIs
<1>4. PICK i \in 1..Len(list[k]) : list[k][i] = b  BY <1>1, <1>3
<1>5. \A j \in 1..Len(list[k]) : list[k][j] = b => j = i  BY <1>1, <1>2, <1>4, ListIs
<1>6. i \in 1..Cardinality(Bos)
  <2>1. Cardinality(ToSet(list[k])) = Len(list[k])  BY <1>1, <1>2, ListLength
  <2>2. ToSet(list[k]) \in SUBSET Bos  BY <1>1, <1>2, ListIs
  <2>3. Cardinality(ToSet(list[k])) <= Cardinality(Bos)  BY <2>2, Constants, FS_Subset
  <2>4. Cardinality(Bos) \in Nat /\ Len(list[k]) \in Nat
    BY <1>1, <1>2, ListIs, Constants, FS_CardinalityType
  <2> QED  BY <1>4, <2>1, <2>3, <2>4
<1>7. <<k, i>> \in P  BY <1>1, <1>3, <1>4, <1>6
<1>8. \A q \in P : q = <<k, i>>
  <2> TAKE q \in P
  <2>1. q[1] \in Buckets /\ q[2] \in 1..Len(list[q[1]]) /\ list[q[1]][q[2]] = b /\ q = <<q[1], q[2]>>
    BY <1>3
  <2>2. q[1] = k  BY <1>1, <1>3, <2>1
  <2>3. q[2] = i  BY <1>5, <2>1, <2>2
  <2> QED  BY <2>1, <2>2, <2>3
<1>9. P = {<<k, i>>}
  <2> HIDE DEF P
  <2> QED  BY <1>7, <1>8
<1> QED  BY <1>9

LEMMA InOnePlaceHolds ==
  ASSUME IInv
  PROVE  InOnePlace
<1> SUFFICES ASSUME NEW b \in Bos
             PROVE  LET places == {p \in Buckets \X (1..Cardinality(Bos)) :
                                     p[2] \in DOMAIN list[p[1]] /\ list[p[1]][p[2]] = b}
                        passing == {t \in Threads : arg[t] = b /\ pc[t] \in {"registering", "releasing", "opened"}}
                    IN IF bo[b].kind = "free" THEN places = {} /\ passing = {}
                       ELSE Cardinality(places) + Cardinality(passing) + (IF app[b].refs > 0 THEN 1 ELSE 0) = 1
  BY DEF InOnePlace
<1> DEFINE places == {p \in Buckets \X (1..Cardinality(Bos)) :
                        p[2] \in DOMAIN list[p[1]] /\ list[p[1]][p[2]] = b}
           passing == {t \in Threads : arg[t] = b /\ pc[t] \in {"registering", "releasing", "opened"}}
<1>1. PlaceOf(b)  BY InvIs
<1>2. ~Listed(b) => places = {}  BY DEF Listed
<1>3. Listed(b) => \E p : places = {p}  BY ListPlace
<1>4. passing = {t \in Threads : Passes(t, b)}  BY DEF Passes
<1> HIDE DEF places, passing
<1>5. (\A t \in Threads : ~Passes(t, b)) => passing = {}  BY <1>4
<1>6. \A t \in Threads : Passes(t, b) => passing = {t}  BY <1>1, <1>4 DEF PlaceOf
<1>7. Cardinality({}) = 0 /\ \A x : Cardinality({x}) = 1  BY FS_EmptySet, FS_Singleton
<1>8. CASE bo[b].kind = "free"
  <2>1. \A t \in Threads : ~Passes(t, b)  BY <1>1, <1>8 DEF PlaceOf, Passes
  <2> QED  BY <1>1, <1>2, <1>5, <1>8, <2>1 DEF PlaceOf, places, passing
<1>9. CASE bo[b].kind # "free"
  <2>1. Cardinality(places) + Cardinality(passing) + (IF app[b].refs > 0 THEN 1 ELSE 0) = 1
    <3>1. CASE Held(b)
      <4>1. ~Listed(b) /\ (\A t \in Threads : ~Passes(t, b))  BY <1>1, <3>1 DEF PlaceOf
      <4> QED  BY <1>2, <1>5, <1>7, <3>1, <4>1 DEF Held
    <3>2. CASE Listed(b)
      <4>1. ~Held(b) /\ (\A t \in Threads : ~Passes(t, b))  BY <1>1, <3>2 DEF PlaceOf
      <4>2. Cardinality(places) = 1 /\ Cardinality(passing) = 0
        BY <1>3, <1>5, <1>7, <3>2, <4>1
      <4> QED  BY <4>1, <4>2 DEF Held
    <3>3. CASE \E t \in Threads : Passes(t, b)
      <4>1. ~Held(b) /\ ~Listed(b)  BY <1>1, <3>3 DEF PlaceOf
      <4>2. Cardinality(places) = 0 /\ Cardinality(passing) = 1
        BY <1>2, <1>6, <1>7, <3>3, <4>1
      <4> QED  BY <4>1, <4>2 DEF Held
    <3> QED  BY <1>1, <1>9, <3>1, <3>2, <3>3 DEF PlaceOf
  <2> QED  BY <1>9, <2>1 DEF places, passing
<1> QED  BY <1>8, <1>9

LEMMA CountsHold ==
  ASSUME IInv
  PROVE  CountsAreExact
<1> SUFFICES ASSUME NEW k \in Buckets
             PROVE  /\ entries[k] = Len(list[k])
                    /\ mmaps[k] = Cardinality({i \in DOMAIN mmapList : Bucket(mmapList[i]) = k})
  BY DEF CountsAreExact
<1>1. entries[k] = Len(list[k]) /\ mmaps[k] = Cardinality(MappingsOf(k))
  BY InvIs DEF ListInv, MmapInv
<1>2. mmapList \in Seq(Bos) /\ IsInjective(mmapList)
      /\ (\A b \in Bos : b \in ToSet(mmapList) <=> InMmapCache(b))
  BY InvIs DEF DataTypes, MmapInv
<1> DEFINE n == Len(mmapList)
           I == {i \in DOMAIN mmapList : Bucket(mmapList[i]) = k}
           f == [i \in I |-> mmapList[i]]
           M == MappingsOf(k)
<1>3. /\ n \in Nat /\ DOMAIN mmapList = 1..n /\ ToSet(mmapList) = {mmapList[i] : i \in 1..n}
      /\ ToSet(mmapList) \subseteq Bos /\ \A i, j \in 1..n : mmapList[i] = mmapList[j] => i = j
  BY <1>2, ListIs
<1>4. I \in SUBSET (1..n) /\ \A i \in 1..n : i \in I <=> Bucket(mmapList[i]) = k  BY <1>3
<1>5. \A b : b \in M <=> b \in ToSet(mmapList) /\ Bucket(b) = k
  BY <1>2, <1>3 DEF MappingsOf
<1>6. f = [i \in I |-> mmapList[i]]  OBVIOUS
<1> HIDE DEF I, f, M, n
<1>7. IsFiniteSet(I)
  <2>1. 1 \in Int /\ n \in Int  BY <1>3
  <2>2. IsFiniteSet(1..n)  BY <2>1, FS_Interval
  <2> QED  BY <1>4, <2>2, FS_Subset
<1>8. f \in [I -> M]
  <2>1. \A i \in I : mmapList[i] \in M  BY <1>3, <1>4, <1>5
  <2> QED  BY <1>6, <2>1
<1>9. \A i, j \in I : f[i] = f[j] => i = j  BY <1>3, <1>4, <1>6
<1>10. \A b \in M : \E i \in I : f[i] = b
  <2> TAKE b \in M
  <2>1. PICK i \in 1..n : mmapList[i] = b  BY <1>3, <1>5
  <2>2. i \in I  BY <1>4, <1>5, <2>1
  <2> QED  BY <1>6, <2>1, <2>2
<1>11. ExistsBijection(I, M)
  <2>1. f \in Injection(I, M)
    <3>1. DOMAIN f = I  BY <1>8
    <3>2. IsInjective(f)  BY <1>9, <3>1 DEF IsInjective
    <3> QED  BY <1>8, <3>2 DEF Injection
  <2>2. f \in Surjection(I, M)  BY <1>8, <1>10 DEF Surjection
  <2> QED  BY <2>1, <2>2 DEF ExistsBijection, Bijection
<1>12. Cardinality(M) = Cardinality(I)  BY <1>7, <1>11, FS_Bijection
<1> QED  BY <1>1, <1>12 DEF I, M

LEMMA OwnershipIs ==
  ASSUME IInv
  PROVE  OwnershipAgrees
<1>1. HeldIsAlive
  <2> SUFFICES ASSUME NEW b \in Bos, app[b].refs > 0
               PROVE  /\ bo[b].kind # "free" /\ bo[b].ref >= app[b].refs /\ ~Listed(b)
                      /\ \A t \in Threads : arg[t] = b => pc[t] \in {"naming", "opened"}
    BY DEF HeldIsAlive
  <2>1. Held(b)  BY DEF Held
  <2>2. /\ ~Listed(b) /\ bo[b].kind # "free" /\ (\A u \in Threads : ~Passes(u, b))
        /\ bo[b].ref = app[b].refs
    BY <2>1, HeldIs
  <2>3. app[b].refs \in Nat  BY InvIs DEF Holds
  <2>4. ASSUME NEW t \in Threads, arg[t] = b PROVE pc[t] \in {"naming", "opened"}
    <3>1. CallOf(t) /\ pc[t] \in Steps /\ b # None  BY InvIs, Constants DEF CallTypes
    <3> QED  BY <2>2, <2>4, <3>1 DEF CallOf, Passes, Steps, FlushSteps
  <2> QED  BY <2>2, <2>3, <2>4
<1>2. InOnePlace  BY InOnePlaceHolds
<1>3. BooksAgree  BY CountsHold, InvIs DEF BooksAgree
<1> QED  BY <1>1, <1>2, <1>3 DEF OwnershipAgrees, OneOwner

\* A buffer has one owner, who finds it alive; it is in one place, and the lists,
\* the counters and the tables by which it is found say so.
THEOREM OwnershipHolds ==
  ASSUME Ruled
  PROVE  Spec => []OwnershipAgrees
<1>1. IInv => OwnershipAgrees  BY OwnershipIs
<1> QED  BY <1>1, CacheInvariance, PTL

LEMMA OwnerCan ==
  ASSUME IInv
  PROVE  OwnerCanUse
<1>1. FitsRequest
  <2>1. \A b \in Bos : SizeOfBo(b)  BY InvIs
  <2> QED  BY <2>1 DEF FitsRequest, SizeOfBo, Held
<1>2. \A b \in Bos : app[b].maps > 0 => bo[b].map = "mapped"
  <2> SUFFICES ASSUME NEW b \in Bos, app[b].maps > 0 PROVE bo[b].map = "mapped"
    OBVIOUS
  <2>1. RefOf(b) /\ app[b] \in Holds  BY InvIs
  <2>2. app[b].refs \in Nat /\ app[b].refs # 0  BY <2>1 DEF RefOf, Holds
  <2> QED  BY <2>1, <2>2 DEF RefOf, Held
<1>3. \A b \in Bos : (bo[b].map = "cached") <=> (\E i \in DOMAIN mmapList : mmapList[i] = b)
  <2>1. \A b \in Bos : b \in ToSet(mmapList) <=> InMmapCache(b)  BY InvIs DEF MmapInv
  <2> QED  BY <2>1 DEF ToSet, InMmapCache
<1> QED  BY <1>1, <1>2, <1>3 DEF OwnerCanUse, MappedWhileUsed

\* The owner of a buffer can use it: it is as large as was asked for, of the kind
\* that was asked for, and stays mapped, whatever the caches drop.
THEOREM OwnersCanUse ==
  ASSUME Ruled
  PROVE  Spec => []OwnerCanUse
<1>1. IInv => OwnerCanUse  BY OwnerCan
<1> QED  BY <1>1, CacheInvariance, PTL

-----------------------------------------------------------------------------
(* Ages. Every list is in the order of its buffers' ages, the oldest first: *)
(* that is why a cleanup may stop at the first one it keeps.                *)

FreeAges == [b \in Bos |-> bo[b].freeAge]
UnmapAges == [b \in Bos |-> bo[b].unmapAge]
OldestFirst(s, ages) == \A i, j \in 1..Len(s) : i <= j => ages[s[j]] <= ages[s[i]]

FreeAgeInv ==
  /\ \A k \in Buckets : OldestFirst(list[k], FreeAges)
  /\ cacheTime = "now" => \A b \in Bos : Listed(b) /\ bo[b].size > SmallSize => bo[b].freeAge < Old
UnmapAgeInv ==
  /\ OldestFirst(mmapList, UnmapAges)
  /\ mmapTime = "now" =>
       \A b \in Bos : InMmapCache(b) /\ bo[b].size > SmallSize => bo[b].unmapAge < Aged

LEMMA AgeConstants ==
  /\ SmallSize \in Nat /\ Fresh \in Nat /\ Aged \in Nat /\ Old \in Nat
  /\ Fresh < Aged /\ Aged <= Old
  BY BoCacheAssumption

\* The buffers of t are among the first n of s, in the same order.
InOrder(s, n, t) ==
  \A i, j \in 1..Len(t) : i <= j => \E p, q \in 1..n : p <= q /\ t[i] = s[p] /\ t[j] = s[q]

LEMMA SameOrder ==
  ASSUME NEW T, NEW s \in Seq(T)
  PROVE  InOrder(s, Len(s), s)
  BY DEF InOrder

LEMMA DropOrder ==
  ASSUME NEW T, NEW s \in Seq(T), NEW n \in 0..Len(s)
  PROVE  /\ InOrder(s, Len(s), SubSeq(s, n + 1, Len(s)))
         /\ SubSeq(s, n + 1, Len(s)) \in Seq(T) /\ Len(SubSeq(s, n + 1, Len(s))) = Len(s) - n
         /\ \A i \in 1..Len(s) - n : SubSeq(s, n + 1, Len(s))[i] = s[n + i]
<1> DEFINE t == SubSeq(s, n + 1, Len(s))
           m == Len(s)
<1>1. m \in Nat /\ n \in Nat /\ n <= m /\ \A i \in 1..m : s[i] \in T  BY ListIs
<1>2. /\ t \in Seq(T) /\ Len(t) = m - n
      /\ \A i \in 1..m - n : t[i] = s[n + i]
  <2>1. \A i \in n + 1 .. m : s[i] \in T  BY <1>1
  <2>2. /\ t \in Seq(T) /\ Len(t) = IF n + 1 <= m THEN m - (n + 1) + 1 ELSE 0
        /\ \A i \in 1 .. m - (n + 1) + 1 : t[i] = s[n + 1 + i - 1]
    BY <1>1, <2>1, SubSeqProperties
  <2> HIDE DEF t, m
  <2>3. Len(t) = m - n  BY <1>1, <2>2
  <2>4. \A i \in 1..m - n : t[i] = s[n + i]
    <3> TAKE i \in 1..m - n
    <3>1. i \in 1 .. m - (n + 1) + 1 /\ n + 1 + i - 1 = n + i  BY <1>1
    <3>2. t[i] = s[n + 1 + i - 1]  BY <2>2, <3>1
    <3> QED  BY <3>1, <3>2
  <2> QED  BY <2>2, <2>3, <2>4
<1> HIDE DEF t, m
<1>3. InOrder(s, m, t)
  <2> SUFFICES ASSUME NEW i \in 1..m - n, NEW j \in 1..m - n, i <= j
               PROVE  \E p, q \in 1..m : p <= q /\ t[i] = s[p] /\ t[j] = s[q]
    BY <1>2 DEF InOrder
  <2>1. n + i \in 1..m /\ n + j \in 1..m /\ n + i <= n + j  BY <1>1
  <2> QED  BY <1>2, <2>1
<1> QED  BY <1>2, <1>3 DEF t, m

LEMMA TailOrder ==
  ASSUME NEW T, NEW s \in Seq(T), s # <<>>
  PROVE  InOrder(s, Len(s), Tail(s))
<1>1. Len(s) \in Nat \ {0}  BY EmptySeq
<1>2. Tail(s) = SubSeq(s, 1 + 1, Len(s))
  <2>1. Tail(s) = SubSeq(s, 2, Len(s))  BY TailIsSubSeq
  <2> QED  BY <2>1
<1>3. 1 \in 0..Len(s)  BY <1>1
<1> QED  BY <1>2, <1>3, DropOrder

LEMMA WithoutOrder ==
  ASSUME NEW T, NEW s \in Seq(T), NEW S
  PROVE  InOrder(s, Len(s), Without(s, S))
<1>1. PICK f : Kept(f, s, S, Len(s)) /\ Without(s, S) = f[Len(s)]  BY WithoutKeeps
<1> DEFINE n == Len(s)
           Good(i) == f[i] \in Seq(T) /\ InOrder(s, i, f[i])
           Bad == {i \in Nat : i <= n /\ ~Good(i)}
<1>2. n \in Nat /\ \A i \in 1..n : s[i] \in T  BY ListIs
<1> HIDE DEF n
<1>3. Bad = {}
  <2> SUFFICES ASSUME Bad # {} PROVE FALSE  OBVIOUS
  <2>1. PICK k \in Bad : \A j \in Bad : k <= j
    <3>1. Bad \in SUBSET Nat  OBVIOUS
    <3> HIDE DEF Bad
    <3> QED  BY <3>1, Least
  <2>2. k \in Nat /\ k <= n /\ ~Good(k)  BY <2>1
  <2>3. \A i \in 0..n : f[i] = IF i = 0 THEN <<>>
                               ELSE IF s[i] \in S THEN f[i - 1] ELSE Append(f[i - 1], s[i])
    BY <1>1 DEF Kept, n
  <2>4. k # 0
    <3> SUFFICES ASSUME k = 0 PROVE FALSE  OBVIOUS
    <3>1. f[0] = <<>>  BY <1>2, <2>3
    <3>2. <<>> \in Seq(T) /\ Len(<<>>) = 0  BY EmptySeq
    <3>3. InOrder(s, 0, <<>>)  BY <3>2 DEF InOrder
    <3> QED  BY <2>2, <3>1, <3>2, <3>3
  <2>5. k - 1 \in Nat /\ ~(k <= k - 1) /\ k - 1 <= n  BY <1>2, <2>2, <2>4
  <2>6. Good(k - 1)
    <3>1. k - 1 \notin Bad  BY <2>1, <2>5
    <3> QED  BY <3>1, <2>5
  <2> DEFINE t == f[k - 1]
             u == Append(t, s[k])
  <2>7. t \in Seq(T) /\ InOrder(s, k - 1, t)  BY <2>6
  <2>8. k \in 1..n /\ s[k] \in T  BY <1>2, <2>2, <2>4
  <2>9. f[k] = IF s[k] \in S THEN t ELSE u
    <3>1. k \in 0..n  BY <1>2, <2>2
    <3> QED  BY <2>3, <2>4, <3>1
  <2>10. \A p \in 1..k - 1 : p \in 1..k /\ p <= k  BY <2>8, <1>2
  <2>11. InOrder(s, k, t)  BY <2>7, <2>10 DEF InOrder
  <2>12. /\ u \in Seq(T) /\ Len(u) = Len(t) + 1 /\ u[Len(t) + 1] = s[k] /\ Len(t) \in Nat
         /\ \A i \in 1..Len(t) : u[i] = t[i]
    BY <2>7, <2>8, AppendProperties, LenProperties
  <2> HIDE DEF t, u
  <2>13. InOrder(s, k, u)
    <3> SUFFICES ASSUME NEW i \in 1..Len(u), NEW j \in 1..Len(u), i <= j
                 PROVE  \E p, q \in 1..k : p <= q /\ u[i] = s[p] /\ u[j] = s[q]
      BY DEF InOrder
    <3>1. k \in 1..k /\ k <= k  BY <2>2, <2>4
    <3>2. CASE j \in 1..Len(t)
      <4>1. i \in 1..Len(t)  BY <2>12, <3>2
      <4>2. u[i] = t[i] /\ u[j] = t[j]  BY <2>12, <3>2, <4>1
      <4> QED  BY <2>11, <3>2, <4>1, <4>2 DEF InOrder
    <3>3. CASE j = Len(t) + 1 /\ i \in 1..Len(t)
      <4>1. i <= i  BY <3>3
      <4>2. PICK p \in 1..k - 1 : t[i] = s[p]  BY <2>7, <3>3, <4>1 DEF InOrder
      <4>3. u[i] = s[p] /\ u[j] = s[k] /\ p \in 1..k /\ p <= k  BY <2>10, <2>12, <3>3, <4>2
      <4> QED  BY <3>1, <4>3
    <3>4. CASE j = Len(t) + 1 /\ i = Len(t) + 1
      <4>1. u[i] = s[k] /\ u[j] = s[k]  BY <2>12, <3>4
      <4> QED  BY <3>1, <4>1
    <3> QED  BY <2>12, <3>2, <3>3, <3>4
  <2> QED  BY <2>2, <2>7, <2>9, <2>11, <2>12, <2>13
<1>4. Good(n)
  <2>1. n \notin Bad  BY <1>3
  <2> QED  BY <1>2, <2>1
<1> QED  BY <1>1, <1>4 DEF n

\* What is in t is in s.
LEMMA OrderIsIn ==
  ASSUME NEW T, NEW s \in Seq(T), NEW t \in Seq(T), InOrder(s, Len(s), t)
  PROVE  ToSet(t) \subseteq ToSet(s)
<1> SUFFICES ASSUME NEW i \in 1..Len(t) PROVE t[i] \in ToSet(s)  BY ListIs
<1>1. i <= i  OBVIOUS
<1>2. PICK p \in 1..Len(s) : t[i] = s[p]  BY <1>1 DEF InOrder
<1> QED  BY <1>2, ListIs

LEMMA OrderKept ==
  ASSUME NEW T, NEW s \in Seq(T), NEW t \in Seq(T), InOrder(s, Len(s), t),
         NEW old, NEW new, OldestFirst(s, old), \A x \in ToSet(t) : new[x] = old[x]
  PROVE  OldestFirst(t, new)
<1> SUFFICES ASSUME NEW i \in 1..Len(t), NEW j \in 1..Len(t), i <= j
             PROVE  new[t[j]] <= new[t[i]]
  BY DEF OldestFirst
<1>1. PICK p, q \in 1..Len(s) : p <= q /\ t[i] = s[p] /\ t[j] = s[q]  BY DEF InOrder
<1>2. old[s[q]] <= old[s[p]]  BY <1>1 DEF OldestFirst
<1>3. t[i] \in ToSet(t) /\ t[j] \in ToSet(t)  BY ListIs
<1> QED  BY <1>1, <1>2, <1>3

\* One that is new is the youngest.
LEMMA YoungestLast ==
  ASSUME NEW T, NEW s \in Seq(T), NEW x \in T, NEW ages \in [T -> Nat], ages[x] = 0, OldestFirst(s, ages)
  PROVE  OldestFirst(Append(s, x), ages)
<1> DEFINE t == Append(s, x)
           n == Len(s)
<1>1. /\ t \in Seq(T) /\ Len(t) = n + 1 /\ t[n + 1] = x /\ n \in Nat
      /\ \A i \in 1..n : t[i] = s[i]
  BY AppendProperties, LenProperties
<1> HIDE DEF t
<1>2. \A i \in 1..n + 1 : t[i] \in T  BY <1>1, ListIs
<1> SUFFICES ASSUME NEW i \in 1..n + 1, NEW j \in 1..n + 1, i <= j
             PROVE  ages[t[j]] <= ages[t[i]]
  BY <1>1 DEF OldestFirst, t
<1>3. CASE j = n + 1
  <2>1. ages[t[j]] = 0 /\ ages[t[i]] \in Nat  BY <1>1, <1>2, <1>3
  <2> QED  BY <2>1
<1>4. CASE j # n + 1
  <2>1. i \in 1..n /\ j \in 1..n  BY <1>1, <1>4
  <2>2. t[i] = s[i] /\ t[j] = s[j]  BY <1>1, <2>1
  <2> QED  BY <2>1, <2>2 DEF OldestFirst
<1> QED  BY <1>3, <1>4

-----------------------------------------------------------------------------
(* Steps that leave the ages of what stays in a list alone.                *)

FreeCalm ==
  /\ \A k \in Buckets : InOrder(list[k], Len(list[k]), list'[k])
  /\ cacheTime' \in {cacheTime, "zero"}
  /\ \A b \in Bos : Listed(b)' => bo'[b].freeAge = bo[b].freeAge /\ bo'[b].size = bo[b].size
MmapCalm ==
  /\ InOrder(mmapList, Len(mmapList), mmapList')
  /\ mmapTime' = mmapTime
  /\ \A b \in Bos : InMmapCache(b)' => bo'[b].unmapAge = bo[b].unmapAge /\ bo'[b].size = bo[b].size

LEMMA AgeTypes ==
  ASSUME IInv
  PROVE  /\ FreeAges \in [Bos -> Nat] /\ UnmapAges \in [Bos -> Nat]
         /\ \A b \in Bos : FreeAges[b] = bo[b].freeAge /\ UnmapAges[b] = bo[b].unmapAge
         /\ (\A k \in Buckets : list[k] \in Seq(Bos)) /\ mmapList \in Seq(Bos)
<1>1. \A b \in Bos : bo[b].freeAge \in Nat /\ bo[b].unmapAge \in Nat  BY InvIs DEF Objects
<1> QED  BY <1>1, InvIs DEF FreeAges, UnmapAges, DataTypes

LEMMA AgeTypesNext ==
  ASSUME IInv'
  PROVE  /\ FreeAges' \in [Bos -> Nat] /\ UnmapAges' \in [Bos -> Nat]
         /\ \A b \in Bos : FreeAges'[b] = bo'[b].freeAge /\ UnmapAges'[b] = bo'[b].unmapAge
         /\ (\A k \in Buckets : list'[k] \in Seq(Bos)) /\ mmapList' \in Seq(Bos)
         /\ \A b : Listed(b)' <=> \E k \in Buckets : b \in ToSet(list'[k])
         /\ \A b \in Bos : InMmapCache(b)' <=> b \in ToSet(mmapList')
<1>1. bo' \in [Bos -> Objects] /\ list' \in [Buckets -> Seq(Bos)] /\ mmapList' \in Seq(Bos)
  BY DEF IInv, TypeInv, DataTypes
<1>2. \A b \in Bos : bo'[b].freeAge \in Nat /\ bo'[b].unmapAge \in Nat  BY <1>1 DEF Objects
<1>3. \A b : Listed(b)' <=> \E k \in Buckets : b \in ToSet(list'[k])  BY DEF Listed, ToSet
<1>4. \A b \in Bos : InMmapCache(b)' <=> b \in ToSet(mmapList')  BY DEF IInv, MmapInv
<1> QED  BY <1>1, <1>2, <1>3, <1>4 DEF FreeAges, UnmapAges

LEMMA FreeCalmKeeps ==
  ASSUME IInv, IInv', FreeAgeInv, FreeCalm
  PROVE  FreeAgeInv'
<1>1. \A k \in Buckets :
        /\ list[k] \in Seq(Bos) /\ list'[k] \in Seq(Bos) /\ ToSet(list'[k]) \subseteq Bos
        /\ ToSet(list'[k]) \subseteq ToSet(list[k])
  <2> TAKE k \in Buckets
  <2>1. list[k] \in Seq(Bos) /\ list'[k] \in Seq(Bos) /\ InOrder(list[k], Len(list[k]), list'[k])
    BY AgeTypes, AgeTypesNext DEF FreeCalm
  <2> QED  BY <2>1, OrderIsIn, ListIs
<1>2. \A b \in Bos : Listed(b)' => Listed(b)
  <2>1. \A b : Listed(b) <=> \E k \in Buckets : b \in ToSet(list[k])  BY InvIs, ListedIs
  <2> QED  BY <1>1, <2>1, AgeTypesNext
<1>3. \A k \in Buckets : OldestFirst(list'[k], FreeAges')
  <2> TAKE k \in Buckets
  <2>1. \A b \in ToSet(list'[k]) : FreeAges'[b] = FreeAges[b]
    <3> TAKE b \in ToSet(list'[k])
    <3>1. b \in Bos /\ Listed(b)'  BY <1>1, AgeTypesNext
    <3> QED  BY <3>1, AgeTypes, AgeTypesNext DEF FreeCalm
  <2>2. InOrder(list[k], Len(list[k]), list'[k]) /\ OldestFirst(list[k], FreeAges)
    BY DEF FreeCalm, FreeAgeInv
  <2> QED  BY <1>1, <2>1, <2>2, OrderKept
<1>4. cacheTime' = "now" =>
        \A b \in Bos : Listed(b)' /\ bo'[b].size > SmallSize => bo'[b].freeAge < Old
  <2>1. cacheTime' = "now" => cacheTime = "now"  BY DEF FreeCalm
  <2> QED  BY <1>2, <2>1 DEF FreeCalm, FreeAgeInv
<1> QED  BY <1>3, <1>4 DEF FreeAgeInv, OldestFirst

LEMMA MmapCalmKeeps ==
  ASSUME IInv, IInv', UnmapAgeInv, MmapCalm
  PROVE  UnmapAgeInv'
<1>1. /\ mmapList \in Seq(Bos) /\ mmapList' \in Seq(Bos) /\ ToSet(mmapList') \subseteq Bos
      /\ ToSet(mmapList') \subseteq ToSet(mmapList)
  <2>1. /\ mmapList \in Seq(Bos) /\ mmapList' \in Seq(Bos)
        /\ InOrder(mmapList, Len(mmapList), mmapList')
    BY AgeTypes, AgeTypesNext DEF MmapCalm
  <2> QED  BY <2>1, OrderIsIn, ListIs
<1>2. \A b \in Bos : InMmapCache(b)' => InMmapCache(b)
  <2>1. \A b \in Bos : b \in ToSet(mmapList) <=> InMmapCache(b)  BY InvIs DEF MmapInv
  <2> QED  BY <1>1, <2>1, AgeTypesNext
<1>3. OldestFirst(mmapList', UnmapAges')
  <2>1. \A b \in ToSet(mmapList') : UnmapAges'[b] = UnmapAges[b]
    <3> TAKE b \in ToSet(mmapList')
    <3>1. b \in Bos /\ InMmapCache(b)'  BY <1>1, AgeTypesNext
    <3> QED  BY <3>1, AgeTypes, AgeTypesNext DEF MmapCalm
  <2>2. InOrder(mmapList, Len(mmapList), mmapList') /\ OldestFirst(mmapList, UnmapAges)
    BY DEF MmapCalm, UnmapAgeInv
  <2> QED  BY <1>1, <2>1, <2>2, OrderKept
<1>4. mmapTime' = "now" =>
        \A b \in Bos : InMmapCache(b)' /\ bo'[b].size > SmallSize => bo'[b].unmapAge < Aged
  BY <1>2 DEF MmapCalm, UnmapAgeInv
<1> QED  BY <1>3, <1>4 DEF UnmapAgeInv, OldestFirst

\* A step that changes the ages of no buffer that is in a list, and no list.
LEMMA FreeSame ==
  ASSUME IInv, UNCHANGED list, cacheTime' \in {cacheTime, "zero"},
         \A b \in Bos : Listed(b) => bo'[b].freeAge = bo[b].freeAge /\ bo'[b].size = bo[b].size
  PROVE  FreeCalm
<1>1. \A k \in Buckets : InOrder(list[k], Len(list[k]), list'[k])  BY AgeTypes, SameOrder
<1> QED  BY <1>1, SameLists DEF FreeCalm

LEMMA MmapSame ==
  ASSUME IInv, UNCHANGED <<mmapList, mmapTime>>,
         \A b \in Bos : InMmapCache(b)' =>
           bo'[b].unmapAge = bo[b].unmapAge /\ bo'[b].size = bo[b].size
  PROVE  MmapCalm
<1>1. InOrder(mmapList, Len(mmapList), mmapList')  BY AgeTypes, SameOrder
<1> QED  BY <1>1 DEF MmapCalm

-----------------------------------------------------------------------------
(* The cleanup of the mmap cache: it drops every old mapping of a large     *)
(* buffer, because those it does not reach are fresh.                       *)

Walks == [dropped : SUBSET Bos, stop : BOOLEAN, crash : BOOLEAN]
NoWalk == [dropped |-> {}, stop |-> FALSE, crash |-> FALSE]
Walked(f, n) ==
  \A i \in 0..n : f[i] = IF i = 0 THEN NoWalk ELSE MmapWalk(f[i - 1], mmapList[i])
HasWalk(n) == \E f \in [0..n -> Walks] : Walked(f, n)

TooOld(b) == bo[b].size > SmallSize /\ bo[b].unmapAge >= Aged

LEMMA WalkStep ==
  ASSUME IInv, NEW acc \in Walks, NEW b \in Bos
  PROVE  /\ MmapWalk(acc, b) \in Walks /\ acc.dropped \subseteq MmapWalk(acc, b).dropped
         /\ MmapWalk(acc, b).stop => acc.stop \/ bo[b].unmapAge <= Fresh
         /\ ~acc.stop /\ TooOld(b) => b \in MmapWalk(acc, b).dropped
<1> DEFINE k == Bucket(b)
           n == IF k = None THEN 0
                ELSE mmaps[k] - Cardinality({d \in acc.dropped : Bucket(d) = k})
           age == bo[b].unmapAge
           spared == k # None /\ (~FreeUp(k, n) \/ (age < Aged /\ n < Few))
           stopped == [acc EXCEPT !.stop = TRUE]
           crashed == [acc EXCEPT !.crash = TRUE]
           more == [acc EXCEPT !.dropped = acc.dropped \cup {b}]
<1>1. MmapWalk(acc, b) = IF acc.stop \/ age <= Fresh THEN stopped
                         ELSE IF k = None /\ age < Aged THEN crashed
                         ELSE IF spared THEN acc ELSE more
  BY Zenon DEF MmapWalk
<1>2. /\ stopped \in Walks /\ stopped.dropped = acc.dropped /\ stopped.stop
      /\ crashed \in Walks /\ crashed.dropped = acc.dropped /\ crashed.stop = acc.stop
      /\ more \in Walks /\ more.dropped = acc.dropped \cup {b} /\ more.stop = acc.stop
  BY DEF Walks
<1>3. bo[b].size \in Nat /\ bo[b].sparse \in BOOLEAN /\ age \in Nat  BY InvIs DEF Objects
<1>4. TooOld(b) /\ k # None => FreeUp(k, n)
  <2>1. k # None => k[1] >= bo[b].size /\ k[1] \in Nat
    BY <1>3, BucketIs, Constants DEF Bucket
  <2> HIDE DEF k, n
  <2>2. TooOld(b) /\ k # None => k[1] > SmallSize  BY <1>3, <2>1, AgeConstants DEF TooOld
  <2> QED  BY <2>2 DEF FreeUp
<1>5. TooOld(b) => ~(age <= Fresh) /\ ~(age < Aged)  BY <1>3, AgeConstants DEF TooOld
<1>6. TooOld(b) => ~spared
  <2> HIDE DEF k, n, age
  <2> QED  BY <1>4, <1>5
<1> HIDE DEF k, n, age, spared, stopped, crashed, more
<1>7. acc.dropped \subseteq acc.dropped \cup {b} /\ b \in acc.dropped \cup {b}  OBVIOUS
<1>8. MmapWalk(acc, b) \in Walks  BY <1>1, <1>2
<1>9. acc.dropped \subseteq MmapWalk(acc, b).dropped  BY <1>1, <1>2, <1>7
<1>10. MmapWalk(acc, b).stop => acc.stop \/ age <= Fresh  BY <1>1, <1>2
<1>11. ~acc.stop /\ TooOld(b) => b \in MmapWalk(acc, b).dropped
  BY <1>1, <1>2, <1>5, <1>6, <1>7
<1> QED  BY <1>8, <1>9, <1>10, <1>11 DEF age

LEMMA WalkExists ==
  ASSUME IInv, NEW n \in 0..Len(mmapList)
  PROVE  HasWalk(n)
<1> DEFINE Bad == {k \in Nat : k <= Len(mmapList) /\ ~HasWalk(k)}
<1> SUFFICES ASSUME ~HasWalk(n) PROVE FALSE  OBVIOUS
<1>1. Len(mmapList) \in Nat /\ \A i \in 1..Len(mmapList) : mmapList[i] \in Bos
  BY AgeTypes, ListIs
<1>2. PICK k \in Bad : \A j \in Bad : k <= j
  <2>1. Bad \in SUBSET Nat /\ n \in Bad  BY <1>1
  <2> HIDE DEF Bad
  <2> QED  BY <2>1, Least
<1>3. k \in Nat /\ k <= Len(mmapList) /\ ~HasWalk(k)  BY <1>2
<1>4. k # 0
  <2>1. NoWalk \in Walks  BY DEF NoWalk, Walks
  <2>2. [i \in 0..0 |-> NoWalk] \in [0..0 -> Walks]  BY <2>1
  <2>3. Walked([i \in 0..0 |-> NoWalk], 0)  BY DEF Walked
  <2>4. HasWalk(0)  BY <2>2, <2>3, Zenon DEF HasWalk
  <2> QED  BY <1>3, <2>4
<1>5. k - 1 \in Nat /\ ~(k <= k - 1) /\ k - 1 <= Len(mmapList)  BY <1>1, <1>3, <1>4
<1>6. HasWalk(k - 1)
  <2>1. k - 1 \notin Bad  BY <1>2, <1>5
  <2> QED  BY <2>1, <1>5
<1>7. PICK f \in [0..k - 1 -> Walks] : Walked(f, k - 1)  BY <1>6 DEF HasWalk
<1> DEFINE last == MmapWalk(f[k - 1], mmapList[k])
           g == [i \in 0..k |-> IF i = k THEN last ELSE f[i]]
<1>8. last \in Walks
  <2>1. f[k - 1] \in Walks  BY <1>5
  <2>2. mmapList[k] \in Bos  BY <1>1, <1>3, <1>4
  <2> QED  BY <2>1, <2>2, WalkStep
<1>9. g \in [0..k -> Walks]
  <2>1. \A i \in 0..k : i # k => i \in 0..k - 1  BY <1>3
  <2> HIDE DEF last
  <2> QED  BY <2>1, <1>8
<1>10. Walked(g, k)
  <2> SUFFICES ASSUME NEW i \in 0..k
               PROVE  g[i] = IF i = 0 THEN NoWalk ELSE MmapWalk(g[i - 1], mmapList[i])
    BY DEF Walked
  <2>1. k - 1 \in 0..k /\ k - 1 # k  BY <1>3, <1>4
  <2>2. CASE i = k
    <3>1. g[i] = last /\ g[k - 1] = f[k - 1]  BY <2>1, <2>2
    <3> HIDE DEF g
    <3> QED  BY <1>4, <2>2, <3>1
  <2>3. CASE i # k
    <3>1. i \in 0..k - 1 /\ g[i] = f[i]  BY <2>3, <1>3
    <3>2. i # 0 => i - 1 \in 0..k /\ i - 1 # k  BY <1>3, <3>1
    <3>3. i # 0 => g[i - 1] = f[i - 1]  BY <3>2
    <3>4. f[i] = IF i = 0 THEN NoWalk ELSE MmapWalk(f[i - 1], mmapList[i])
      BY <1>7, <3>1 DEF Walked
    <3> HIDE DEF g
    <3> QED  BY <3>1, <3>3, <3>4
  <2> QED  BY <2>2, <2>3
<1> HIDE DEF g
<1> QED  BY <1>3, <1>9, <1>10 DEF HasWalk

LEMMA CleanupWalks ==
  ASSUME IInv, mmapTime # "now"
  PROVE  \E f : Walked(f, Len(mmapList)) /\ MmapCleanup = f[Len(mmapList)]
<1> DEFINE F(f) == [i \in 0..Len(mmapList) |->
                     IF i = 0 THEN NoWalk ELSE MmapWalk(f[i - 1], mmapList[i])]
           walk == CHOOSE f : f = F(f)
<1>1. Len(mmapList) \in 0..Len(mmapList)
  <2>1. Len(mmapList) \in Nat  BY AgeTypes, ListIs
  <2> QED  BY <2>1
<1>2. PICK f \in [0..Len(mmapList) -> Walks] : Walked(f, Len(mmapList))
  BY <1>1, WalkExists DEF HasWalk
<1>3. f = F(f)
  <2>1. \A i \in 0..Len(mmapList) : f[i] = F(f)[i]  BY <1>2 DEF Walked
  <2> QED  BY <2>1, <1>2
<1>4. walk = F(walk)  BY <1>3, Zenon
<1>5. Walked(walk, Len(mmapList))
  <2> HIDE DEF walk
  <2> QED  BY <1>4 DEF Walked
<1>6. MmapCleanup = walk[Len(mmapList)]  BY Zenon DEF MmapCleanup, NoWalk
<1> HIDE DEF walk
<1> QED  BY <1>5, <1>6

\* What the walk has done after i mappings.
WalkedTo(acc, i) ==
  /\ acc \in Walks
  /\ \A j \in 1..i : TooOld(mmapList[j]) => mmapList[j] \in acc.dropped
  /\ acc.stop => \E j \in 1..i : bo[mmapList[j]].unmapAge <= Fresh

LEMMA OldAreDropped ==
  ASSUME IInv, UnmapAgeInv
  PROVE  \A b \in ToSet(mmapList) : TooOld(b) => b \in MmapCleanup.dropped
<1>1. /\ Len(mmapList) \in Nat /\ ToSet(mmapList) = {mmapList[i] : i \in 1..Len(mmapList)}
      /\ \A i \in 1..Len(mmapList) : mmapList[i] \in Bos
  BY AgeTypes, ListIs
<1>2. \A b \in Bos : bo[b].unmapAge \in Nat /\ UnmapAges[b] = bo[b].unmapAge
  BY AgeTypes, InvIs DEF Objects
<1>3. CASE mmapTime = "now"
  <2>1. \A b \in ToSet(mmapList) : b \in Bos /\ InMmapCache(b)  BY <1>1, InvIs DEF MmapInv
  <2>2. \A b \in ToSet(mmapList) : ~TooOld(b)
    BY <1>2, <1>3, <2>1, AgeConstants DEF UnmapAgeInv, TooOld
  <2> QED  BY <2>2
<1>4. CASE mmapTime # "now"
  <2>1. PICK f : Walked(f, Len(mmapList)) /\ MmapCleanup = f[Len(mmapList)]
    BY <1>4, CleanupWalks
  <2> DEFINE n == Len(mmapList)
             Bad == {i \in Nat : i <= n /\ ~WalkedTo(f[i], i)}
  <2>2. \A i \in 0..n : f[i] = IF i = 0 THEN NoWalk ELSE MmapWalk(f[i - 1], mmapList[i])
    BY <2>1 DEF Walked
  <2> HIDE DEF n
  <2>3. Bad = {}
    <3> SUFFICES ASSUME Bad # {} PROVE FALSE  OBVIOUS
    <3>1. PICK k \in Bad : \A j \in Bad : k <= j
      <4>1. Bad \in SUBSET Nat  OBVIOUS
      <4> HIDE DEF Bad
      <4> QED  BY <4>1, Least
    <3>2. k \in Nat /\ k <= n /\ ~WalkedTo(f[k], k)  BY <3>1
    <3>3. n \in Nat  BY <1>1 DEF n
    <3>4. k # 0
      <4> SUFFICES ASSUME k = 0 PROVE FALSE  OBVIOUS
      <4>1. f[0] = NoWalk  BY <2>2, <3>3
      <4>2. NoWalk \in Walks /\ ~NoWalk.stop  BY DEF NoWalk, Walks
      <4>3. WalkedTo(f[0], 0)  BY <4>1, <4>2 DEF WalkedTo
      <4> QED  BY <3>2, <4>3
    <3>5. k - 1 \in Nat /\ ~(k <= k - 1) /\ k - 1 <= n /\ k \in 1..n /\ k \in 0..n
      BY <3>2, <3>3, <3>4
    <3>6. WalkedTo(f[k - 1], k - 1)
      <4>1. k - 1 \notin Bad  BY <3>1, <3>5
      <4> QED  BY <4>1, <3>5
    <3> DEFINE acc == f[k - 1]
               b == mmapList[k]
               next == MmapWalk(acc, b)
    <3>7. f[k] = next  BY <2>2, <3>4, <3>5
    <3>8. acc \in Walks /\ b \in Bos  BY <1>1, <3>5, <3>6 DEF WalkedTo, n
    <3>9. /\ next \in Walks /\ acc.dropped \subseteq next.dropped
          /\ next.stop => acc.stop \/ bo[b].unmapAge <= Fresh
          /\ ~acc.stop /\ TooOld(b) => b \in next.dropped
      BY <3>8, WalkStep
    <3> HIDE DEF next
    <3>10. acc.stop => ~TooOld(b)
      <4> SUFFICES ASSUME acc.stop PROVE ~TooOld(b)  OBVIOUS
      <4>1. PICK j \in 1..k - 1 : bo[mmapList[j]].unmapAge <= Fresh  BY <3>6 DEF WalkedTo
      <4>2. j \in 1..n /\ j <= k  BY <3>2, <3>3
      <4>3. UnmapAges[b] <= UnmapAges[mmapList[j]]
        BY <3>5, <4>2 DEF UnmapAgeInv, OldestFirst, n
      <4>4. bo[b].unmapAge <= bo[mmapList[j]].unmapAge /\ bo[mmapList[j]].unmapAge \in Nat
        BY <1>1, <1>2, <3>8, <4>2, <4>3 DEF n
      <4>5. bo[b].unmapAge \in Nat  BY <1>2, <3>8
      <4>6. bo[b].unmapAge < Aged
        <5> HIDE DEF b
        <5> QED  BY <4>1, <4>4, <4>5, AgeConstants
      <4> QED  BY <4>5, <4>6, AgeConstants DEF TooOld
    <3>11. \A j \in 1..k : TooOld(mmapList[j]) => mmapList[j] \in next.dropped
      <4> TAKE j \in 1..k
      <4>1. CASE j = k  BY <3>9, <3>10, <4>1
      <4>2. CASE j # k
        <5>1. j \in 1..k - 1  BY <3>2, <4>2
        <5> QED  BY <3>6, <3>9, <5>1 DEF WalkedTo
      <4> QED  BY <4>1, <4>2
    <3>12. next.stop => \E j \in 1..k : bo[mmapList[j]].unmapAge <= Fresh
      <4>1. k \in 1..k /\ \A j \in 1..k - 1 : j \in 1..k  BY <3>2, <3>4
      <4> QED  BY <3>6, <3>9, <4>1 DEF WalkedTo
    <3>13. WalkedTo(f[k], k)  BY <3>7, <3>9, <3>11, <3>12 DEF WalkedTo
    <3> QED  BY <3>2, <3>13
  <2>4. n \in Nat  BY <1>1 DEF n
  <2>5. WalkedTo(f[n], n)
    <3>1. n \notin Bad  BY <2>3
    <3> QED  BY <2>4, <3>1
  <2> QED  BY <1>1, <2>1, <2>5 DEF WalkedTo, n
<1> QED  BY <1>3, <1>4

LEMMA UnmapToCacheAges ==
  ASSUME IInv, IInv', UnmapAgeInv, NEW b \in Bos, NEW x \in Objects,
         x.size = bo[b].size, bo[b].map = "mapped", UnmapToCache(b, [bo EXCEPT ![b] = x])
  PROVE  /\ UnmapAgeInv'
         /\ \A c \in Bos \ {b} : bo'[c].freeAge = bo[c].freeAge /\ bo'[c].size = bo[c].size
         /\ bo'[b].freeAge = x.freeAge /\ bo'[b].size = bo[b].size
<1> DEFINE gone == ToSet(mmapList) \cap MmapCleanup.dropped
           f == [bo EXCEPT ![b] = x]
           rest == Without(mmapList, gone)
<1>1. /\ bo' = [c \in Bos |->
                  IF c = b THEN [f[c] EXCEPT !.map = "cached", !.unmapAge = 0]
                  ELSE IF c \in gone THEN [f[c] EXCEPT !.map = "none", !.unmapAge = 0]
                  ELSE f[c]]
      /\ mmapList' = Append(rest, b) /\ mmapTime' = "now"
  BY DEF UnmapToCache
<1>2. /\ bo \in [Bos -> Objects] /\ mmapList \in Seq(Bos) /\ IsInjective(mmapList)
      /\ ToSet(mmapList) \subseteq Bos
      /\ \A c \in Bos : c \in ToSet(mmapList) <=> InMmapCache(c)
  <2>1. mmapList \in Seq(Bos)  BY AgeTypes
  <2> QED  BY <2>1, InvIs, ListIs DEF DataTypes, MmapInv
<1>3. \A c \in ToSet(mmapList) \ gone : ~TooOld(c)  BY OldAreDropped
<1>4. /\ rest \in Seq(Bos) /\ ToSet(rest) = ToSet(mmapList) \ gone
      /\ InOrder(mmapList, Len(mmapList), rest)
  BY <1>2, WithoutIs, WithoutOrder
<1>5. b \notin ToSet(mmapList)  BY <1>2 DEF InMmapCache
<1> HIDE DEF gone, rest
<1>6. f[b] = x /\ \A c \in Bos \ {b} : f[c] = bo[c]  BY <1>2
<1> HIDE DEF f
<1>7. bo'[b] = [x EXCEPT !.map = "cached", !.unmapAge = 0]  BY <1>1, <1>6
<1>8. \A c \in Bos \ {b} :
        bo'[c] = IF c \in gone THEN [bo[c] EXCEPT !.map = "none", !.unmapAge = 0] ELSE bo[c]
  BY <1>1, <1>6
<1>9. bo'[b].unmapAge = 0 /\ bo'[b].freeAge = x.freeAge /\ bo'[b].size = bo[b].size
  BY <1>7 DEF Objects
<1>10. \A c \in Bos \ {b} : bo'[c].freeAge = bo[c].freeAge /\ bo'[c].size = bo[c].size
  <2> TAKE c \in Bos \ {b}
  <2>1. bo[c] \in Objects  BY <1>2
  <2> DEFINE old == bo[c]
             y == [old EXCEPT !.map = "none", !.unmapAge = 0]
  <2>2. old \in Objects  BY <2>1
  <2>3. bo'[c] = y \/ bo'[c] = old  BY <1>8
  <2> HIDE DEF old
  <2>4. y.freeAge = old.freeAge /\ y.size = old.size  BY <2>2 DEF Objects
  <2> HIDE DEF y
  <2>5. bo'[c].freeAge = old.freeAge /\ bo'[c].size = old.size  BY <2>3, <2>4
  <2> QED  BY <2>5 DEF old
<1>11. \A c \in ToSet(rest) : c \in Bos \ {b} /\ bo'[c] = bo[c] /\ ~TooOld(c)
  BY <1>2, <1>3, <1>4, <1>5, <1>8
<1>12. OldestFirst(rest, UnmapAges')
  <2>1. \A c \in ToSet(rest) : UnmapAges'[c] = UnmapAges[c]
    <3> TAKE c \in ToSet(rest)
    <3>1. c \in Bos /\ bo'[c] = bo[c]  BY <1>11
    <3>2. UnmapAges[c] = bo[c].unmapAge  BY <3>1, AgeTypes
    <3>3. UnmapAges'[c] = bo'[c].unmapAge  BY <3>1, AgeTypesNext
    <3> QED  BY <3>1, <3>2, <3>3
  <2>2. OldestFirst(mmapList, UnmapAges)  BY DEF UnmapAgeInv
  <2> QED  BY <1>2, <1>4, <2>1, <2>2, OrderKept
<1>13. OldestFirst(mmapList', UnmapAges')
  <2>1. UnmapAges' \in [Bos -> Nat] /\ UnmapAges'[b] = 0  BY <1>9, AgeTypesNext
  <2>2. OldestFirst(Append(rest, b), UnmapAges')  BY <1>4, <1>12, <2>1, YoungestLast
  <2> QED  BY <1>1, <2>2
<1>14. \A c \in Bos : InMmapCache(c)' /\ bo'[c].size > SmallSize => bo'[c].unmapAge < Aged
  <2> SUFFICES ASSUME NEW c \in Bos, c \in ToSet(mmapList'), bo'[c].size > SmallSize
               PROVE  bo'[c].unmapAge < Aged
    BY AgeTypesNext
  <2>1. c = b \/ c \in ToSet(rest)
    <3> DEFINE t == Append(rest, b)
               n == Len(rest)
    <3>1. t \in Seq(Bos) /\ Len(t) = n + 1 /\ t[n + 1] = b /\ \A i \in 1..n : t[i] = rest[i]
      BY <1>4, AppendProperties
    <3>2. n \in Nat /\ \A i \in 1..n : rest[i] \in ToSet(rest)  BY <1>4, ListIs
    <3>3. c \in ToSet(t)  BY <1>1
    <3> HIDE DEF t, n
    <3>4. PICK i \in 1..n + 1 : c = t[i]  BY <3>1, <3>3, ListIs
    <3>5. i \in 1..n \/ i = n + 1  BY <3>2
    <3> QED  BY <3>1, <3>2, <3>4, <3>5
  <2>2. CASE c = b  BY <1>9, <2>2, AgeConstants
  <2>3. CASE c \in ToSet(rest)
    <3>1. ~(bo[c].unmapAge >= Aged) /\ bo'[c] = bo[c]  BY <1>11, <2>3 DEF TooOld
    <3>2. bo[c].unmapAge \in Nat  BY InvIs DEF Objects
    <3> QED  BY <3>1, <3>2, AgeConstants
  <2> QED  BY <2>1, <2>2, <2>3
<1>15. UnmapAgeInv'  BY <1>13, <1>14 DEF UnmapAgeInv, OldestFirst
<1> QED  BY <1>9, <1>10, <1>15

-----------------------------------------------------------------------------
(* The cleanup of the buckets: what it leaves is younger than Old.         *)

LEMMA RestIsYoung ==
  ASSUME IInv, FreeAgeInv, NEW k \in Buckets, NEW i \in Expired(k) + 1..Len(list[k]),
         bo[list[k][i]].size > SmallSize
  PROVE  bo[list[k][i]].freeAge < Old
<1> DEFINE s == list[k]
           n == Len(s)
           e == Expired(k)
           T == {m \in 0..n : m = n \/ Keeps(k, entries[k] - m, s[m + 1])}
<1>1. s \in Seq(Bos) /\ n \in Nat /\ (\A j \in 1..n : s[j] \in Bos /\ s[j] \in ToSet(s))
  BY AgeTypes, ListIs
<1>2. e \in 0..n  BY <1>1, ExpiredIs
<1>3. e = IF cacheTime = "now" \/ ~FreeUp(k, entries[k]) THEN 0 ELSE Min(T)
  BY DEF Expired
<1>4. i \in 1..n /\ s[i] \in Bos /\ s[i] \in ToSet(s) /\ Listed(s[i])
  <2>1. i \in 1..n  BY <1>1, <1>2
  <2> QED  BY <1>1, <2>1, InvIs, ListedIs
<1> DEFINE b == s[i]
<1>5. Bucket(b) = k /\ k # None /\ bo[b].size = k[1] /\ k[1] \in Nat
  <2>1. Bucket(b) = k /\ bo[b].kind = "own"  BY <1>4, InvIs DEF ListInv
  <2>2. k[1] \in Nat /\ k # None  BY Constants, BoCacheAssumption DEF Buckets
  <2>3. bo[b].size = k[1]  BY <1>4, <2>1, <2>2, InvIs DEF SizeOfBo
  <2> QED  BY <2>1, <2>2, <2>3
<1>6. FreeUp(k, entries[k])  BY <1>5, AgeConstants DEF FreeUp
<1>7. CASE cacheTime = "now"  BY <1>4, <1>7 DEF FreeAgeInv
<1>8. CASE cacheTime # "now"
  <2>1. e = Min(T)  BY <1>3, <1>6, <1>8
  <2>2. T \in SUBSET Nat /\ n \in T  BY <1>1
  <2>3. Min(T) \in T
    <3> HIDE DEF T
    <3> QED  BY <2>2, MinIn
  <2>4. e # n  BY <1>1, <1>2, <1>4
  <2>5. Keeps(k, entries[k] - e, s[e + 1])  BY <2>1, <2>3, <2>4
  <2>6. e + 1 \in 1..n /\ e + 1 <= i  BY <1>1, <1>2, <1>4, <2>4
  <2>7. FreeAges[b] <= FreeAges[s[e + 1]]  BY <1>4, <2>6 DEF FreeAgeInv, OldestFirst
  <2>8. s[e + 1] \in Bos  BY <1>1, <2>6
  <2>9. bo[b].freeAge <= bo[s[e + 1]].freeAge /\ bo[b].freeAge \in Nat
        /\ bo[s[e + 1]].freeAge \in Nat
    BY <1>4, <2>7, <2>8, AgeTypes
  <2>10. bo[s[e + 1]].freeAge < Old
    <3>1. \/ bo[s[e + 1]].freeAge <= Fresh \/ bo[s[e + 1]].freeAge < Aged
          \/ bo[s[e + 1]].freeAge < Old
      BY <2>5 DEF Keeps
    <3> QED  BY <2>9, <3>1, AgeConstants
  <2> HIDE DEF b
  <2>11. bo[b].freeAge < Old  BY <2>9, <2>10, AgeConstants
  <2> QED  BY <2>11 DEF b
<1> QED  BY <1>7, <1>8

LEMMA CacheFreeAges ==
  ASSUME IInv, IInv', FreeAgeInv, NEW b \in Bos, ~Listed(b), NEW k \in Buckets, Bucket(b) = k,
         CacheFree(b)
  PROVE  FreeAgeInv'
<1> DEFINE left == [j \in Buckets |-> SubSeq(list[j], Expired(j) + 1, Len(list[j]))]
           S == ExpiredBos
           f == [bo EXCEPT ![b].freeAge = 0]
<1>1. /\ bo' = [c \in Bos |-> IF c \in S THEN NoBo ELSE f[c]]
      /\ list' = [left EXCEPT ![k] = Append(@, b)]
  BY DEF CacheFree, FreeBos
<1>2. /\ S \in SUBSET Bos /\ (\A c \in S : Listed(c)) /\ b \notin S
      /\ \A j \in Buckets : {list[j][i] : i \in 1..Expired(j)} = ToSet(list[j]) \cap S
  BY ExpiredBosAre
<1> HIDE DEF S
<1>3. bo \in [Bos -> Objects]  BY InvIs DEF DataTypes
<1>4. /\ f[b].freeAge = 0 /\ \A c \in Bos \ {b} : f[c] = bo[c]
  <2>1. f[b] = [bo[b] EXCEPT !.freeAge = 0]  BY <1>3
  <2> QED  BY <1>3, <2>1 DEF Objects
<1> HIDE DEF f
<1>5. bo'[b].freeAge = 0 /\ \A c \in Bos \ (S \cup {b}) : bo'[c] = bo[c]  BY <1>1, <1>2, <1>4
<1>6. \A j \in Buckets :
        /\ list[j] \in Seq(Bos) /\ left[j] \in Seq(Bos) /\ InOrder(list[j], Len(list[j]), left[j])
        /\ \A c \in ToSet(left[j]) :
             /\ c \in Bos \ (S \cup {b})
             /\ bo[c].size > SmallSize => bo[c].freeAge < Old
  <2> TAKE j \in Buckets
  <2> DEFINE s == list[j]
             e == Expired(j)
             t == SubSeq(s, e + 1, Len(s))
  <2>1. s \in Seq(Bos) /\ IsInjective(s) /\ Len(s) \in Nat /\ ToSet(s) \subseteq Bos
    <3>1. s \in Seq(Bos) /\ IsInjective(s)  BY AgeTypes, InvIs DEF ListInv
    <3> QED  BY <3>1, ListIs
  <2>2. e \in 0..Len(s)  BY <2>1, ExpiredIs
  <2>3. left[j] = t  OBVIOUS
  <2>4. {s[i] : i \in 1..e} = ToSet(s) \cap S  BY <1>2
  <2>5. \A i \in e + 1..Len(s) : bo[s[i]].size > SmallSize => bo[s[i]].freeAge < Old
    BY RestIsYoung
  <2>6. b \notin ToSet(s)  BY InvIs, ListedIs
  <2> HIDE DEF s, e
  <2>7. /\ InOrder(s, Len(s), t) /\ t \in Seq(Bos) /\ Len(t) = Len(s) - e
        /\ \A i \in 1..Len(s) - e : t[i] = s[e + i]
    BY <2>1, <2>2, DropOrder
  <2>8. ToSet(t) = ToSet(s) \ {s[i] : i \in 1..e}  BY <2>1, <2>2, DropIs
  <2> HIDE DEF t
  <2>9. ToSet(t) = {t[i] : i \in 1..Len(t)}  BY <2>7, ListIs
  <2>10. \A c \in ToSet(t) : c \in Bos \ (S \cup {b})  BY <2>1, <2>4, <2>6, <2>8
  <2>11. \A c \in ToSet(t) : bo[c].size > SmallSize => bo[c].freeAge < Old
    <3> SUFFICES ASSUME NEW i \in 1..Len(s) - e PROVE bo[t[i]].size > SmallSize => bo[t[i]].freeAge < Old
      BY <2>7, <2>9
    <3>1. e + i \in e + 1..Len(s) /\ t[i] = s[e + i]  BY <2>1, <2>2, <2>7
    <3> QED  BY <2>5, <3>1
  <2>12. left[j] = t /\ s = list[j]  BY <2>3 DEF s
  <2> HIDE DEF left
  <2> QED  BY <2>1, <2>7, <2>10, <2>11, <2>12
<1>7. DOMAIN left = Buckets  OBVIOUS
<1> HIDE DEF left
<1>8. list'[k] = Append(left[k], b) /\ \A j \in Buckets \ {k} : list'[j] = left[j]
  BY <1>1, <1>7
<1>9. \A j \in Buckets : OldestFirst(left[j], FreeAges')
  <2> TAKE j \in Buckets
  <2>1. \A c \in ToSet(left[j]) : FreeAges'[c] = FreeAges[c]
    BY <1>5, <1>6, AgeTypes, AgeTypesNext
  <2>2. OldestFirst(list[j], FreeAges)  BY DEF FreeAgeInv
  <2> QED  BY <1>6, <2>1, <2>2, OrderKept
<1>10. OldestFirst(Append(left[k], b), FreeAges')
  <2>1. FreeAges' \in [Bos -> Nat] /\ FreeAges'[b] = 0  BY <1>5, AgeTypesNext
  <2>2. left[k] \in Seq(Bos) /\ OldestFirst(left[k], FreeAges')  BY <1>6, <1>9
  <2> QED  BY <2>1, <2>2, YoungestLast
<1>11. \A j \in Buckets : OldestFirst(list'[j], FreeAges')
  <2>1. OldestFirst(list'[k], FreeAges')  BY <1>8, <1>10
  <2>2. \A j \in Buckets \ {k} : OldestFirst(list'[j], FreeAges')
    <3> TAKE j \in Buckets \ {k}
    <3>1. list'[j] = left[j]  BY <1>8
    <3> QED  BY <1>9, <3>1
  <2> QED  BY <2>1, <2>2
<1>12. \A c \in Bos : Listed(c)' /\ bo'[c].size > SmallSize => bo'[c].freeAge < Old
  <2> SUFFICES ASSUME NEW c \in Bos, Listed(c)', bo'[c].size > SmallSize PROVE bo'[c].freeAge < Old
    OBVIOUS
  <2>1. PICK j \in Buckets : c \in ToSet(list'[j])  BY AgeTypesNext
  <2>2. c = b \/ c \in ToSet(left[j])
    <3>1. CASE j = k
      <4>1. ToSet(Append(left[k], b)) \subseteq ToSet(left[k]) \cup {b}
        <5> DEFINE t == Append(left[k], b)
                   n == Len(left[k])
        <5>1. /\ t \in Seq(Bos) /\ Len(t) = n + 1 /\ t[n + 1] = b
              /\ \A i \in 1..n : t[i] = left[k][i]
          BY <1>6, AppendProperties
        <5>2. n \in Nat /\ \A i \in 1..n : left[k][i] \in ToSet(left[k])  BY <1>6, ListIs
        <5> HIDE DEF t, n
        <5>3. ToSet(t) = {t[i] : i \in 1..n + 1}  BY <5>1, ListIs
        <5>4. \A i \in 1..n + 1 : i \in 1..n \/ i = n + 1  BY <5>2
        <5>5. ToSet(t) \subseteq ToSet(left[k]) \cup {b}  BY <5>1, <5>2, <5>3, <5>4
        <5> QED  BY <5>5 DEF t
      <4> QED  BY <1>8, <2>1, <3>1, <4>1
    <3>2. CASE j # k  BY <1>8, <2>1, <3>2
    <3> QED  BY <3>1, <3>2
  <2>3. CASE c = b  BY <1>5, <2>3, AgeConstants
  <2>4. CASE c \in ToSet(left[j])
    <3>1. bo'[c] = bo[c]  BY <1>5, <1>6, <2>4
    <3> QED  BY <1>6, <2>4, <3>1
  <2> QED  BY <2>2, <2>3, <2>4
<1> QED  BY <1>11, <1>12 DEF FreeAgeInv, OldestFirst

-----------------------------------------------------------------------------
(* The actions.                                                            *)

AgeInv == FreeAgeInv /\ UnmapAgeInv

\* A step that changes no list, and no age of a buffer that is in one.
LEMMA NoListStep ==
  ASSUME IInv, IInv', AgeInv, UNCHANGED <<list, mmapList, mmapTime>>,
         cacheTime' \in {cacheTime, "zero"},
         \A b \in Bos : \/ /\ bo'[b].freeAge = bo[b].freeAge /\ bo'[b].size = bo[b].size
                           /\ bo'[b].unmapAge = bo[b].unmapAge
                        \/ bo[b].kind = "free"
  PROVE  AgeInv'
<1>1. \A b \in Bos : bo[b].kind = "free" => ~Listed(b) /\ ~InMmapCache(b)
  BY InvIs DEF PlaceOf, NoBo, InMmapCache
<1>2. FreeCalm
  <2>1. \A b \in Bos : Listed(b) => bo'[b].freeAge = bo[b].freeAge /\ bo'[b].size = bo[b].size
    BY <1>1
  <2> QED  BY <2>1, FreeSame
<1>3. MmapCalm
  <2>1. \A b \in Bos : InMmapCache(b)' => InMmapCache(b)
    BY AgeTypesNext, InvIs DEF MmapInv
  <2>2. \A b \in Bos : InMmapCache(b)' =>
          bo'[b].unmapAge = bo[b].unmapAge /\ bo'[b].size = bo[b].size
    BY <1>1, <2>1
  <2> QED  BY <2>2, MmapSame
<1> QED  BY <1>2, <1>3, FreeCalmKeeps, MmapCalmKeeps DEF AgeInv

\* What the buffers of S leave in the mmap cache.
LEMMA FreeBosCalm ==
  ASSUME IInv, NEW S \in SUBSET Bos, NEW f, FreeBos(S, f),
         \A c \in Bos \ S : f[c].unmapAge = bo[c].unmapAge /\ f[c].size = bo[c].size
  PROVE  MmapCalm
<1>1. /\ bo' = [c \in Bos |-> IF c \in S THEN NoBo ELSE f[c]]
      /\ mmapList' = Without(mmapList, S) /\ mmapTime' = mmapTime
  BY DEF FreeBos
<1>2. InOrder(mmapList, Len(mmapList), mmapList')  BY <1>1, AgeTypes, WithoutOrder
<1>3. \A c \in Bos : InMmapCache(c)' => bo'[c].unmapAge = bo[c].unmapAge /\ bo'[c].size = bo[c].size
  <2>1. \A c \in S : ~InMmapCache(c)'  BY <1>1 DEF InMmapCache, NoBo
  <2> QED  BY <1>1, <2>1
<1> QED  BY <1>1, <1>2, <1>3 DEF MmapCalm

LEMMA ReleaseAges ==
  ASSUME IInv, IInv', AgeInv, Ruled, NEW t \in Threads, Release(t)
  PROVE  AgeInv'
<1>1. pc[t] = "releasing"  BY AtIs DEF Release
<1>2. PICK b \in Bos : b = arg[t]
  <2>1. CallOf(t) /\ CallTypes  BY InvIs
  <2> QED  BY <1>1, <2>1 DEF CallOf, CallTypes
<1>3. \/ bo[b].reuse /\ Bucket(b) # None /\ CacheFree(b)
      \/ FreeBos({b}, bo) /\ UNCHANGED cacheVars
  <2>1. IF bo[b].reuse /\ Bucket(b) # None THEN CacheFree(b)
        ELSE FreeBos({b}, bo) /\ UNCHANGED cacheVars
    BY <1>2, Zenon DEF Release
  <2> QED  BY <2>1, Zenon
<1>4. ~Listed(b)
  <2>1. Passes(t, b)  BY <1>1, <1>2 DEF Passes
  <2> QED  BY <2>1, InvIs DEF PlaceOf
<1>5. CASE bo[b].reuse /\ Bucket(b) # None /\ CacheFree(b)
  <2>1. PICK k \in Buckets : Bucket(b) = k  BY <1>5, BucketOfBo, InvIs
  <2>2. FreeAgeInv'  BY <1>4, <1>5, <2>1, CacheFreeAges DEF AgeInv
  <2>3. MmapCalm
    <3>1. FreeBos(ExpiredBos, [bo EXCEPT ![b].freeAge = 0])  BY <1>5 DEF CacheFree
    <3>2. \A c \in Bos : /\ [bo EXCEPT ![b].freeAge = 0][c].unmapAge = bo[c].unmapAge
                         /\ [bo EXCEPT ![b].freeAge = 0][c].size = bo[c].size
      BY InvIs DEF DataTypes, Objects
    <3>3. ExpiredBos \in SUBSET Bos  BY ExpiredBosAre
    <3> QED  BY <3>1, <3>2, <3>3, FreeBosCalm
  <2> QED  BY <2>2, <2>3, MmapCalmKeeps DEF AgeInv
<1>6. CASE FreeBos({b}, bo) /\ UNCHANGED cacheVars
  <2>1. MmapCalm  BY <1>6, FreeBosCalm
  <2>2. FreeCalm
    <3>1. bo' = [c \in Bos |-> IF c \in {b} THEN NoBo ELSE bo[c]]  BY <1>6 DEF FreeBos
    <3>2. \A c \in Bos : Listed(c) => bo'[c].freeAge = bo[c].freeAge /\ bo'[c].size = bo[c].size
      BY <1>4, <3>1
    <3>3. UNCHANGED list /\ cacheTime' \in {cacheTime, "zero"}  BY <1>6 DEF cacheVars
    <3> QED  BY <3>2, <3>3, FreeSame
  <2> QED  BY <2>1, <2>2, FreeCalmKeeps, MmapCalmKeeps DEF AgeInv
<1> QED  BY <1>3, <1>5, <1>6

\* One buffer of a bucket is taken out.
LEMMA TakenOut ==
  ASSUME IInv, IInv', NEW b \in Bos, NEW k \in Buckets, NEW rest, list' = [list EXCEPT ![k] = rest],
         InOrder(list[k], Len(list[k]), rest), UNCHANGED cacheTime, ~Listed(b)',
         \A c \in Bos \ {b} : bo'[c].freeAge = bo[c].freeAge /\ bo'[c].size = bo[c].size
  PROVE  FreeCalm
<1>1. \A j \in Buckets : InOrder(list[j], Len(list[j]), list'[j])
  <2> TAKE j \in Buckets
  <2>1. list \in [Buckets -> Seq(Bos)]  BY InvIs DEF DataTypes
  <2>2. j = k => list'[j] = rest  BY <2>1
  <2>3. j # k => list'[j] = list[j] /\ InOrder(list[j], Len(list[j]), list[j])
    BY <2>1, AgeTypes, SameOrder
  <2> QED  BY <2>2, <2>3
<1> QED  BY <1>1 DEF FreeCalm

LEMMA FlushFreeAges ==
  ASSUME IInv, IInv', AgeInv, Ruled, NEW t \in Threads, FlushFree(t)
  PROVE  AgeInv'
<1>1. pc[t] = "flush_free"  BY AtIs DEF FlushFree
<1>2. PICK b \in Bos : b = arg[t] /\ Listed(b)
  <2>1. CallOf(t) /\ CallTypes  BY InvIs
  <2> QED  BY <1>1, <2>1 DEF CallOf, CallTypes
<1>3. PICK k \in Buckets : k = Bucket(b)  BY <1>2, ListedBo
<1>4. /\ list' = [list EXCEPT ![k] = Without(list[k], {b})] /\ FreeBos({b}, bo)
      /\ UNCHANGED cacheTime
  BY <1>2, <1>3 DEF FlushFree
<1>5. MmapCalm  BY <1>4, FreeBosCalm
<1>6. bo' = [c \in Bos |-> IF c \in {b} THEN NoBo ELSE bo[c]]  BY <1>4 DEF FreeBos
<1>7. ~Listed(b)'
  <2>1. bo'[b].kind = "free"  BY <1>6 DEF NoBo
  <2>2. PlaceOf(b)'  BY DEF IInv, PlaceInv
  <2> QED  BY <2>1, <2>2 DEF PlaceOf
<1>8. InOrder(list[k], Len(list[k]), Without(list[k], {b}))  BY AgeTypes, WithoutOrder
<1>9. FreeCalm
  <2>1. \A c \in Bos \ {b} : bo'[c].freeAge = bo[c].freeAge /\ bo'[c].size = bo[c].size
    BY <1>6
  <2> QED  BY <1>4, <1>7, <1>8, <2>1, TakenOut
<1> QED  BY <1>5, <1>9, FreeCalmKeeps, MmapCalmKeeps DEF AgeInv

LEMMA NewFromCacheAges ==
  ASSUME IInv, IInv', AgeInv, Ruled, NEW t \in Threads, NewFromCache(t)
  PROVE  AgeInv'
<1> DEFINE K(r) == BucketOf(r.size, r.sparse)
<1>1. PICK r \in Requests :
        /\ Hit(K(r)) /\ list' = [list EXCEPT ![K(r)] = Tail(@)] /\ Reset(Head(list[K(r)]), 1)
        /\ app' = [app EXCEPT ![Head(list[K(r)])] = [refs |-> 1, maps |-> 0, size |-> r.size,
                                                     sparse |-> r.sparse]]
  BY DEF NewFromCache
<1>2. PICK k \in Buckets : k = K(r) /\ k # None /\ list[k] # <<>>
  <2>1. r.size \in Nat /\ r.sparse \in BOOLEAN  BY Constants
  <2>2. K(r) # None /\ list[K(r)] # <<>>  BY <1>1 DEF Hit
  <2> QED  BY <2>1, <2>2, BucketIs
<1> HIDE DEF K
<1>3. PICK b \in Bos : b = Head(list[k]) /\ Listed(b)  BY <1>2, InvIs, HeadIsListed
<1> DEFINE x == [bo[b] EXCEPT !.ref = 1, !.mmapRef = 0, !.freeAge = 0]
<1>4. /\ list' = [list EXCEPT ![k] = Tail(list[k])] /\ Reset(b, 1) /\ UNCHANGED cacheTime
      /\ app' = [app EXCEPT ![b] = [refs |-> 1, maps |-> 0, size |-> r.size, sparse |-> r.sparse]]
  BY <1>1, <1>2, <1>3 DEF NewFromCache
<1>5. bo[b] \in Objects /\ bo \in [Bos -> Objects]  BY InvIs DEF DataTypes
<1>6. IF bo[b].map = "mapped" THEN UnmapToCache(b, [bo EXCEPT ![b] = x])
      ELSE bo' = [bo EXCEPT ![b] = x] /\ UNCHANGED mmapVars
  <2>1. [bo EXCEPT ![b].ref = 1, ![b].mmapRef = 0, ![b].freeAge = 0] = [bo EXCEPT ![b] = x]
    BY <1>5
  <2>2. IF bo[b].map = "mapped"
        THEN UnmapToCache(b, [bo EXCEPT ![b].ref = 1, ![b].mmapRef = 0, ![b].freeAge = 0])
        ELSE bo' = [bo EXCEPT ![b].ref = 1, ![b].mmapRef = 0, ![b].freeAge = 0] /\ UNCHANGED mmapVars
    BY <1>4 DEF Reset
  <2> HIDE DEF x
  <2> QED  BY <2>1, <2>2
<1>7. x \in Objects /\ x.size = bo[b].size /\ x.unmapAge = bo[b].unmapAge  BY <1>5 DEF Objects
<1> HIDE DEF x
<1>8. ~Listed(b)'
  <2>1. app'[b].refs = 1
    <3>1. app \in [Bos -> Holds]  BY InvIs DEF DataTypes
    <3> QED  BY <1>4, <3>1
  <2>2. PlaceOf(b)'  BY DEF IInv, PlaceInv
  <2> QED  BY <2>1, <2>2 DEF PlaceOf, Held
<1>9. /\ UnmapAgeInv'
      /\ \A c \in Bos \ {b} : bo'[c].freeAge = bo[c].freeAge /\ bo'[c].size = bo[c].size
  <2>1. CASE bo[b].map = "mapped"
    <3>1. UnmapToCache(b, [bo EXCEPT ![b] = x]) /\ UnmapAgeInv  BY <1>6, <2>1 DEF AgeInv
    <3> QED  BY <1>7, <2>1, <3>1, UnmapToCacheAges
  <2>2. CASE bo[b].map # "mapped"
    <3>1. bo' = [bo EXCEPT ![b] = x] /\ UNCHANGED mmapVars  BY <1>6, <2>2
    <3>2. \A c \in Bos : bo'[c].unmapAge = bo[c].unmapAge /\ bo'[c].size = bo[c].size
      BY <1>5, <1>7, <3>1
    <3>3. \A c \in Bos \ {b} : bo'[c] = bo[c]  BY <1>5, <3>1
    <3>4. MmapCalm  BY <3>1, <3>2, MmapSame DEF mmapVars
    <3>5. UnmapAgeInv'  BY <3>4, MmapCalmKeeps DEF AgeInv
    <3> QED  BY <3>3, <3>5
  <2> QED  BY <2>1, <2>2
<1>10. InOrder(list[k], Len(list[k]), Tail(list[k]))  BY <1>2, AgeTypes, TailOrder
<1>11. FreeCalm  BY <1>4, <1>8, <1>9, <1>10, TakenOut
<1> QED  BY <1>9, <1>11, FreeCalmKeeps DEF AgeInv

LEMMA MapAges ==
  ASSUME IInv, IInv', AgeInv, NEW t \in Threads, NEW b \in Bos, Map(t, b)
  PROVE  AgeInv'
<1> DEFINE uses == IF bo[b].map = "mapped" THEN bo[b].mmapRef + 1 ELSE 1
           x == [bo[b] EXCEPT !.map = "mapped", !.unmapAge = 0, !.mmapRef = uses]
<1>1. /\ bo' = [bo EXCEPT ![b].map = "mapped", ![b].unmapAge = 0,
                          ![b].mmapRef = IF bo[b].map = "mapped" THEN @ + 1 ELSE 1]
      /\ IF bo[b].map = "cached" THEN FromCacheMap(b) ELSE UNCHANGED mmapVars
      /\ UNCHANGED cacheVars
  BY DEF Map
<1>2. bo[b] \in Objects /\ bo \in [Bos -> Objects]  BY InvIs DEF DataTypes
<1>3. bo' = [bo EXCEPT ![b] = x]  BY <1>1, <1>2
<1> HIDE DEF uses
<1>4. x.freeAge = bo[b].freeAge /\ x.size = bo[b].size /\ x.map = "mapped"
  BY <1>2 DEF Objects
<1> HIDE DEF x
<1>5. bo'[b] = x /\ \A c \in Bos \ {b} : bo'[c] = bo[c]  BY <1>2, <1>3
<1>6. FreeCalm
  <2>1. \A c \in Bos : bo'[c].freeAge = bo[c].freeAge /\ bo'[c].size = bo[c].size
    BY <1>4, <1>5
  <2>2. UNCHANGED <<list, cacheTime>>  BY <1>1 DEF cacheVars
  <2> QED  BY <2>1, <2>2, FreeSame
<1>7. MmapCalm
  <2>1. \A c \in Bos : InMmapCache(c)' =>
          bo'[c].unmapAge = bo[c].unmapAge /\ bo'[c].size = bo[c].size
    BY <1>4, <1>5 DEF InMmapCache
  <2>2. InOrder(mmapList, Len(mmapList), mmapList') /\ mmapTime' = mmapTime
    <3>1. CASE bo[b].map = "cached"
      <4>1. mmapList' = Without(mmapList, {b}) /\ mmapTime' = mmapTime
        BY <1>1, <3>1 DEF FromCacheMap
      <4> QED  BY <4>1, AgeTypes, WithoutOrder
    <3>2. CASE bo[b].map # "cached"
      <4>1. mmapList' = mmapList /\ mmapTime' = mmapTime  BY <1>1, <3>2 DEF mmapVars
      <4> QED  BY <4>1, AgeTypes, SameOrder
    <3> QED  BY <3>1, <3>2
  <2> QED  BY <2>1, <2>2 DEF MmapCalm
<1> QED  BY <1>6, <1>7, FreeCalmKeeps, MmapCalmKeeps DEF AgeInv

LEMMA UnmapKeepsAges ==
  ASSUME IInv, IInv', AgeInv, NEW t \in Threads, NEW b \in Bos, Unmap(t, b)
  PROVE  AgeInv'
<1>1. /\ app[b].maps > 0 /\ UNCHANGED cacheVars
      /\ \/ bo[b].mmapRef = 1 /\ UnmapToCache(b, [bo EXCEPT ![b].mmapRef = 0])
         \/ /\ bo' = [bo EXCEPT ![b].mmapRef = IF @ = 0 THEN 0 ELSE @ - 1]
            /\ UNCHANGED mmapVars
  BY DEF Unmap
<1>2. bo[b] \in Objects /\ bo \in [Bos -> Objects]  BY InvIs DEF DataTypes
<1>3. CASE UnmapToCache(b, [bo EXCEPT ![b].mmapRef = 0])
  <2> DEFINE x == [bo[b] EXCEPT !.mmapRef = 0]
  <2>1. [bo EXCEPT ![b].mmapRef = 0] = [bo EXCEPT ![b] = x]  BY <1>2
  <2>2. x \in Objects /\ x.size = bo[b].size /\ x.freeAge = bo[b].freeAge  BY <1>2 DEF Objects
  <2> HIDE DEF x
  <2>3. bo[b].map = "mapped"
    <3>1. RefOf(b) /\ app[b] \in Holds  BY InvIs
    <3>2. Held(b)  BY <1>1, <3>1 DEF RefOf, Held, Holds
    <3> QED  BY <1>1, <3>1, <3>2 DEF RefOf
  <2>4. UnmapToCache(b, [bo EXCEPT ![b] = x])  BY <1>3, <2>1
  <2>5. /\ UnmapAgeInv'
        /\ \A c \in Bos : bo'[c].freeAge = bo[c].freeAge /\ bo'[c].size = bo[c].size
    BY <2>2, <2>3, <2>4, UnmapToCacheAges DEF AgeInv
  <2>6. FreeCalm
    <3>1. UNCHANGED <<list, cacheTime>>  BY <1>1 DEF cacheVars
    <3> QED  BY <2>5, <3>1, FreeSame
  <2> QED  BY <2>5, <2>6, FreeCalmKeeps DEF AgeInv
<1>4. CASE /\ bo' = [bo EXCEPT ![b].mmapRef = IF @ = 0 THEN 0 ELSE @ - 1]
           /\ UNCHANGED mmapVars
  <2> DEFINE uses == IF bo[b].mmapRef = 0 THEN 0 ELSE bo[b].mmapRef - 1
  <2>1. bo' = [bo EXCEPT ![b] = [bo[b] EXCEPT !.mmapRef = uses]]  BY <1>2, <1>4
  <2> HIDE DEF uses
  <2>2. \A c \in Bos : /\ bo'[c].freeAge = bo[c].freeAge /\ bo'[c].size = bo[c].size
                       /\ bo'[c].unmapAge = bo[c].unmapAge
    <3>1. \A c \in Bos : bo'[c] = IF c = b THEN [bo[b] EXCEPT !.mmapRef = uses] ELSE bo[c]
      BY <1>2, <2>1
    <3> QED  BY <1>2, <3>1 DEF Objects
  <2>3. UNCHANGED <<list, mmapList, mmapTime, cacheTime>>  BY <1>1, <1>4 DEF cacheVars, mmapVars
  <2> QED  BY <2>2, <2>3, NoListStep
<1> QED  BY <1>1, <1>3, <1>4

\* A second passes: the order stays, and the cleanups have to look again.
LEMMA TickAges ==
  ASSUME IInv, IInv', AgeInv, Tick
  PROVE  AgeInv'
<1>1. /\ bo' = [b \in Bos |-> [bo[b] EXCEPT !.freeAge = Older(bo[b].freeAge, Listed(b)),
                               !.unmapAge = Older(bo[b].unmapAge, bo[b].map = "cached")]]
      /\ cacheTime' # "now" /\ mmapTime' # "now" /\ UNCHANGED <<list, mmapList>>
  <2>1. cacheTime' # "now" /\ mmapTime' # "now" /\ UNCHANGED <<list, mmapList>>  BY DEF Tick
  <2> QED  BY <2>1 DEF Tick
<1>2. \A b \in Bos : /\ FreeAges'[b] = Older(FreeAges[b], Listed(b))
                     /\ UnmapAges'[b] = Older(UnmapAges[b], bo[b].map = "cached")
                     /\ FreeAges[b] \in Nat /\ UnmapAges[b] \in Nat
  <2> TAKE b \in Bos
  <2> DEFINE free == Older(bo[b].freeAge, Listed(b))
             unmap == Older(bo[b].unmapAge, bo[b].map = "cached")
  <2>1. bo'[b] = [bo[b] EXCEPT !.freeAge = free, !.unmapAge = unmap]  BY <1>1
  <2>2. bo[b] \in Objects  BY InvIs
  <2> HIDE DEF free, unmap
  <2>3. bo'[b].freeAge = free /\ bo'[b].unmapAge = unmap  BY <2>1, <2>2 DEF Objects
  <2> QED  BY <2>2, <2>3, AgeTypes, AgeTypesNext DEF free, unmap
<1>3. \A m, n \in Nat : m <= n => Older(m, TRUE) <= Older(n, TRUE)  BY AgeConstants DEF Older
<1>4. \A k \in Buckets : OldestFirst(list[k], FreeAges')
  <2> SUFFICES ASSUME NEW k \in Buckets, NEW i \in 1..Len(list[k]), NEW j \in 1..Len(list[k]), i <= j
               PROVE  FreeAges'[list[k][j]] <= FreeAges'[list[k][i]]
    BY DEF OldestFirst
  <2>1. /\ list[k][i] \in Bos /\ list[k][j] \in Bos /\ Listed(list[k][i]) = TRUE
        /\ Listed(list[k][j]) = TRUE
    <3>1. ToSet(list[k]) \subseteq Bos /\ list[k][i] \in ToSet(list[k]) /\ list[k][j] \in ToSet(list[k])
      BY AgeTypes, ListIs
    <3>2. Listed(list[k][i]) /\ Listed(list[k][j])  BY <3>1, InvIs, ListedIs
    <3> QED  BY <3>1, <3>2, Zenon DEF Listed
  <2>2. FreeAges[list[k][j]] <= FreeAges[list[k][i]]  BY DEF AgeInv, FreeAgeInv, OldestFirst
  <2>3. /\ FreeAges'[list[k][i]] = Older(FreeAges[list[k][i]], TRUE)
        /\ FreeAges'[list[k][j]] = Older(FreeAges[list[k][j]], TRUE)
    BY <1>2, <2>1
  <2> QED  BY <1>2, <1>3, <2>1, <2>2, <2>3
<1>5. OldestFirst(mmapList, UnmapAges')
  <2> SUFFICES ASSUME NEW i \in 1..Len(mmapList), NEW j \in 1..Len(mmapList), i <= j
               PROVE  UnmapAges'[mmapList[j]] <= UnmapAges'[mmapList[i]]
    BY DEF OldestFirst
  <2>1. /\ mmapList[i] \in Bos /\ mmapList[j] \in Bos
        /\ bo[mmapList[i]].map = "cached" /\ bo[mmapList[j]].map = "cached"
    <3>1. /\ ToSet(mmapList) \subseteq Bos /\ mmapList[i] \in ToSet(mmapList)
          /\ mmapList[j] \in ToSet(mmapList)
      BY AgeTypes, ListIs
    <3> QED  BY <3>1, InvIs DEF MmapInv, InMmapCache
  <2>2. UnmapAges[mmapList[j]] <= UnmapAges[mmapList[i]]  BY DEF AgeInv, UnmapAgeInv, OldestFirst
  <2>3. /\ UnmapAges'[mmapList[i]] = Older(UnmapAges[mmapList[i]], TRUE)
        /\ UnmapAges'[mmapList[j]] = Older(UnmapAges[mmapList[j]], TRUE)
    BY <1>2, <2>1
  <2> QED  BY <1>2, <1>3, <2>1, <2>2, <2>3
<1>6. FreeAgeInv'  BY <1>1, <1>4 DEF FreeAgeInv, OldestFirst
<1>7. UnmapAgeInv'  BY <1>1, <1>5 DEF UnmapAgeInv, OldestFirst
<1> QED  BY <1>6, <1>7 DEF AgeInv

\* An object that a step changes keeps its size and ages, or was not there before.
LEMMA OneChanged ==
  ASSUME IInv, IInv', AgeInv, NEW b \in Bos, NEW x, bo' = [bo EXCEPT ![b] = x],
         \/ x.freeAge = bo[b].freeAge /\ x.size = bo[b].size /\ x.unmapAge = bo[b].unmapAge
         \/ bo[b].kind = "free",
         UNCHANGED <<list, mmapList, mmapTime>>, cacheTime' \in {cacheTime, "zero"}
  PROVE  AgeInv'
<1>1. bo \in [Bos -> Objects]  BY InvIs DEF DataTypes
<1>2. bo'[b] = x /\ \A c \in Bos \ {b} : bo'[c] = bo[c]  BY <1>1
<1>3. \A c \in Bos : \/ /\ bo'[c].freeAge = bo[c].freeAge /\ bo'[c].size = bo[c].size
                        /\ bo'[c].unmapAge = bo[c].unmapAge
                     \/ bo[c].kind = "free"
  <2> TAKE c \in Bos
  <2>1. CASE c = b  BY <1>2, <2>1
  <2>2. CASE c # b  BY <1>2, <2>2
  <2> QED  BY <2>1, <2>2
<1> QED  BY <1>3, NoListStep

LEMMA ReferenceAges ==
  ASSUME IInv, IInv', AgeInv, NEW t \in Threads, NEW b \in Bos, Ref(t, b) \/ Unref(t, b)
  PROVE  AgeInv'
<1>1. bo[b] \in Objects /\ bo \in [Bos -> Objects]  BY InvIs DEF DataTypes
<1>2. UNCHANGED <<list, mmapList, mmapTime, cacheTime>>  BY DEF Ref, Unref, cacheVars, mmapVars
<1>3. PICK n : bo' = [bo EXCEPT ![b] = [bo[b] EXCEPT !.ref = n]]
  <2>1. CASE Ref(t, b)
    <3>1. bo' = [bo EXCEPT ![b] = [bo[b] EXCEPT !.ref = bo[b].ref + 1]]  BY <1>1, <2>1 DEF Ref
    <3> QED  BY <3>1
  <2>2. CASE Unref(t, b)
    <3>1. bo' = [bo EXCEPT ![b] = [bo[b] EXCEPT !.ref = bo[b].ref - 1]]  BY <1>1, <2>2 DEF Unref
    <3> QED  BY <3>1
  <2> QED  BY <2>1, <2>2
<1> DEFINE x == [bo[b] EXCEPT !.ref = n]
<1>4. bo' = [bo EXCEPT ![b] = x]  BY <1>3
<1>5. x.freeAge = bo[b].freeAge /\ x.size = bo[b].size /\ x.unmapAge = bo[b].unmapAge
  BY <1>1 DEF Objects
<1> HIDE DEF x
<1> QED  BY <1>2, <1>4, <1>5, OneChanged

LEMMA NamingAges ==
  ASSUME IInv, IInv', AgeInv, NEW t \in Threads, InsertName(t)
  PROVE  AgeInv'
<1>1. UNCHANGED <<list, mmapList, mmapTime, cacheTime>>  BY DEF InsertName, cacheVars, mmapVars
<1>2. bo \in [Bos -> Objects]  BY InvIs DEF DataTypes
<1>3. PICK b \in Bos : b = arg[t]
  <2>1. pc[t] = "naming"  BY DEF InsertName, At
  <2>2. CallOf(t) /\ CallTypes  BY InvIs
  <2> QED  BY <2>1, <2>2 DEF CallOf, CallTypes
<1>4. CASE bo' = bo
  <2>1. \A c \in Bos : /\ bo'[c].freeAge = bo[c].freeAge /\ bo'[c].size = bo[c].size
                       /\ bo'[c].unmapAge = bo[c].unmapAge
    BY <1>4
  <2> QED  BY <1>1, <2>1, NoListStep
<1>5. CASE \E n \in Names : bo' = [bo EXCEPT ![b].name = n]
  <2>1. PICK n \in Names : bo' = [bo EXCEPT ![b].name = n]  BY <1>5
  <2> DEFINE x == [bo[b] EXCEPT !.name = n]
  <2>2. bo' = [bo EXCEPT ![b] = x]  BY <1>2, <2>1
  <2>3. x.freeAge = bo[b].freeAge /\ x.size = bo[b].size /\ x.unmapAge = bo[b].unmapAge
    BY <1>2 DEF Objects
  <2> HIDE DEF x
  <2> QED  BY <1>1, <2>2, <2>3, OneChanged
<1>6. bo' = bo \/ \E n \in Names : bo' = [bo EXCEPT ![b].name = n]  BY <1>3 DEF InsertName
<1> QED  BY <1>4, <1>5, <1>6

LEMMA ForbidAges ==
  ASSUME IInv, IInv', AgeInv, NEW t \in Threads, Forbid(t)
  PROVE  AgeInv'
<1>1. UNCHANGED <<list, mmapList, mmapTime, cacheTime>>  BY DEF Forbid, cacheVars, mmapVars
<1>2. bo \in [Bos -> Objects]  BY InvIs DEF DataTypes
<1>3. PICK b \in Bos : b = arg[t]
  <2>1. pc[t] = "opened"  BY DEF Forbid, At
  <2>2. CallOf(t) /\ CallTypes  BY InvIs
  <2> QED  BY <2>1, <2>2 DEF CallOf, CallTypes
<1> DEFINE x == [bo[b] EXCEPT !.reuse = FALSE]
<1>4. bo' = [bo EXCEPT ![b] = x]  BY <1>2, <1>3 DEF Forbid
<1>5. x.freeAge = bo[b].freeAge /\ x.size = bo[b].size /\ x.unmapAge = bo[b].unmapAge
  BY <1>2 DEF Objects
<1> HIDE DEF x
<1> QED  BY <1>1, <1>4, <1>5, OneChanged

LEMMA NewObjectAges ==
  ASSUME IInv, IInv', AgeInv, Ruled, NEW t \in Threads,
         Create(t) \/ \E n \in Names : FromName(t, n)
  PROVE  AgeInv'
<1>1. \E b \in Bos : \E x : /\ bo[b].kind = "free" /\ bo' = [bo EXCEPT ![b] = x]
                           /\ UNCHANGED <<list, mmapList, mmapTime, cacheTime>>
  <2>1. CASE Create(t)  BY <2>1 DEF Create, cacheVars, mmapVars
  <2>2. CASE \E n \in Names : FromName(t, n)
    <3>1. PICK n \in Names : FromName(t, n)  BY <2>2
    <3>2. nameTable[n] = None  BY <3>1 DEF FromName, Ruled
    <3>3. UNCHANGED cacheTime  BY <3>1 DEF FromName
    <3>4. \E c \in Bos :
            /\ bo[c].kind = "free"
            /\ bo' = [bo EXCEPT ![c] = [NoBo EXCEPT !.kind = "opened", !.ref = 1,
                                          !.size = ServerSize, !.name = n]]
            /\ UNCHANGED <<list, entries, mmapVars>>
      BY <3>1, <3>2 DEF FromName
    <3> QED  BY <3>3, <3>4 DEF mmapVars
  <2> QED  BY <2>1, <2>2
<1> QED  BY <1>1, OneChanged

\* The steps that touch no buffer.
LEMMA OtherAges ==
  ASSUME IInv, IInv', AgeInv, UNCHANGED <<bo, list, mmapList, mmapTime>>,
         cacheTime' \in {cacheTime, "zero"}
  PROVE  AgeInv'
  BY NoListStep

LEMMA NextAges ==
  ASSUME IInv, IInv', AgeInv, Ruled, [Next]_vars
  PROVE  AgeInv'
<1>1. ASSUME NEW t \in Threads, NewMiss(t) \/ CreateFail(t) \/ Register(t) \/ FlushTake(t) \/ FlushEnd(t)
      PROVE  AgeInv'
  <2>1. UNCHANGED <<bo, list, mmapList, mmapTime>> /\ cacheTime' \in {cacheTime, "zero"}
    BY <1>1 DEF NewMiss, CreateFail, Register, FlushTake, FlushEnd, cacheVars, mmapVars
  <2> QED  BY <2>1, OtherAges
<1>2. ASSUME NEW t \in Threads, NEW b \in Bos, GetName(t, b) PROVE AgeInv'
  <2>1. UNCHANGED <<bo, list, mmapList, mmapTime, cacheTime>>  BY <1>2 DEF GetName, cacheVars, mmapVars
  <2> QED  BY <2>1, OtherAges
<1>3. ASSUME NEW b \in Bos, Finish(b) PROVE AgeInv'
  <2>1. UNCHANGED <<bo, list, mmapList, mmapTime, cacheTime>>  BY <1>3 DEF Finish, cacheVars, mmapVars
  <2> QED  BY <2>1, OtherAges
<1>4. ASSUME UNCHANGED vars PROVE AgeInv'
  <2>1. UNCHANGED <<bo, list, mmapList, mmapTime, cacheTime>>  BY <1>4 DEF vars, cacheVars, mmapVars
  <2> QED  BY <2>1, OtherAges
<1>5. ASSUME NEW t \in Threads,
             \/ NewFromCache(t) \/ Create(t) \/ FlushFree(t) \/ Release(t) \/ InsertName(t)
             \/ Forbid(t) \/ \E n \in Names : FromName(t, n)
      PROVE  AgeInv'
  BY <1>5, NewFromCacheAges, NewObjectAges, FlushFreeAges, ReleaseAges, NamingAges, ForbidAges
<1>6. ASSUME NEW t \in Threads, NEW b \in Bos, Ref(t, b) \/ Unref(t, b) \/ Map(t, b) \/ Unmap(t, b)
      PROVE  AgeInv'
  BY <1>6, ReferenceAges, MapAges, UnmapKeepsAges
<1>7. ASSUME Tick PROVE AgeInv'  BY <1>7, TickAges
<1> QED  BY <1>1, <1>2, <1>3, <1>4, <1>5, <1>6, <1>7 DEF Next

LEMMA InitAges == Init => AgeInv
<1> SUFFICES ASSUME Init PROVE AgeInv  OBVIOUS
<1>1. /\ bo = [b \in Bos |-> NoBo] /\ list = [k \in Buckets |-> <<>>] /\ mmapList = <<>>
      /\ cacheTime = "zero" /\ mmapTime = "earlier"
  BY DEF Init
<1>2. \A ages : OldestFirst(<<>>, ages)  BY DEF OldestFirst
<1> QED  BY <1>1, <1>2 DEF AgeInv, FreeAgeInv, UnmapAgeInv

\* No large buffer stays in a bucket for longer than the cache's time, and no mapping
\* of one in the mmap cache: the lists are in the order of age, so that a cleanup that
\* stops at the first one it keeps has met everything that is too old.
THEOREM NothingOldIsKept ==
  ASSUME Ruled
  PROVE  Spec => []NothingGetsOld
<1>1. AgeInv => NothingGetsOld
  BY DEF AgeInv, FreeAgeInv, UnmapAgeInv, NothingGetsOld, InMmapCache
<1>2. IInv /\ IInv' /\ AgeInv /\ [Next]_vars => AgeInv'  BY NextAges
<1>3. Spec => []IInv  BY CacheInvariance
<1> QED  BY <1>1, <1>2, <1>3, InitAges, PTL DEF Spec

=============================================================================
