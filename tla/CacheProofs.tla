------------------------------ MODULE CacheProofs ------------------------------
(***************************************************************************)
(* Proofs about the two tiers of compiled programs.                        *)
(*                                                                         *)
(* CompilerCache, for every set of programs and options, every assignment  *)
(* of key lengths, every limit and any number of calls.                    *)
(* The inductive invariant has three parts that no call disturbs together. *)
(* QueueInv: the queue lists the retained keys in the order of their last  *)
(* uses, and the byte count is the queue's total; so the searches of the   *)
(* queue succeed, and the eviction loop finds room before it is empty.     *)
(* BuiltInv: whatever the map or the directory holds under a key was built *)
(* for that key's request, so it does not matter where a hit comes from.   *)
(* StatsInv: the executables counted as obtained are those counted as gone *)
(* and those still queued.  What a sum over a queue is is proved by        *)
(* induction, in the form "the set of counterexamples has no least member" *)
(* (LeastNumber).                                                          *)
(*                                                                         *)
(* DiskCache, for every number of processes, keys, crashes and damaged     *)
(* files, and every assignment of namespaces and limits.                   *)
(* Nothing locks the directory, so no step may rely on what an earlier     *)
(* step of its own process saw.  The inductive invariant therefore says    *)
(* of every value a process carries from one step to the next what stays   *)
(* true of it whatever the others do: a temporary file is the running      *)
(* store's own entry (Staged), an accepted entry was sound when read       *)
(* (LoadsOnlySound), and a trim candidate is of the process's own          *)
(* namespace (Own), because a name is never given to another entry         *)
(* (Named).                                                                *)
(* A trim meets its budget because its scan misses no file (Covered) and   *)
(* knows the sizes of those that are still sound (Sized): what it leaves   *)
(* sums up to no more than the candidates it has not removed.              *)
(***************************************************************************)
EXTENDS CompilerCache, DiskCache, Counting

\* The length of a key is a natural number.
LEMMA KeyLenType == \A k \in CompileKeys : KeyLen(k) \in Nat
  BY CacheAssumption DEF KeyLen, CompileKeys

\* The running sums of g up to n exist: were n the least number up to which they
\* did not, adding g[n] to the sums up to n - 1 would give them.
LEMMA SumExists ==
    ASSUME NEW g, NEW n \in Nat, \A m \in 1 .. n : g[m] \in Nat
    PROVE  \E f : f = [m \in 0 .. n |-> IF m = 0 THEN 0 ELSE f[m - 1] + g[m]]
<1> DEFINE Running(f, k) == f = [m \in 0 .. k |-> IF m = 0 THEN 0 ELSE f[m - 1] + g[m]]
           T == {k \in 0 .. n : ~\E f : Running(f, k)}
<1>1. SUFFICES ASSUME T # {} PROVE FALSE
  OBVIOUS
<1>2. PICK k \in T : \A j \in T : k <= j
  <2>1. T \in SUBSET Nat
    OBVIOUS
  <2> HIDE DEF T
  <2>2. QED BY <1>1, <2>1, LeastNumber
<1>3. k # 0
  <2>1. Running([m \in 0 .. 0 |-> 0], 0)
    OBVIOUS
  <2>2. QED BY <2>1
<1>4. PICK f : Running(f, k - 1)
  <2>1. k - 1 \in 0 .. n /\ ~(k <= k - 1)
    BY <1>2, <1>3
  <2>2. k - 1 \notin T
    BY <1>2, <2>1
  <2> HIDE DEF Running
  <2>3. QED BY <2>1, <2>2
<1> DEFINE h == [m \in 0 .. k |-> IF m = k THEN f[k - 1] + g[k] ELSE f[m]]
<1>5. Running(h, k)
  <2>1. k \in 1 .. n /\ \A m \in 0 .. k - 1 : f[m] = IF m = 0 THEN 0 ELSE f[m - 1] + g[m]
    BY <1>3, <1>4
  <2>2. \A m \in 0 .. k : h[m] = IF m = 0 THEN 0 ELSE h[m - 1] + g[m]
    <3> TAKE m \in 0 .. k
    <3>1. CASE m = 0
      BY <2>1, <3>1
    <3>2. CASE m = k
      BY <2>1, <3>2
    <3>3. CASE m # 0 /\ m # k
      <4>1. m \in 0 .. k - 1 /\ m - 1 \in 0 .. k /\ m - 1 # k
        BY <2>1, <3>3
      <4>2. QED BY <2>1, <3>3, <4>1
    <3>4. QED BY <3>1, <3>2, <3>3
  <2>3. QED BY <2>2
<1>6. QED BY <1>5

\* So the bytes of the first m keys are those of the first m - 1 and of the m-th.
LEMMA BytesRec ==
    ASSUME NEW q \in Seq(CompileKeys)
    PROVE  /\ Bytes(q, 0) = 0
           /\ \A m \in 1 .. Len(q) : Bytes(q, m) = Bytes(q, m - 1) + KeyLen(q[m])
<1> DEFINE g == [m \in 1 .. Len(q) |-> KeyLen(q[m])]
           sum == CHOOSE f : f = [m \in 0 .. Len(q) |->
                                    IF m = 0 THEN 0 ELSE f[m - 1] + KeyLen(q[m])]
<1>1. \E f : f = [m \in 0 .. Len(q) |-> IF m = 0 THEN 0 ELSE f[m - 1] + g[m]]
  <2>1. Len(q) \in Nat /\ \A m \in 1 .. Len(q) : g[m] \in Nat
    BY KeyLenType
  <2> HIDE DEF g
  <2>2. QED BY <2>1, SumExists
<1>2. sum = [m \in 0 .. Len(q) |-> IF m = 0 THEN 0 ELSE sum[m - 1] + KeyLen(q[m])]
  BY <1>1
<1>3. \A n : Bytes(q, n) = sum[n]
  BY DEF Bytes
<1> HIDE DEF sum
<1>4. sum[0] = 0 /\ \A m \in 1 .. Len(q) : sum[m] = sum[m - 1] + KeyLen(q[m])
  <2>1. Len(q) \in Nat
    OBVIOUS
  <2>2. \A m \in 0 .. Len(q) : sum[m] = IF m = 0 THEN 0 ELSE sum[m - 1] + KeyLen(q[m])
    BY <1>2
  <2>3. QED BY <2>1, <2>2
<1>5. QED BY <1>3, <1>4

-----------------------------------------------------------------------------
\* Bytes of queues.

Total(q) == Bytes(q, Len(q))

\* Induction up to n, over a set.
LEMMA CountUp ==
    ASSUME NEW n \in Nat, NEW S \in SUBSET (0 .. n), 0 \in S,
           \A m \in 1 .. n : m - 1 \in S => m \in S
    PROVE  S = 0 .. n
<1> DEFINE T == (0 .. n) \ S
<1>1. SUFFICES ASSUME T # {} PROVE FALSE
  OBVIOUS
<1>2. PICK x \in T : \A y \in T : x <= y
  <2>1. T \in SUBSET Nat
    OBVIOUS
  <2> HIDE DEF T
  <2>2. QED BY <1>1, <2>1, LeastNumber
<1>3. x \in 1 .. n /\ x - 1 \in 0 .. n /\ ~(x <= x - 1)
  BY <1>2
<1>4. x - 1 \notin T
  BY <1>2, <1>3
<1>5. QED BY <1>2, <1>3, <1>4

\* A prefix of a queue has some natural number of bytes.
LEMMA BytesType ==
    ASSUME NEW q \in Seq(CompileKeys)
    PROVE  \A n \in 0 .. Len(q) : Bytes(q, n) \in Nat
<1> DEFINE n == Len(q)
           S == {m \in 0 .. n : Bytes(q, m) \in Nat}
<1>1. n \in Nat /\ \A m \in 1 .. n : q[m] \in CompileKeys
  OBVIOUS
<1>2. 0 \in S
  BY BytesRec
<1>3. \A m \in 1 .. n : m - 1 \in S => m \in S
  <2> TAKE m \in 1 .. n
  <2>1. Bytes(q, m) = Bytes(q, m - 1) + KeyLen(q[m])
    BY BytesRec
  <2>2. KeyLen(q[m]) \in Nat
    BY <1>1, KeyLenType
  <2>3. QED BY <1>1, <2>1, <2>2
<1>4. S = 0 .. n
  <2> HIDE DEF S, n
  <2>1. S \in SUBSET (0 .. n)
    BY DEF S
  <2>2. QED BY <1>1, <1>2, <1>3, <2>1, CountUp
<1>5. QED BY <1>4

\* The n keys of q after the first a are those of r after the first b.
Agree(q, a, r, b, n) ==
    /\ a + n <= Len(q) /\ b + n <= Len(r)
    /\ \A i \in 1 .. n : q[a + i] = r[b + i]

\* Two queues that agree on a stretch have the same bytes there.
LEMMA SameStretch ==
    ASSUME NEW q \in Seq(CompileKeys), NEW r \in Seq(CompileKeys),
           NEW a \in Nat, NEW b \in Nat, NEW n \in Nat, Agree(q, a, r, b, n)
    PROVE  Bytes(q, a + n) - Bytes(q, a) = Bytes(r, b + n) - Bytes(r, b)
<1> USE DEF Agree
<1> DEFINE S == {m \in 0 .. n : Bytes(q, a + m) - Bytes(q, a) = Bytes(r, b + m) - Bytes(r, b)}
<1>1. /\ \A m \in 0 .. n : Bytes(q, a + m) \in Nat /\ Bytes(r, b + m) \in Nat
      /\ Bytes(q, a) \in Nat /\ Bytes(r, b) \in Nat
  <2>1. /\ Len(q) \in Nat /\ Len(r) \in Nat
        /\ \A m \in 0 .. n : a + m \in 0 .. Len(q) /\ b + m \in 0 .. Len(r)
        /\ a \in 0 .. Len(q) /\ b \in 0 .. Len(r)
    OBVIOUS
  <2>2. QED BY <2>1, BytesType
<1>2. 0 \in S
  BY <1>1
<1>3. \A m \in 1 .. n : m - 1 \in S => m \in S
  <2> TAKE m \in 1 .. n
  <2>1. /\ a + m \in 1 .. Len(q) /\ b + m \in 1 .. Len(r)
        /\ (a + m) - 1 = a + (m - 1) /\ (b + m) - 1 = b + (m - 1)
        /\ m - 1 \in 0 .. n
    <3>1. Len(q) \in Nat /\ Len(r) \in Nat /\ a + n <= Len(q) /\ b + n <= Len(r)
      OBVIOUS
    <3> DEFINE x == Len(q)
               y == Len(r)
    <3> HIDE DEF x, y
    <3>2. x \in Nat /\ y \in Nat /\ a + n <= x /\ b + n <= y
      BY <3>1 DEF x, y
    <3>3. a + m \in 1 .. x /\ b + m \in 1 .. y
      BY <3>2
    <3> HIDE DEF Agree, S
    <3>4. (a + m) - 1 = a + (m - 1) /\ (b + m) - 1 = b + (m - 1) /\ m - 1 \in 0 .. n
      OBVIOUS
    <3>5. a + m \in 1 .. Len(q) /\ b + m \in 1 .. Len(r)
      BY <3>3 DEF x, y
    <3>6. QED BY <3>4, <3>5
  <2>2. Bytes(q, a + m) = Bytes(q, a + (m - 1)) + KeyLen(q[a + m])
    BY <2>1, BytesRec
  <2>3. Bytes(r, b + m) = Bytes(r, b + (m - 1)) + KeyLen(q[a + m])
    BY <2>1, BytesRec
  <2>4. KeyLen(q[a + m]) \in Nat
    <3>1. q[a + m] \in CompileKeys
      BY <2>1
    <3>2. QED BY <3>1, KeyLenType
  <2>5. /\ Bytes(q, a + (m - 1)) \in Nat /\ Bytes(r, b + (m - 1)) \in Nat
        /\ Bytes(q, a + m) \in Nat /\ Bytes(r, b + m) \in Nat
    <3>1. m \in 0 .. n
      OBVIOUS
    <3>2. QED BY <1>1, <2>1, <3>1
  <2>6. SUFFICES ASSUME m - 1 \in S PROVE m \in S
    OBVIOUS
  <2>7. Bytes(q, a + (m - 1)) - Bytes(q, a) = Bytes(r, b + (m - 1)) - Bytes(r, b)
    BY <2>6
  <2>8. Bytes(q, a + m) - Bytes(q, a) = Bytes(r, b + m) - Bytes(r, b)
    <3> DEFINE x == Bytes(q, a + (m - 1))
               y == Bytes(r, b + (m - 1))
               d == KeyLen(q[a + m])
               qa == Bytes(q, a)
               rb == Bytes(r, b)
    <3>1. x \in Nat /\ y \in Nat /\ d \in Nat /\ qa \in Nat /\ rb \in Nat /\ x - qa = y - rb
      BY <1>1, <2>4, <2>5, <2>7
    <3>2. Bytes(q, a + m) = x + d /\ Bytes(r, b + m) = y + d
      BY <2>2, <2>3
    <3> HIDE DEF x, y, d, qa, rb
    <3>3. (x + d) - qa = (y + d) - rb
      BY <3>1
    <3>4. QED BY <3>2, <3>3 DEF qa, rb
  <2>9. QED BY <2>8
<1>4. S = 0 .. n
  <2> HIDE DEF S
  <2>1. S \in SUBSET (0 .. n)
    BY DEF S
  <2>2. QED BY <1>2, <1>3, <2>1, CountUp
<1>5. n \in S
  <2> HIDE DEF S
  <2>1. QED BY <1>4
<1>6. QED BY <1>5

\* Adding a key at the back.
LEMMA BytesAppend ==
    ASSUME NEW q \in Seq(CompileKeys), NEW k \in CompileKeys
    PROVE  Total(Append(q, k)) = Total(q) + KeyLen(k)
<1> DEFINE r == Append(q, k)
           n == Len(q)
           z == 0
<1>1. /\ r \in Seq(CompileKeys) /\ n \in Nat /\ Len(r) = n + 1 /\ r[n + 1] = k
      /\ Agree(q, z, r, z, n) /\ z + n = n /\ z \in Nat
  BY DEF Agree
<1>2. Total(q) = Bytes(q, n) /\ Total(r) = Bytes(r, Len(r))
  BY DEF Total
<1> HIDE DEF r, n, z
<1>3. Bytes(q, z + n) - Bytes(q, z) = Bytes(r, z + n) - Bytes(r, z)
  BY <1>1, SameStretch
<1>4. Bytes(q, z) = 0 /\ Bytes(r, z) = 0
  BY <1>1, BytesRec DEF z
<1>5. n + 1 \in 1 .. Len(r) /\ (n + 1) - 1 = n
  BY <1>1
<1>6. Bytes(r, n + 1) = Bytes(r, n) + KeyLen(k)
  BY <1>1, <1>5, BytesRec
<1>7. Bytes(q, n) \in Nat /\ Bytes(r, n) \in Nat
  <2>1. n \in 0 .. Len(r) /\ n \in 0 .. Len(q)
    BY <1>1 DEF n
  <2>2. QED BY <1>1, <2>1, BytesType
<1>8. Total(r) = Total(q) + KeyLen(k)
  BY <1>1, <1>2, <1>3, <1>4, <1>6, <1>7
<1>9. QED BY <1>8 DEF r

\* Popping the n oldest keys.
LEMMA BytesDrop ==
    ASSUME NEW q \in Seq(CompileKeys), NEW n \in 0 .. Len(q)
    PROVE  /\ Total(SubSeq(q, n + 1, Len(q))) = Total(q) - Bytes(q, n)
           /\ Total(q) \in Nat /\ Bytes(q, n) \in Nat
           /\ Total(SubSeq(q, n + 1, Len(q))) \in Nat
<1> DEFINE r == SubSeq(q, n + 1, Len(q))
           l == Len(q) - n
           z == 0
<1>1. /\ r \in Seq(CompileKeys) /\ l \in Nat /\ n \in Nat /\ z \in Nat
      /\ Len(r) = l /\ n + l = Len(q) /\ z + l = l
      /\ Agree(q, n, r, z, l)
  BY DEF Agree
<1>2. Total(q) = Bytes(q, n + l) /\ Total(r) = Bytes(r, z + l)
  BY <1>1 DEF Total
<1> HIDE DEF r, l, z
<1>3. Bytes(q, n + l) - Bytes(q, n) = Bytes(r, z + l) - Bytes(r, z)
  BY <1>1, SameStretch
<1>4. Bytes(r, z) = 0
  BY <1>1, BytesRec DEF z
<1>5. Bytes(q, n) \in Nat /\ Bytes(q, n + l) \in Nat /\ Bytes(r, z + l) \in Nat
  <2>1. n + l \in 0 .. Len(q) /\ z + l \in 0 .. Len(r)
    BY <1>1
  <2>2. QED BY <1>1, <2>1, BytesType
<1>6. Total(r) = Total(q) - Bytes(q, n) /\ Total(q) \in Nat /\ Total(r) \in Nat
  BY <1>2, <1>3, <1>4, <1>5
<1>7. QED BY <1>5, <1>6 DEF r

\* What RemoveAt leaves of a queue.
LEMMA RemoveAtFacts ==
    ASSUME NEW q \in Seq(CompileKeys), NEW i \in 1 .. Len(q)
    PROVE  /\ RemoveAt(q, i) \in Seq(CompileKeys)
           /\ Len(RemoveAt(q, i)) = Len(q) - 1
           /\ \A j \in 1 .. Len(q) - 1 :
                 RemoveAt(q, i)[j] = IF j < i THEN q[j] ELSE q[j + 1]
<1> DEFINE front == SubSeq(q, 1, i - 1)
           back == SubSeq(q, i + 1, Len(q))
           n == Len(q)
<1>1. /\ n \in Nat /\ front \in Seq(CompileKeys) /\ back \in Seq(CompileKeys)
      /\ Len(front) = i - 1 /\ Len(back) = n - i
      /\ \A j \in 1 .. i - 1 : front[j] = q[j]
      /\ \A j \in 1 .. n - i : back[j] = q[i + j]
  OBVIOUS
<1>2. RemoveAt(q, i) = front \o back
  BY DEF RemoveAt
<1>3. i \in 1 .. n
  OBVIOUS
<1> HIDE DEF front, back, n
<1>4. /\ front \o back \in Seq(CompileKeys)
      /\ Len(front \o back) = n - 1
      /\ \A j \in 1 .. n - 1 :
            (front \o back)[j] = IF j < i THEN front[j] ELSE back[j - (i - 1)]
  <2>1. Len(front \o back) = Len(front) + Len(back) /\ front \o back \in Seq(CompileKeys)
    <3>1. \A f, g \in Seq(CompileKeys) : Len(f \o g) = Len(f) + Len(g) /\ f \o g \in Seq(CompileKeys)
      OBVIOUS
    <3>2. QED BY <1>1, <3>1
  <2>2. \A j \in 1 .. Len(front) + Len(back) :
           (front \o back)[j] = IF j <= Len(front) THEN front[j] ELSE back[j - Len(front)]
    BY <1>1
  <2>3. Len(front) + Len(back) = n - 1 /\ \A j \in 1 .. n - 1 : j <= Len(front) <=> j < i
    BY <1>1, <1>3
  <2>4. QED BY <1>1, <2>1, <2>2, <2>3
<1>5. \A j \in 1 .. n - 1 :
         (front \o back)[j] = IF j < i THEN q[j] ELSE q[j + 1]
  <2> TAKE j \in 1 .. n - 1
  <2>1. CASE j < i
    <3>1. j \in 1 .. i - 1
      BY <1>1, <1>3, <2>1
    <3>2. QED BY <1>1, <1>4, <2>1, <3>1
  <2>2. CASE ~(j < i)
    <3>1. j - (i - 1) \in 1 .. n - i /\ i + (j - (i - 1)) = j + 1
      BY <1>1, <1>3, <2>2
    <3>2. back[j - (i - 1)] = q[j + 1]
      <4>1. back[j - (i - 1)] = q[i + (j - (i - 1))]
        BY <1>1, <3>1
      <4>2. QED BY <3>1, <4>1
    <3>3. QED BY <1>4, <2>2, <3>2
  <2>3. QED BY <2>1, <2>2
<1>6. QED BY <1>2, <1>4, <1>5 DEF n

\* Removing one key.
LEMMA BytesRemove ==
    ASSUME NEW q \in Seq(CompileKeys), NEW i \in 1 .. Len(q)
    PROVE  /\ Total(RemoveAt(q, i)) = Total(q) - KeyLen(q[i])
           /\ Total(RemoveAt(q, i)) \in Nat /\ Total(q) \in Nat
<1> DEFINE r == RemoveAt(q, i)
           n == Len(q)
           a == i - 1
           l == n - i
           z == 0
<1>1. /\ q \in Seq(CompileKeys) /\ r \in Seq(CompileKeys) /\ Len(r) = n - 1 /\ Len(q) = n
      /\ n \in Nat /\ l \in Nat /\ a \in Nat /\ z \in Nat /\ i \in 1 .. n
      /\ \A j \in 1 .. n - 1 : r[j] = IF j < i THEN q[j] ELSE q[j + 1]
  <2> DEFINE rest == RemoveAt(q, i)
  <2>1. /\ rest \in Seq(CompileKeys) /\ Len(rest) = n - 1
        /\ \A j \in 1 .. n - 1 : rest[j] = IF j < i THEN q[j] ELSE q[j + 1]
    BY RemoveAtFacts
  <2> HIDE DEF rest
  <2>2. n \in Nat /\ l \in Nat /\ a \in Nat /\ z \in Nat /\ i \in 1 .. n
    OBVIOUS
  <2> HIDE DEF n, a, l, z
  <2>3. QED BY <2>1, <2>2 DEF rest, n
<1>2. z = 0 /\ a = i - 1 /\ l = n - i
  OBVIOUS
<1> HIDE DEF r, n, a, l, z
<1>3. Agree(q, z, r, z, a)
  BY <1>1, <1>2 DEF Agree
<1>4. Agree(q, i, r, a, l)
  <2>1. i + l <= Len(q) /\ a + l <= Len(r)
    BY <1>1, <1>2
  <2>2. ASSUME NEW j \in 1 .. l PROVE q[i + j] = r[a + j]
    <3>1. a + j \in 1 .. n - 1 /\ ~(a + j < i) /\ (a + j) + 1 = i + j
      BY <1>1, <1>2
    <3>2. r[a + j] = q[(a + j) + 1]
      BY <1>1, <3>1
    <3>3. QED BY <3>1, <3>2
  <2>3. QED BY <2>1, <2>2 DEF Agree
<1>5. Bytes(q, z + a) - Bytes(q, z) = Bytes(r, z + a) - Bytes(r, z)
  BY <1>1, <1>3, SameStretch
<1>6. Bytes(q, i + l) - Bytes(q, i) = Bytes(r, a + l) - Bytes(r, a)
  BY <1>1, <1>4, SameStretch
<1>7. z + a = a /\ i + l = n /\ a + l = n - 1
  BY <1>1, <1>2
<1>8. Bytes(q, z) = 0 /\ Bytes(r, z) = 0
  BY <1>1, <1>2, BytesRec
<1>9. Bytes(q, i) = Bytes(q, a) + KeyLen(q[i])
  BY <1>1, <1>2, BytesRec
<1>10. /\ Bytes(q, n) \in Nat /\ Bytes(q, i) \in Nat /\ Bytes(q, a) \in Nat
       /\ Bytes(r, a) \in Nat /\ Bytes(r, n - 1) \in Nat
  <2>1. n \in 0 .. Len(q) /\ i \in 0 .. Len(q) /\ a \in 0 .. Len(q)
        /\ a \in 0 .. Len(r) /\ n - 1 \in 0 .. Len(r)
    BY <1>1, <1>2
  <2>2. QED BY <1>1, <2>1, BytesType
<1>11. KeyLen(q[i]) \in Nat
  <2>1. q[i] \in CompileKeys
    BY <1>1
  <2>2. QED BY <2>1, KeyLenType
<1>12. Bytes(r, n - 1) = Bytes(q, n) - KeyLen(q[i])
  <2>1. Bytes(q, a) = Bytes(r, a)
    BY <1>5, <1>7, <1>8, <1>10
  <2>2. Bytes(q, n) - Bytes(q, i) = Bytes(r, n - 1) - Bytes(r, a)
    BY <1>6, <1>7
  <2>3. QED BY <1>9, <1>10, <1>11, <2>1, <2>2
<1>13. Total(q) = Bytes(q, n) /\ Total(r) = Bytes(r, n - 1)
  BY <1>1 DEF Total
<1>14. QED BY <1>10, <1>12, <1>13 DEF r

-----------------------------------------------------------------------------
\* The order of the queue.

\* Position a of u is the last one that holds k.
IsLast(u, k, a) ==
    /\ a \in 1 .. Len(u)
    /\ u[a] = k
    /\ \A b \in 1 .. Len(u) : u[b] = k => b <= a

\* The keys of q occur in u, in the order of their last occurrences.
InOrder(q, u) ==
    /\ \A i \in 1 .. Len(q) : \E a : IsLast(u, q[i], a)
    /\ \A i, j \in 1 .. Len(q) : \A a, b :
          i < j /\ IsLast(u, q[i], a) /\ IsLast(u, q[j], b) => a < b

KeysIn(q) == {q[i] : i \in 1 .. Len(q)}

\* A key is queued once.
LEMMA QueuedOnce ==
    ASSUME NEW q \in Seq(CompileKeys), NEW u \in Seq(CompileKeys), InOrder(q, u)
    PROVE  \A i, j \in 1 .. Len(q) : q[i] = q[j] => i = j
<1> SUFFICES ASSUME NEW i \in 1 .. Len(q), NEW j \in 1 .. Len(q), q[i] = q[j], i # j
             PROVE  FALSE
  OBVIOUS
<1>1. PICK a : IsLast(u, q[i], a)
  BY DEF InOrder
<1>2. a \in Nat /\ i \in Nat /\ j \in Nat /\ IsLast(u, q[j], a)
  BY <1>1 DEF IsLast
<1>3. \A x, y \in 1 .. Len(q) : x < y /\ IsLast(u, q[x], a) /\ IsLast(u, q[y], a) => a < a
  BY DEF InOrder
<1>4. i < j \/ j < i
  BY <1>2
<1>5. a < a
  BY <1>1, <1>2, <1>3, <1>4
<1>6. QED BY <1>2, <1>5

\* Removing a key leaves the others in order.
LEMMA OrderRemove ==
    ASSUME NEW q \in Seq(CompileKeys), NEW u \in Seq(CompileKeys), InOrder(q, u),
           NEW i \in 1 .. Len(q)
    PROVE  /\ InOrder(RemoveAt(q, i), u)
           /\ KeysIn(RemoveAt(q, i)) = KeysIn(q) \ {q[i]}
<1> DEFINE r == RemoveAt(q, i)
           n == Len(q)
           from(j) == IF j < i THEN j ELSE j + 1
<1>1. /\ r \in Seq(CompileKeys) /\ Len(r) = n - 1 /\ Len(q) = n /\ n \in Nat /\ i \in 1 .. n
      /\ \A j \in 1 .. n - 1 : r[j] = IF j < i THEN q[j] ELSE q[j + 1]
  <2>1. n \in Nat /\ i \in 1 .. n /\ Len(q) = n
    OBVIOUS
  <2> HIDE DEF r, n
  <2>2. QED BY <2>1, RemoveAtFacts DEF r
<1> HIDE DEF r, n
<1>2. \A j \in 1 .. n - 1 : from(j) \in 1 .. n /\ from(j) # i /\ r[j] = q[from(j)]
  BY <1>1
<1>3. \A j, k \in 1 .. n - 1 : j < k => from(j) < from(k)
  BY <1>1
<1>4. \A j \in 1 .. n : j # i => \E k \in 1 .. n - 1 : from(k) = j
  <2> SUFFICES ASSUME NEW j \in 1 .. n, j # i PROVE \E k \in 1 .. n - 1 : from(k) = j
    OBVIOUS
  <2>1. CASE j < i
    <3>1. j \in 1 .. n - 1 /\ from(j) = j
      BY <1>1, <2>1
    <3>2. QED BY <3>1
  <2>2. CASE i < j
    <3>1. j - 1 \in 1 .. n - 1 /\ ~(j - 1 < i) /\ (j - 1) + 1 = j
      BY <1>1, <2>2
    <3>2. from(j - 1) = j
      BY <3>1
    <3>3. QED BY <3>1, <3>2
  <2>3. QED BY <1>1, <2>1, <2>2
<1> HIDE DEF from
<1>5. InOrder(r, u)
  <2>1. \A j \in 1 .. n - 1 : \E a : IsLast(u, r[j], a)
    BY <1>1, <1>2 DEF InOrder
  <2>2. ASSUME NEW j \in 1 .. n - 1, NEW k \in 1 .. n - 1, NEW a, NEW b, j < k,
               IsLast(u, r[j], a), IsLast(u, r[k], b)
        PROVE  a < b
    <3>1. from(j) \in 1 .. n /\ from(k) \in 1 .. n /\ from(j) < from(k)
          /\ r[j] = q[from(j)] /\ r[k] = q[from(k)]
      BY <1>2, <1>3, <2>2
    <3>2. QED BY <1>1, <2>2, <3>1 DEF InOrder
  <2>3. QED BY <1>1, <2>1, <2>2 DEF InOrder
<1>6. KeysIn(r) = KeysIn(q) \ {q[i]}
  <2>1. \A j \in 1 .. n : q[j] = q[i] => j = i
    BY <1>1, QueuedOnce
  <2>2. KeysIn(r) \subseteq KeysIn(q) \ {q[i]}
    BY <1>1, <1>2, <2>1 DEF KeysIn
  <2>3. ASSUME NEW k \in KeysIn(q) \ {q[i]} PROVE k \in KeysIn(r)
    <3>1. PICK j \in 1 .. n : k = q[j] /\ j # i
      BY <1>1, <2>3 DEF KeysIn
    <3>2. PICK m \in 1 .. n - 1 : from(m) = j
      BY <1>4, <3>1
    <3>3. QED BY <1>1, <1>2, <3>1, <3>2 DEF KeysIn
  <2>4. QED BY <2>2, <2>3
<1>7. QED BY <1>5, <1>6 DEF r

\* So does popping the oldest ones.
LEMMA OrderDrop ==
    ASSUME NEW q \in Seq(CompileKeys), NEW u \in Seq(CompileKeys), InOrder(q, u),
           NEW n \in 0 .. Len(q)
    PROVE  /\ SubSeq(q, n + 1, Len(q)) \in Seq(CompileKeys)
           /\ Len(SubSeq(q, n + 1, Len(q))) = Len(q) - n
           /\ InOrder(SubSeq(q, n + 1, Len(q)), u)
           /\ KeysIn(SubSeq(q, n + 1, Len(q))) = KeysIn(q) \ {q[i] : i \in 1 .. n}
<1> DEFINE r == SubSeq(q, n + 1, Len(q))
           l == Len(q)
<1>1. /\ r \in Seq(CompileKeys) /\ Len(r) = l - n /\ Len(q) = l /\ l \in Nat /\ n \in 0 .. l
      /\ \A j \in 1 .. l - n : r[j] = q[n + j]
  OBVIOUS
<1> HIDE DEF r, l
<1>2. \A j \in 1 .. l - n : n + j \in 1 .. l
  BY <1>1
<1>3. InOrder(r, u)
  <2>1. \A j \in 1 .. l - n : \E a : IsLast(u, r[j], a)
    BY <1>1, <1>2 DEF InOrder
  <2>2. ASSUME NEW j \in 1 .. l - n, NEW k \in 1 .. l - n, NEW a, NEW b, j < k,
               IsLast(u, r[j], a), IsLast(u, r[k], b)
        PROVE  a < b
    <3>1. n + j \in 1 .. l /\ n + k \in 1 .. l /\ n + j < n + k
          /\ r[j] = q[n + j] /\ r[k] = q[n + k]
      BY <1>1, <1>2, <2>2
    <3>2. QED BY <1>1, <2>2, <3>1 DEF InOrder
  <2>3. QED BY <1>1, <2>1, <2>2 DEF InOrder
<1>4. KeysIn(r) = KeysIn(q) \ {q[i] : i \in 1 .. n}
  <2>1. \A i, j \in 1 .. l : q[j] = q[i] => j = i
    BY <1>1, QueuedOnce
  <2>2. ASSUME NEW j \in 1 .. l - n PROVE r[j] \in KeysIn(q) \ {q[i] : i \in 1 .. n}
    <3>1. n + j \in 1 .. l /\ r[j] = q[n + j] /\ \A i \in 1 .. n : i \in 1 .. l /\ i # n + j
      BY <1>1
    <3>2. QED BY <1>1, <2>1, <3>1 DEF KeysIn
  <2>3. ASSUME NEW k \in KeysIn(q) \ {q[i] : i \in 1 .. n} PROVE k \in KeysIn(r)
    <3>1. PICK j \in 1 .. l : k = q[j]
      BY <1>1, <2>3 DEF KeysIn
    <3>2. j - n \in 1 .. l - n /\ n + (j - n) = j
      BY <1>1, <2>3, <3>1
    <3>3. r[j - n] = q[n + (j - n)]
      BY <1>1, <3>2
    <3>4. QED BY <1>1, <3>1, <3>2, <3>3 DEF KeysIn
  <2>4. QED BY <1>1, <2>2, <2>3 DEF KeysIn
<1>5. QED BY <1>1, <1>3, <1>4 DEF r, l

\* A key that is used now goes to the back.
LEMMA OrderAppend ==
    ASSUME NEW q \in Seq(CompileKeys), NEW u \in Seq(CompileKeys), InOrder(q, u),
           NEW k \in CompileKeys, k \notin KeysIn(q)
    PROVE  /\ Append(q, k) \in Seq(CompileKeys)
           /\ Len(Append(q, k)) = Len(q) + 1
           /\ InOrder(Append(q, k), Append(u, k))
           /\ KeysIn(Append(q, k)) = KeysIn(q) \cup {k}
<1> DEFINE r == Append(q, k)
           v == Append(u, k)
           n == Len(q)
           m == Len(u)
<1>1. /\ r \in Seq(CompileKeys) /\ n \in Nat /\ Len(q) = n /\ Len(r) = n + 1
      /\ r[n + 1] = k /\ \A i \in 1 .. n : r[i] = q[i]
      /\ m \in Nat /\ Len(u) = m /\ Len(v) = m + 1
      /\ v[m + 1] = k /\ \A i \in 1 .. m : v[i] = u[i]
  OBVIOUS
<1> HIDE DEF r, v, n, m
<1>2. \A i \in 1 .. n : q[i] # k
  BY <1>1 DEF KeysIn
<1>3. \A x, a : x # k => (IsLast(v, x, a) <=> IsLast(u, x, a))
  <2> SUFFICES ASSUME NEW x, NEW a, x # k PROVE IsLast(v, x, a) <=> IsLast(u, x, a)
    OBVIOUS
  <2>1. \A b \in 1 .. m + 1 : v[b] = x => b \in 1 .. m /\ u[b] = x
    BY <1>1
  <2>2. \A b \in 1 .. m : b \in 1 .. m + 1 /\ v[b] = u[b]
    BY <1>1
  <2>3. QED BY <1>1, <2>1, <2>2 DEF IsLast
<1>4. IsLast(v, k, m + 1) /\ \A a : IsLast(v, k, a) => a = m + 1
  BY <1>1 DEF IsLast
<1>5. \A i \in 1 .. n + 1 : \E a : IsLast(v, r[i], a)
  <2> SUFFICES ASSUME NEW i \in 1 .. n + 1 PROVE \E a : IsLast(v, r[i], a)
    OBVIOUS
  <2>1. CASE i = n + 1
    BY <1>1, <1>4, <2>1
  <2>2. CASE i # n + 1
    <3>1. i \in 1 .. n /\ r[i] = q[i] /\ q[i] # k
      BY <1>1, <1>2, <2>2
    <3>2. QED BY <1>1, <1>3, <3>1 DEF InOrder
  <2>3. QED BY <2>1, <2>2
<1>6. ASSUME NEW i \in 1 .. n + 1, NEW j \in 1 .. n + 1, NEW a, NEW b, i < j,
             IsLast(v, r[i], a), IsLast(v, r[j], b)
      PROVE  a < b
  <2>1. i \in 1 .. n /\ r[i] = q[i] /\ q[i] # k
    BY <1>1, <1>2, <1>6
  <2>2. IsLast(u, q[i], a)
    BY <1>3, <1>6, <2>1
  <2>3. CASE j = n + 1
    <3>1. b = m + 1 /\ a \in 1 .. m
      BY <1>1, <1>4, <1>6, <2>2, <2>3 DEF IsLast
    <3>2. QED BY <1>1, <3>1
  <2>4. CASE j # n + 1
    <3>1. j \in 1 .. n /\ r[j] = q[j] /\ q[j] # k
      BY <1>1, <1>2, <2>4
    <3>2. IsLast(u, q[j], b)
      BY <1>3, <1>6, <3>1
    <3>3. QED BY <1>1, <1>6, <2>1, <2>2, <3>1, <3>2 DEF InOrder
  <2>5. QED BY <2>3, <2>4
<1>7. InOrder(r, v)
  BY <1>1, <1>5, <1>6 DEF InOrder
<1>8. KeysIn(r) = KeysIn(q) \cup {k}
  <2>1. \A i \in 1 .. n + 1 : r[i] \in KeysIn(q) \cup {k}
    BY <1>1 DEF KeysIn
  <2>2. \A i \in 1 .. n : i \in 1 .. n + 1 /\ r[i] = q[i]
    BY <1>1
  <2>3. n + 1 \in 1 .. n + 1
    BY <1>1
  <2>4. QED BY <1>1, <2>1, <2>2, <2>3 DEF KeysIn
<1>9. QED BY <1>1, <1>7, <1>8 DEF r, v, n

\* As many keys are retained as are queued.
LEMMA QueueLength ==
    ASSUME NEW q \in Seq(CompileKeys), NEW u \in Seq(CompileKeys), InOrder(q, u)
    PROVE  Cardinality(KeysIn(q)) = Len(q)
<1> DEFINE f == [i \in 1 .. Len(q) |-> q[i]]
<1>1. f \in Bijection(1 .. Len(q), KeysIn(q))
  BY QueuedOnce DEF Bijection, Injection, Surjection, IsInjective, KeysIn
<1>2. ExistsBijection(1 .. Len(q), KeysIn(q))
  BY <1>1 DEF ExistsBijection
<1>3. Len(q) \in Nat
  OBVIOUS
<1>4. QED BY <1>2, <1>3, FS_CountingElements

-----------------------------------------------------------------------------
\* The inductive invariant.

Request(k) == <<k.program, k.options>>

\* The map, its queue and its accounts.
QueueInv ==
    /\ recency \in Seq(CompileKeys) /\ uses \in Seq(CompileKeys)
    /\ InOrder(recency, uses)
    /\ DOMAIN entries = KeysIn(recency)
    /\ keyBytes = Total(recency)
    /\ Len(recency) <= MaxEntries
    /\ keyBytes <= MaxKeyBytes
    /\ panicked = FALSE

\* An executable is found only under the request it was built for.
Finds(k, e) == e \in 1 .. Len(made) /\ made[e] = Request(k)

BuiltInv ==
    /\ made \in Seq(Programs \X Options)
    /\ \A k \in DOMAIN entries : Finds(k, entries[k])
    /\ DOMAIN disk = CompileKeys /\ disk = [k \in CompileKeys |-> disk[k]]
    /\ \A k \in CompileKeys :
          \/ disk[k] \in {Absent, Corrupt}
          \/ disk[k] = Valid(disk[k].exe) /\ Finds(k, disk[k].exe)
    /\ returned.op = "compile" =>
          returned.exe \in 1 .. Len(made) /\ made[returned.exe] = returned.for

Counters == [hits : Nat, diskHits : Nat, readErrors : Nat, writeErrors : Nat,
             misses : Nat, failures : Nat, evictions : Nat, bypasses : Nat]

\* s has counted `more` executables that are not retained yet.
Balanced(s, gone, kept, more) ==
    s.diskHits + s.misses = s.failures + s.bypasses + s.evictions + gone + kept + more

StatsInv ==
    /\ stats \in Counters
    /\ removed \in Nat
    /\ Balanced(stats, removed, Len(recency), 0)

BoundsInv == calls \in 0 .. MaxCalls /\ damage \in 0 .. MaxDamage

CacheInv == QueueInv /\ BuiltInv /\ StatsInv /\ BoundsInv

\* The keys of the requests.
LEMMA KeyFacts ==
    /\ \A p \in Programs, o \in Options :
          Key(p, o) \in CompileKeys /\ Request(Key(p, o)) = <<p, o>>
    /\ \A r \in Requests : r[1] \in Programs /\ r[2] \in Options
    /\ NoOptions \in Options /\ MaxEntries \in Nat /\ MaxKeyBytes \in Nat
  BY CacheAssumption DEF Key, CompileKeys, Request

\* The terms of the accounts are natural numbers.
LEMMA QueueTerms ==
    ASSUME QueueInv
    PROVE  /\ Len(recency) \in Nat /\ keyBytes \in Nat
           /\ \A n \in 0 .. Len(recency) : PopBytes(n) \in Nat
           /\ PopBytes(Len(recency)) = keyBytes
           /\ Cardinality(DOMAIN entries) = Len(recency)
<1>1. recency \in Seq(CompileKeys) /\ uses \in Seq(CompileKeys) /\ InOrder(recency, uses)
      /\ keyBytes = Total(recency) /\ DOMAIN entries = KeysIn(recency)
  BY DEF QueueInv
<1>2. Len(recency) \in Nat
  BY <1>1
<1>3. \A n \in 0 .. Len(recency) : Bytes(recency, n) \in Nat
  BY <1>1, BytesType
<1>4. Len(recency) \in 0 .. Len(recency)
  BY <1>2
<1>5. QED BY <1>1, <1>2, <1>3, <1>4, QueueLength DEF PopBytes, Total

\* Initially nothing is retained, built or counted.
LEMMA InvInit == CompilerInit => CacheInv
<1> SUFFICES ASSUME CompilerInit PROVE CacheInv
  OBVIOUS
<1>1. QueueInv
  <2>1. <<>> \in Seq(CompileKeys) /\ Len(<<>>) = 0
    OBVIOUS
  <2>2. InOrder(<<>>, <<>>) /\ KeysIn(<<>>) = {}
    BY DEF InOrder, KeysIn
  <2>3. Total(<<>>) = 0
    BY <2>1, BytesRec DEF Total
  <2>4. QED BY <2>1, <2>2, <2>3, KeyFacts DEF CompilerInit, QueueInv
<1>2. BuiltInv
  BY DEF CompilerInit, BuiltInv, Finds
<1>3. StatsInv
  BY DEF CompilerInit, StatsInv, NoStats, Counters, Balanced
<1>4. BoundsInv
  BY CacheAssumption DEF CompilerInit, BoundsInv
<1>5. QED BY <1>1, <1>2, <1>3, <1>4 DEF CacheInv

\* A queued key has a position.
LEMMA PositionFound ==
    ASSUME QueueInv, NEW k \in DOMAIN entries
    PROVE  Known(k) /\ PositionOf(k) \in 1 .. Len(recency) /\ recency[PositionOf(k)] = k
<1>1. DOMAIN recency = 1 .. Len(recency)
  BY DEF QueueInv
<1>2. \E i \in DOMAIN recency : recency[i] = k
  BY <1>1 DEF QueueInv, KeysIn
<1>3. QED BY <1>1, <1>2 DEF Known, PositionOf

\* A hit moves its key to the back of the queue and changes nothing else.
LEMMA QueueHit ==
    ASSUME QueueInv, NEW p \in Programs, NEW o \in Options, CompileHit(p, o)
    PROVE  /\ QueueInv'
           /\ Len(recency') = Len(recency)
           /\ stats' = [stats EXCEPT !.hits = @ + 1]
<1> DEFINE k == Key(p, o)
           i == PositionOf(k)
           r == RemoveAt(recency, i)
<1>1. k \in CompileKeys /\ k \in DOMAIN entries
  BY KeyFacts DEF CompileHit
<1>2. Known(k) /\ i \in 1 .. Len(recency) /\ recency[i] = k
  BY <1>1, PositionFound
<1>3. /\ recency' = Append(r, k) /\ uses' = Append(uses, k)
      /\ UNCHANGED <<entries, keyBytes, panicked>>
      /\ stats' = [stats EXCEPT !.hits = @ + 1]
  BY <1>2 DEF CompileHit
<1>4. /\ recency \in Seq(CompileKeys) /\ uses \in Seq(CompileKeys)
      /\ InOrder(recency, uses) /\ Len(recency) \in Nat
  BY DEF QueueInv
<1> HIDE DEF k, i
<1>5. r \in Seq(CompileKeys) /\ Len(r) = Len(recency) - 1
  BY <1>2, <1>4, RemoveAtFacts
<1>6. InOrder(r, uses) /\ KeysIn(r) = KeysIn(recency) \ {k}
  BY <1>2, <1>4, OrderRemove
<1>7. Total(r) = Total(recency) - KeyLen(k) /\ Total(r) \in Nat /\ Total(recency) \in Nat
  BY <1>2, <1>4, BytesRemove
<1> HIDE DEF r
<1>8. /\ recency' \in Seq(CompileKeys) /\ Len(recency') = Len(r) + 1
      /\ InOrder(recency', uses') /\ KeysIn(recency') = KeysIn(r) \cup {k}
  BY <1>1, <1>3, <1>4, <1>5, <1>6, OrderAppend
<1>9. Total(recency') = Total(r) + KeyLen(k)
  BY <1>1, <1>3, <1>5, BytesAppend
<1>10. KeyLen(k) \in Nat
  BY <1>1, KeyLenType
<1>11. Total(recency') = Total(recency) /\ Len(recency') = Len(recency)
  BY <1>4, <1>5, <1>7, <1>8, <1>9, <1>10
<1>12. KeysIn(recency') = KeysIn(recency)
  BY <1>1, <1>6, <1>8 DEF QueueInv
<1>13. uses' \in Seq(CompileKeys)
  BY <1>1, <1>3, <1>4
<1>14. QED BY <1>3, <1>8, <1>11, <1>12, <1>13 DEF QueueInv

\* Evicting the n oldest keys and inserting one more.
LEMMA QueueInsert ==
    ASSUME QueueInv, NEW k \in CompileKeys, k \notin DOMAIN entries,
           NEW n \in 0 .. Len(recency), RoomAfter(n, k), NEW exe, EvictAndInsert(n, k, exe),
           uses' = Append(uses, k), UNCHANGED panicked
    PROVE  /\ QueueInv'
           /\ Len(recency') = Len(recency) - n + 1
<1> DEFINE r == SubSeq(recency, n + 1, Len(recency))
<1>1. /\ recency \in Seq(CompileKeys) /\ uses \in Seq(CompileKeys)
      /\ InOrder(recency, uses) /\ Len(recency) \in Nat /\ n \in Nat
      /\ keyBytes = Total(recency) /\ k \notin KeysIn(recency)
  BY DEF QueueInv
<1>2. /\ recency' = Append(r, k)
      /\ DOMAIN entries' = (KeysIn(recency) \ {recency[i] : i \in 1 .. n}) \cup {k}
      /\ keyBytes' = keyBytes - Bytes(recency, n) + KeyLen(k)
  BY DEF EvictAndInsert, PopBytes, QueueInv
<1>3. /\ r \in Seq(CompileKeys) /\ Len(r) = Len(recency) - n /\ InOrder(r, uses)
      /\ KeysIn(r) = KeysIn(recency) \ {recency[i] : i \in 1 .. n}
  BY <1>1, OrderDrop
<1>4. /\ Total(r) = Total(recency) - Bytes(recency, n)
      /\ Total(recency) \in Nat /\ Bytes(recency, n) \in Nat /\ Total(r) \in Nat
  BY <1>1, BytesDrop
<1> HIDE DEF r
<1>5. /\ recency' \in Seq(CompileKeys) /\ Len(recency') = Len(r) + 1
      /\ InOrder(recency', uses') /\ KeysIn(recency') = KeysIn(r) \cup {k}
  BY <1>1, <1>2, <1>3, OrderAppend
<1>6. Total(recency') = Total(r) + KeyLen(k)
  BY <1>2, <1>3, BytesAppend
<1>7. keyBytes' = Total(recency') /\ KeyLen(k) \in Nat
  BY <1>1, <1>2, <1>4, <1>6, KeyLenType
<1>8. Len(recency) - n < MaxEntries /\ keyBytes - Bytes(recency, n) + KeyLen(k) <= MaxKeyBytes
  BY DEF RoomAfter, PopBytes
<1>9. Len(recency') = Len(recency) - n + 1 /\ Len(recency') <= MaxEntries
  BY <1>1, <1>3, <1>5, <1>8, KeyFacts
<1>10. keyBytes' <= MaxKeyBytes
  BY <1>2, <1>8
<1>11. uses' \in Seq(CompileKeys)
  BY <1>1
<1>12. panicked' = FALSE
  BY DEF QueueInv
<1>13. QED BY <1>2, <1>3, <1>5, <1>7, <1>9, <1>10, <1>11, <1>12 DEF QueueInv

\* The eviction loop finds room before the queue is empty: a key that fits alone
\* fits after everything else has been evicted.
LEMMA RoomFound ==
    ASSUME QueueInv, NEW k \in CompileKeys, MaxEntries # 0, KeyLen(k) <= MaxKeyBytes
    PROVE  RoomAfter(Len(recency), k)
<1>1. Len(recency) \in Nat /\ keyBytes \in Nat /\ PopBytes(Len(recency)) = keyBytes
  BY QueueTerms
<1>2. KeyLen(k) \in Nat
  BY KeyLenType
<1> DEFINE l == Len(recency)
<1> HIDE DEF l
<1>3. l - l < MaxEntries /\ keyBytes - PopBytes(l) + KeyLen(k) <= MaxKeyBytes
  BY <1>1, <1>2, KeyFacts DEF l
<1>4. QED BY <1>3 DEF RoomAfter, l

\* Retaining an executable keeps the accounts, and no entry but the new one
\* changes what it holds.
LEMMA QueueRetain ==
    ASSUME QueueInv, NEW k \in CompileKeys, k \notin DOMAIN entries, NEW exe,
           NEW s \in Counters, Retain(k, exe, s),
           removed \in Nat, Balanced(s, removed, Len(recency), 1)
    PROVE  /\ QueueInv'
           /\ \A x \in DOMAIN entries' :
                 IF x = k THEN entries'[x] = exe ELSE x \in DOMAIN entries /\ entries'[x] = entries[x]
           /\ stats' \in Counters
           /\ Balanced(stats', removed, Len(recency'), 0)
<1>1. Len(recency) \in Nat
  BY QueueTerms
<1>2. CASE stats' = [s EXCEPT !.bypasses = @ + 1] /\ UNCHANGED <<mapVars, uses>>
  <2>1. QueueInv'
    BY <1>2 DEF QueueInv, mapVars
  <2>2. UNCHANGED <<entries, recency>>
    BY <1>2 DEF mapVars
  <2>3. stats' \in Counters
    BY <1>2 DEF Counters
  <2>4. Balanced(stats', removed, Len(recency), 0)
    BY <1>1, <1>2, SMTT(20) DEF Counters, Balanced
  <2>5. QED BY <2>1, <2>2, <2>3, <2>4
<1>3. ASSUME NEW n \in 0 .. Len(recency), RoomAfter(n, k), EvictAndInsert(n, k, exe),
             stats' = [s EXCEPT !.evictions = @ + n], uses' = Append(uses, k), UNCHANGED panicked
      PROVE  /\ QueueInv'
             /\ \A x \in DOMAIN entries' :
                   IF x = k THEN entries'[x] = exe
                   ELSE x \in DOMAIN entries /\ entries'[x] = entries[x]
             /\ stats' \in Counters
             /\ Balanced(stats', removed, Len(recency'), 0)
  <2>1. QueueInv' /\ Len(recency') = Len(recency) - n + 1
    BY <1>3, QueueInsert
  <2>2. \A x \in DOMAIN entries' :
           IF x = k THEN entries'[x] = exe ELSE x \in DOMAIN entries /\ entries'[x] = entries[x]
    BY <1>3 DEF EvictAndInsert
  <2>3. stats' \in Counters
    <3>1. n \in Nat /\ s.evictions \in Nat
      BY <1>1 DEF Counters
    <3>2. s.evictions + n \in Nat
      BY <3>1
    <3>3. QED BY <1>3, <3>2 DEF Counters
  <2>4. Balanced(stats', removed, Len(recency'), 0)
    <3> DEFINE l == Len(recency)
    <3>1. l \in Nat /\ n \in 0 .. l /\ Len(recency') = l - n + 1
      BY <1>1, <2>1
    <3>2. Balanced(s, removed, l, 1)
      OBVIOUS
    <3> HIDE DEF l
    <3>3. Balanced([s EXCEPT !.evictions = @ + n], removed, l - n + 1, 0)
      <4> DEFINE t == [s EXCEPT !.evictions = @ + n]
      <4>1. /\ t.diskHits = s.diskHits /\ t.misses = s.misses /\ t.failures = s.failures
            /\ t.bypasses = s.bypasses /\ t.evictions = s.evictions + n
        BY DEF Counters
      <4>2. /\ s.diskHits \in Nat /\ s.misses \in Nat /\ s.failures \in Nat
            /\ s.bypasses \in Nat /\ s.evictions \in Nat /\ n \in Nat
        BY <3>1 DEF Counters
      <4> HIDE DEF t
      <4>3. s.diskHits + s.misses
              = s.failures + s.bypasses + s.evictions + removed + l + 1
        BY <3>2 DEF Balanced
      <4>4. t.diskHits + t.misses
              = t.failures + t.bypasses + t.evictions + removed + (l - n + 1) + 0
        BY <3>1, <4>1, <4>2, <4>3, SMTT(20)
      <4>5. QED BY <4>4 DEF Balanced, t
    <3>4. QED BY <1>3, <3>1, <3>3
  <2>5. QED BY <2>1, <2>2, <2>3, <2>4
<1>4. Len(recency) \in 0 .. Len(recency)
  BY <1>1
<1>5. QED BY <1>2, <1>3, <1>4, RoomFound DEF Retain

-----------------------------------------------------------------------------
\* What is built, and what may be found.

\* One more executable was built for request k; what is found afterwards is that
\* executable under k, or what was found before.
LEMMA BuiltMore ==
    ASSUME BuiltInv, NEW p \in Programs, NEW o \in Options,
           made' = Append(made, <<p, o>>),
           \A x \in DOMAIN entries' :
               IF x = Key(p, o) THEN entries'[x] = Len(made) + 1
               ELSE x \in DOMAIN entries /\ entries'[x] = entries[x],
           DOMAIN disk' = CompileKeys, disk' = [x \in CompileKeys |-> disk'[x]],
           \A x \in CompileKeys :
               \/ disk'[x] \in {disk[x], Absent, Corrupt}
               \/ x = Key(p, o) /\ disk'[x] = Valid(Len(made) + 1),
           returned' = [op |-> "compile", for |-> <<p, o>>, exe |-> Len(made) + 1]
    PROVE  BuiltInv'
<1> DEFINE k == Key(p, o)
           n == Len(made)
<1>1. /\ made \in Seq(Programs \X Options) /\ n \in Nat /\ n = Len(made)
      /\ made' \in Seq(Programs \X Options) /\ Len(made') = n + 1
      /\ made'[n + 1] = <<p, o>> /\ \A e \in 1 .. n : e \in 1 .. n + 1 /\ made'[e] = made[e]
  BY DEF BuiltInv
<1>2. \A x, e : Finds(x, e) => Finds(x, e)'
  BY <1>1 DEF Finds
<1>3. k \in CompileKeys /\ Request(k) = <<p, o>>
  BY KeyFacts
<1>4. n + 1 \in 1 .. Len(made') /\ made'[n + 1] = Request(k)
  BY <1>1, <1>3
<1> HIDE DEF k
<1>5. (\A x \in DOMAIN entries : Finds(x, entries[x]))'
  <2> SUFFICES ASSUME NEW x \in DOMAIN entries' PROVE Finds(x, entries[x])'
    OBVIOUS
  <2>1. CASE x = k
    <3>1. entries'[x] = n + 1
      BY <2>1 DEF k
    <3>2. QED BY <1>4, <2>1, <3>1 DEF Finds
  <2>2. CASE x # k
    <3>1. x \in DOMAIN entries /\ entries'[x] = entries[x]
      BY <2>2 DEF k
    <3>2. Finds(x, entries[x])
      BY <3>1 DEF BuiltInv
    <3>3. QED BY <1>1, <3>1, <3>2 DEF Finds
  <2>3. QED BY <2>1, <2>2
<1>6. (\A x \in CompileKeys :
          \/ disk[x] \in {Absent, Corrupt}
          \/ disk[x] = Valid(disk[x].exe) /\ Finds(x, disk[x].exe))'
  <2> SUFFICES ASSUME NEW x \in CompileKeys
               PROVE  \/ disk'[x] \in {Absent, Corrupt}
                      \/ disk'[x] = Valid(disk'[x].exe) /\ Finds(x, disk[x].exe)'
    BY DEF Absent, Corrupt, Valid
  <2>1. CASE disk'[x] \in {Absent, Corrupt}
    BY <2>1
  <2>2. CASE disk'[x] = disk[x]
    <3>1. \/ disk[x] \in {Absent, Corrupt}
          \/ disk[x] = Valid(disk[x].exe) /\ Finds(x, disk[x].exe)
      BY DEF BuiltInv
    <3>2. QED BY <1>1, <2>2, <3>1 DEF Finds
  <2>3. CASE x = k /\ disk'[x] = Valid(n + 1)
    <3>1. disk'[x].exe = n + 1
      BY <2>3 DEF Valid
    <3>2. QED BY <1>4, <2>3, <3>1 DEF Finds
  <2>4. QED BY <2>1, <2>2, <2>3 DEF k
<1>7. returned'.exe \in 1 .. Len(made') /\ made'[returned'.exe] = returned'.for
  BY <1>1
<1>8. QED BY <1>1, <1>5, <1>6, <1>7 DEF BuiltInv

\* Nothing is built, and what is found was found before.
LEMMA BuiltSame ==
    ASSUME BuiltInv, made' = made,
           \A x \in DOMAIN entries' : x \in DOMAIN entries /\ entries'[x] = entries[x],
           DOMAIN disk' = CompileKeys, disk' = [x \in CompileKeys |-> disk'[x]],
           \A x \in CompileKeys : disk'[x] \in {disk[x], Absent, Corrupt},
           \/ returned' = returned
           \/ returned'.op # "compile"
           \/ \E k \in DOMAIN entries : returned'.exe = entries[k] /\ returned'.for = Request(k)
    PROVE  BuiltInv'
<1>1. (\A x \in DOMAIN entries : Finds(x, entries[x]))'
  BY DEF BuiltInv, Finds
<1>2. (\A x \in CompileKeys :
          \/ disk[x] \in {Absent, Corrupt}
          \/ disk[x] = Valid(disk[x].exe) /\ Finds(x, disk[x].exe))'
  <2> SUFFICES ASSUME NEW x \in CompileKeys
               PROVE  \/ disk'[x] \in {Absent, Corrupt}
                      \/ disk'[x] = Valid(disk'[x].exe) /\ Finds(x, disk[x].exe)'
    BY DEF Absent, Corrupt, Valid
  <2>1. \/ disk[x] \in {Absent, Corrupt}
        \/ disk[x] = Valid(disk[x].exe) /\ Finds(x, disk[x].exe)
    BY DEF BuiltInv
  <2>2. QED BY <2>1 DEF Finds
<1>3. (returned.op = "compile" =>
          returned.exe \in 1 .. Len(made) /\ made[returned.exe] = returned.for)'
  BY DEF BuiltInv, Finds
<1>4. QED BY <1>1, <1>2, <1>3 DEF BuiltInv

\* Counting an executable obtained from disk or from the backend.
LEMMA OneMore ==
    ASSUME NEW s \in Counters, NEW gone \in Nat, NEW kept \in Nat,
           Balanced(s, gone, kept, 0)
    PROVE  /\ [s EXCEPT !.diskHits = @ + 1] \in Counters
           /\ Balanced([s EXCEPT !.diskHits = @ + 1], gone, kept, 1)
           /\ \A r, w \in {0, 1} :
                 LET t == [s EXCEPT !.misses = @ + 1, !.readErrors = @ + r, !.writeErrors = @ + w]
                 IN  t \in Counters /\ Balanced(t, gone, kept, 1)
           /\ \A r \in {0, 1} :
                 LET t == [s EXCEPT !.misses = @ + 1, !.failures = @ + 1, !.readErrors = @ + r]
                 IN  t \in Counters /\ Balanced(t, gone, kept, 0)
<1>1. /\ s.diskHits \in Nat /\ s.misses \in Nat /\ s.failures \in Nat
      /\ s.bypasses \in Nat /\ s.evictions \in Nat /\ s.readErrors \in Nat
      /\ s.writeErrors \in Nat
      /\ s.diskHits + s.misses = s.failures + s.bypasses + s.evictions + gone + kept + 0
  BY DEF Counters, Balanced
<1>2. [s EXCEPT !.diskHits = @ + 1] \in Counters
  BY <1>1 DEF Counters
<1>3. Balanced([s EXCEPT !.diskHits = @ + 1], gone, kept, 1)
  <2> DEFINE t == [s EXCEPT !.diskHits = @ + 1]
  <2>1. /\ t.diskHits = s.diskHits + 1 /\ t.misses = s.misses /\ t.failures = s.failures
        /\ t.bypasses = s.bypasses /\ t.evictions = s.evictions
    BY DEF Counters
  <2> HIDE DEF t
  <2>2. Balanced(t, gone, kept, 1)
    BY <1>1, <2>1 DEF Balanced
  <2>3. QED BY <2>2 DEF t
<1>4. ASSUME NEW r \in {0, 1}, NEW w \in {0, 1}
      PROVE  LET t == [s EXCEPT !.misses = @ + 1, !.readErrors = @ + r, !.writeErrors = @ + w]
             IN  t \in Counters /\ Balanced(t, gone, kept, 1)
  <2> DEFINE t == [s EXCEPT !.misses = @ + 1, !.readErrors = @ + r, !.writeErrors = @ + w]
  <2>1. s.readErrors + r \in Nat /\ s.writeErrors + w \in Nat /\ s.misses + 1 \in Nat
    BY <1>1
  <2>2. t \in Counters
    BY <2>1 DEF Counters
  <2>3. /\ t.diskHits = s.diskHits /\ t.misses = s.misses + 1 /\ t.failures = s.failures
        /\ t.bypasses = s.bypasses /\ t.evictions = s.evictions
    BY DEF Counters
  <2> HIDE DEF t
  <2>4. Balanced(t, gone, kept, 1)
    BY <1>1, <2>3 DEF Balanced
  <2>5. QED BY <2>2, <2>4 DEF t
<1>5. ASSUME NEW r \in {0, 1}
      PROVE  LET t == [s EXCEPT !.misses = @ + 1, !.failures = @ + 1, !.readErrors = @ + r]
             IN  t \in Counters /\ Balanced(t, gone, kept, 0)
  <2> DEFINE t == [s EXCEPT !.misses = @ + 1, !.failures = @ + 1, !.readErrors = @ + r]
  <2>1. s.readErrors + r \in Nat /\ s.failures + 1 \in Nat /\ s.misses + 1 \in Nat
    BY <1>1
  <2>2. t \in Counters
    BY <2>1 DEF Counters
  <2>3. /\ t.diskHits = s.diskHits /\ t.misses = s.misses + 1 /\ t.failures = s.failures + 1
        /\ t.bypasses = s.bypasses /\ t.evictions = s.evictions
    BY DEF Counters
  <2> HIDE DEF t
  <2>4. t.diskHits + t.misses = t.failures + t.bypasses + t.evictions + gone + kept + 0
    <3>1. t.diskHits + t.misses = (s.diskHits + s.misses) + 1
      BY <1>1, <2>3
    <3>2. t.failures + t.bypasses + t.evictions + gone + kept + 0
             = (s.failures + s.bypasses + s.evictions + gone + kept + 0) + 1
      BY <1>1, <2>3
    <3>3. QED BY <1>1, <3>1, <3>2
  <2>5. Balanced(t, gone, kept, 0)
    BY <2>4 DEF Balanced
  <2>6. QED BY <2>2, <2>5 DEF t
<1>6. QED BY <1>2, <1>3, <1>4, <1>5

-----------------------------------------------------------------------------
\* The calls.

\* Serving an executable from memory.
LEMMA KeepHit ==
    ASSUME CacheInv, NEW p \in Programs, NEW o \in Options, CompileHit(p, o)
    PROVE  CacheInv'
<1>1. QueueInv' /\ Len(recency') = Len(recency) /\ stats' = [stats EXCEPT !.hits = @ + 1]
  BY QueueHit DEF CacheInv
<1>2. BuiltInv'
  <2>1. /\ UNCHANGED <<entries, disk, made>> /\ Key(p, o) \in DOMAIN entries
        /\ returned' = [op |-> "compile", for |-> <<p, o>>, exe |-> entries[Key(p, o)]]
    BY DEF CompileHit
  <2>2. Request(Key(p, o)) = <<p, o>>
    BY KeyFacts
  <2>3. DOMAIN disk' = CompileKeys /\ disk' = [x \in CompileKeys |-> disk'[x]]
    BY <2>1 DEF CacheInv, BuiltInv
  <2>4. QED BY <2>1, <2>2, <2>3, BuiltSame DEF CacheInv
<1>3. StatsInv'
  <2>1. stats \in Counters /\ removed \in Nat /\ Balanced(stats, removed, Len(recency), 0)
        /\ removed' = removed
    BY DEF CacheInv, StatsInv, CompileHit
  <2>2. stats' \in Counters
    BY <1>1, <2>1 DEF Counters
  <2>3. Balanced(stats', removed, Len(recency), 0)
    BY <1>1, <2>1 DEF Counters, Balanced
  <2>4. QED BY <1>1, <2>1, <2>2, <2>3 DEF StatsInv
<1>4. BoundsInv'
  BY CacheAssumption DEF CacheInv, BoundsInv, CompileHit, Call
<1>5. QED BY <1>1, <1>2, <1>3, <1>4 DEF CacheInv

\* Restoring an executable from disk.
LEMMA KeepFromDisk ==
    ASSUME CacheInv, NEW p \in Programs, NEW o \in Options, CompileFromDisk(p, o)
    PROVE  CacheInv'
<1> DEFINE k == Key(p, o)
           s == [stats EXCEPT !.diskHits = @ + 1]
<1>1. /\ k \in CompileKeys /\ k \notin DOMAIN entries /\ Request(k) = <<p, o>>
      /\ Retain(k, Len(made) + 1, s) /\ UNCHANGED <<disk, removed>>
      /\ made' = Append(made, made[disk[k].exe]) /\ disk[k].file = "valid"
      /\ returned' = [op |-> "compile", for |-> <<p, o>>, exe |-> Len(made) + 1]
  BY KeyFacts DEF CompileFromDisk
<1>2. made[disk[k].exe] = <<p, o>>
  BY <1>1 DEF CacheInv, BuiltInv, Absent, Corrupt, Finds
<1>3. Len(recency) \in Nat /\ removed \in Nat
  BY QueueTerms DEF CacheInv, StatsInv
<1>4. s \in Counters /\ Balanced(s, removed, Len(recency), 1)
  BY <1>3, OneMore DEF CacheInv, StatsInv
<1> HIDE DEF k, s
<1>5. /\ QueueInv'
      /\ \A x \in DOMAIN entries' :
            IF x = k THEN entries'[x] = Len(made) + 1
            ELSE x \in DOMAIN entries /\ entries'[x] = entries[x]
      /\ stats' \in Counters
      /\ Balanced(stats', removed, Len(recency'), 0)
  BY <1>1, <1>3, <1>4, QueueRetain DEF CacheInv
<1>6. BuiltInv'
  <2>1. DOMAIN disk' = CompileKeys /\ disk' = [x \in CompileKeys |-> disk'[x]]
    BY <1>1 DEF CacheInv, BuiltInv
  <2>2. \A x \in CompileKeys : disk'[x] \in {disk[x], Absent, Corrupt}
    BY <1>1
  <2>3. QED BY <1>1, <1>2, <1>5, <2>1, <2>2, BuiltMore DEF CacheInv, k
<1>7. StatsInv'
  BY <1>1, <1>3, <1>5 DEF StatsInv
<1>8. BoundsInv'
  BY CacheAssumption DEF CacheInv, BoundsInv, CompileFromDisk, Call
<1>9. QED BY <1>5, <1>6, <1>7, <1>8 DEF CacheInv

\* What a store may leave on disk: what was there, less some files, and the new
\* executable under its own key.
LEMMA StoreLeaves ==
    ASSUME BuiltInv, NEW k \in CompileKeys, NEW exe,
           NEW stored \in IF WithDisk THEN StoreOutcomes(k, exe) ELSE NoStore
    PROVE  /\ DOMAIN stored.disk = CompileKeys
           /\ stored.disk = [x \in CompileKeys |-> stored.disk[x]]
           /\ \A x \in CompileKeys :
                 \/ stored.disk[x] \in {disk[x], Absent, Corrupt}
                 \/ x = k /\ stored.disk[x] = Valid(exe)
           /\ stored.error \in {0, 1}
<1> DEFINE published == IF disk[k] = Absent THEN [disk EXCEPT ![k] = Valid(exe)] ELSE disk
           trimmed(oldest) == [x \in CompileKeys |->
              IF published[x].file = "valid" /\ published[x].exe <= oldest THEN Absent
              ELSE published[x]]
           Left(d) == /\ DOMAIN d = CompileKeys
                      /\ d = [x \in CompileKeys |-> d[x]]
                      /\ \A x \in CompileKeys :
                            \/ d[x] \in {disk[x], Absent, Corrupt}
                            \/ x = k /\ d[x] = Valid(exe)
<1>1. Left(disk)
  BY DEF BuiltInv
<1>2. Left(published)
  BY DEF BuiltInv
<1>3. \A oldest : Left(trimmed(oldest))
  BY <1>2
<1>4. \/ stored.disk \in {disk, published} /\ stored.error \in {0, 1}
      \/ \E oldest : stored.disk = trimmed(oldest) /\ stored.error \in {0, 1}
  <2>1. CASE stored \in NoStore
    BY <2>1 DEF NoStore
  <2>2. CASE stored \in StoreOutcomes(k, exe)
    BY <2>2 DEF StoreOutcomes
  <2>3. QED BY <2>1, <2>2
<1> HIDE DEF published, trimmed
<1>5. Left(stored.disk) /\ stored.error \in {0, 1}
  BY <1>1, <1>2, <1>3, <1>4
<1>6. QED BY <1>5

\* Compiling with the backend.
LEMMA KeepMiss ==
    ASSUME CacheInv, NEW p \in Programs, NEW o \in Options, CompileMiss(p, o)
    PROVE  CacheInv'
<1> DEFINE k == Key(p, o)
           exe == Len(made) + 1
<1>1. PICK readError \in ReadErrors(k),
           stored \in IF WithDisk THEN StoreOutcomes(k, exe) ELSE NoStore :
         /\ disk' = stored.disk
         /\ Retain(k, exe, [stats EXCEPT !.misses = @ + 1, !.readErrors = @ + readError,
                                         !.writeErrors = @ + stored.error])
  BY DEF CompileMiss
<1> DEFINE s == [stats EXCEPT !.misses = @ + 1, !.readErrors = @ + readError,
                              !.writeErrors = @ + stored.error]
<1>2. /\ k \in CompileKeys /\ k \notin DOMAIN entries /\ removed' = removed
      /\ made' = Append(made, <<p, o>>)
      /\ returned' = [op |-> "compile", for |-> <<p, o>>, exe |-> exe]
  BY KeyFacts DEF CompileMiss
<1>3. readError \in {0, 1}
  BY DEF ReadErrors
<1>4. /\ DOMAIN stored.disk = CompileKeys
      /\ stored.disk = [x \in CompileKeys |-> stored.disk[x]]
      /\ \A x \in CompileKeys :
            \/ stored.disk[x] \in {disk[x], Absent, Corrupt}
            \/ x = k /\ stored.disk[x] = Valid(exe)
      /\ stored.error \in {0, 1}
  <2> HIDE DEF k, exe
  <2>1. QED BY <1>2, StoreLeaves DEF CacheInv
<1>5. Len(recency) \in Nat /\ stats \in Counters /\ removed \in Nat
      /\ Balanced(stats, removed, Len(recency), 0)
  BY QueueTerms DEF CacheInv, StatsInv
<1>6. s \in Counters /\ Balanced(s, removed, Len(recency), 1)
  BY <1>3, <1>4, <1>5, OneMore
<1>7. /\ QueueInv'
      /\ \A x \in DOMAIN entries' :
            IF x = k THEN entries'[x] = exe ELSE x \in DOMAIN entries /\ entries'[x] = entries[x]
      /\ stats' \in Counters
      /\ Balanced(stats', removed, Len(recency'), 0)
  <2>1. Retain(k, exe, s)
    BY <1>1
  <2> HIDE DEF k, exe, s
  <2>2. QED BY <1>2, <1>5, <1>6, <2>1, QueueRetain DEF CacheInv
<1>8. BuiltInv'
  BY <1>1, <1>2, <1>4, <1>7, BuiltMore DEF CacheInv
<1>9. StatsInv'
  BY <1>2, <1>5, <1>7 DEF StatsInv
<1>10. BoundsInv'
  BY CacheAssumption DEF CacheInv, BoundsInv, CompileMiss, Call
<1>11. QED BY <1>7, <1>8, <1>9, <1>10 DEF CacheInv

\* The map and the counters of a step that leaves the map alone.
LEMMA MapSame ==
    ASSUME CacheInv, UNCHANGED <<mapVars, uses, removed>>,
           stats' \in Counters, Balanced(stats', removed, Len(recency), 0)
    PROVE  QueueInv' /\ StatsInv'
  BY DEF CacheInv, QueueInv, StatsInv, mapVars

\* A compilation that fails.
LEMMA KeepFails ==
    ASSUME CacheInv, NEW p \in Programs, NEW o \in Options, CompileFails(p, o)
    PROVE  CacheInv'
<1>1. PICK readError \in ReadErrors(Key(p, o)) :
         stats' = [stats EXCEPT !.misses = @ + 1, !.failures = @ + 1,
                                !.readErrors = @ + readError]
  BY DEF CompileFails
<1>2. readError \in {0, 1}
  BY DEF ReadErrors
<1>3. UNCHANGED <<mapVars, disk, made, uses, removed>> /\ returned' = [op |-> "error"]
  BY DEF CompileFails
<1>4. Len(recency) \in Nat /\ stats \in Counters /\ removed \in Nat
      /\ Balanced(stats, removed, Len(recency), 0)
  BY QueueTerms DEF CacheInv, StatsInv
<1>5. stats' \in Counters /\ Balanced(stats', removed, Len(recency), 0)
  BY <1>1, <1>2, <1>4, OneMore
<1>6. QueueInv' /\ StatsInv'
  BY <1>3, <1>5, MapSame
<1>7. BuiltInv'
  <2>1. UNCHANGED <<entries, disk, made>> /\ returned'.op # "compile"
    BY <1>3 DEF mapVars
  <2>2. QED BY <2>1, BuiltSame DEF CacheInv, BuiltInv
<1>8. BoundsInv'
  BY CacheAssumption DEF CacheInv, BoundsInv, CompileFails, Call
<1>9. QED BY <1>6, <1>7, <1>8 DEF CacheInv

\* Dropping one executable from memory.
LEMMA KeepInvalidateMemory ==
    ASSUME CacheInv, NEW p \in Programs, InvalidateMemory(p)
    PROVE  CacheInv'
<1> DEFINE k == Key(p, NoOptions)
           i == PositionOf(k)
           r == RemoveAt(recency, i)
<1>1. k \in CompileKeys /\ returned' = [op |-> "done"] /\ UNCHANGED <<stats, disk, made, uses>>
  BY KeyFacts DEF InvalidateMemory
<1>2. /\ QueueInv /\ BuiltInv /\ StatsInv
      /\ recency \in Seq(CompileKeys) /\ uses \in Seq(CompileKeys) /\ InOrder(recency, uses)
      /\ Len(recency) \in Nat
  BY DEF CacheInv, QueueInv
<1>3. BoundsInv'
  BY CacheAssumption DEF CacheInv, BoundsInv, InvalidateMemory, Call
<1>4. CASE k \notin DOMAIN entries
  <2>1. UNCHANGED <<mapVars, removed>>
    BY <1>4 DEF InvalidateMemory
  <2>2. QueueInv' /\ StatsInv'
    BY <1>1, <1>2, <2>1, MapSame DEF StatsInv
  <2>3. UNCHANGED <<entries, disk, made>> /\ returned'.op # "compile"
    BY <1>1, <2>1 DEF mapVars
  <2>4. BuiltInv'
    BY <1>2, <2>3, BuiltSame DEF BuiltInv
  <2>5. QED BY <1>3, <2>2, <2>4 DEF CacheInv
<1>5. CASE k \in DOMAIN entries
  <2>1. Known(k) /\ i \in 1 .. Len(recency) /\ recency[i] = k
    BY <1>2, <1>5, PositionFound
  <2>2. /\ entries' = [x \in DOMAIN entries \ {k} |-> entries[x]]
        /\ recency' = r
        /\ keyBytes' = keyBytes - KeyLen(k)
        /\ removed' = removed + 1
        /\ UNCHANGED panicked
    BY <1>5, <2>1 DEF InvalidateMemory
  <2> HIDE DEF k, i
  <2>3. r \in Seq(CompileKeys) /\ Len(r) = Len(recency) - 1
    BY <1>2, <2>1, RemoveAtFacts
  <2>4. InOrder(r, uses) /\ KeysIn(r) = KeysIn(recency) \ {k}
    BY <1>2, <2>1, OrderRemove
  <2>5. Total(r) = Total(recency) - KeyLen(k) /\ Total(r) \in Nat /\ Total(recency) \in Nat
    BY <1>2, <2>1, BytesRemove
  <2>6. KeyLen(k) \in Nat
    BY <1>1, KeyLenType
  <2> HIDE DEF r
  <2>7. QueueInv'
    <3>1. keyBytes' = Total(recency') /\ keyBytes' <= MaxKeyBytes
      BY <1>2, <2>2, <2>5, <2>6, KeyFacts DEF QueueInv
    <3>2. Len(recency') <= MaxEntries
      BY <1>2, <2>2, <2>3, KeyFacts DEF QueueInv
    <3>3. DOMAIN entries' = KeysIn(recency')
      BY <1>2, <2>2, <2>4 DEF QueueInv
    <3>4. QED BY <1>1, <1>2, <2>2, <2>3, <2>4, <3>1, <3>2, <3>3 DEF QueueInv
  <2>8. StatsInv'
    <3>1. stats \in Counters /\ removed \in Nat /\ Balanced(stats, removed, Len(recency), 0)
      BY <1>2 DEF StatsInv
    <3>2. Balanced(stats, removed + 1, Len(recency) - 1, 0)
      BY <1>2, <3>1, SMTT(20) DEF Counters, Balanced
    <3>3. QED BY <1>1, <2>2, <2>3, <3>1, <3>2 DEF StatsInv
  <2>9. BuiltInv'
    <3>1. /\ UNCHANGED <<disk, made>> /\ returned'.op # "compile"
          /\ \A x \in DOMAIN entries' : x \in DOMAIN entries /\ entries'[x] = entries[x]
      BY <1>1, <2>2
    <3>2. QED BY <1>2, <3>1, BuiltSame DEF BuiltInv
  <2>10. QED BY <1>3, <2>7, <2>8, <2>9 DEF CacheInv
<1>6. QED BY <1>4, <1>5

\* Dropping every executable from memory.
LEMMA KeepClear == ASSUME CacheInv, Clear PROVE CacheInv'
<1>1. /\ entries' = [k \in {} |-> 0] /\ recency' = <<>> /\ keyBytes' = 0
      /\ removed' = removed + Cardinality(DOMAIN entries)
      /\ returned' = [op |-> "done"]
      /\ UNCHANGED <<panicked, stats, disk, made, uses>>
  BY DEF Clear
<1>2. Cardinality(DOMAIN entries) = Len(recency) /\ Len(recency) \in Nat
  BY QueueTerms DEF CacheInv
<1>3. QueueInv'
  <2>1. <<>> \in Seq(CompileKeys) /\ Len(<<>>) = 0
    OBVIOUS
  <2>2. InOrder(<<>>, uses) /\ KeysIn(<<>>) = {}
    BY DEF InOrder, KeysIn
  <2>3. Total(<<>>) = 0
    BY <2>1, BytesRec DEF Total
  <2>4. DOMAIN entries' = {}
    BY <1>1
  <2>5. uses' \in Seq(CompileKeys) /\ panicked' = FALSE
    BY <1>1 DEF CacheInv, QueueInv
  <2>6. QED BY <1>1, <2>1, <2>2, <2>3, <2>4, <2>5, KeyFacts DEF QueueInv
<1>4. StatsInv'
  <2>1. stats \in Counters /\ removed \in Nat /\ Balanced(stats, removed, Len(recency), 0)
    BY DEF CacheInv, StatsInv
  <2>2. Len(recency') = 0 /\ removed' = removed + Len(recency) /\ removed' \in Nat
    BY <1>1, <1>2, <2>1
  <2>3. Balanced(stats, removed + Len(recency), 0, 0)
    <3> DEFINE l == Len(recency)
    <3>1. l \in Nat /\ Balanced(stats, removed, l, 0)
      BY <1>2, <2>1
    <3>2. /\ stats.failures \in Nat /\ stats.bypasses \in Nat /\ stats.evictions \in Nat
          /\ removed \in Nat
      BY <2>1 DEF Counters
    <3> HIDE DEF l
    <3>3. Balanced(stats, removed + l, 0, 0)
      BY <3>1, <3>2 DEF Balanced
    <3>4. QED BY <3>3 DEF l
  <2>4. QED BY <1>1, <2>1, <2>2, <2>3 DEF StatsInv
<1>5. BuiltInv'
  <2>1. /\ UNCHANGED <<disk, made>> /\ returned'.op # "compile"
        /\ \A x \in DOMAIN entries' : x \in DOMAIN entries /\ entries'[x] = entries[x]
    BY <1>1
  <2>2. QED BY <2>1, BuiltSame DEF CacheInv, BuiltInv
<1>6. BoundsInv'
  BY CacheAssumption DEF CacheInv, BoundsInv, Clear, Call
<1>7. QED BY <1>3, <1>4, <1>5, <1>6 DEF CacheInv

\* Files removed or damaged, by this process or by others.
LEMMA KeepDiskSteps ==
    ASSUME CacheInv,
           (\E p \in Programs : InvalidateDisk(p)) \/ (\E k \in CompileKeys : DiskChanges(k))
    PROVE  CacheInv'
<1>1. /\ UNCHANGED <<mapVars, stats, made, uses, removed>>
      /\ returned' = returned \/ returned'.op # "compile"
      /\ \E k \in CompileKeys, new \in {Absent, Corrupt} : disk' = [disk EXCEPT ![k] = new]
  BY KeyFacts DEF InvalidateDisk, DiskChanges
<1>2. QueueInv' /\ StatsInv'
  BY <1>1, MapSame DEF CacheInv, StatsInv
<1>3. BuiltInv'
  <2>1. entries' = entries /\ made' = made
    BY <1>1 DEF mapVars
  <2>2. DOMAIN disk = CompileKeys /\ disk = [x \in CompileKeys |-> disk[x]] /\ BuiltInv
    BY DEF CacheInv, BuiltInv
  <2>3. /\ DOMAIN disk' = CompileKeys /\ disk' = [x \in CompileKeys |-> disk'[x]]
        /\ \A x \in CompileKeys : disk'[x] \in {disk[x], Absent, Corrupt}
    BY <1>1, <2>2
  <2>4. QED BY <1>1, <2>1, <2>2, <2>3, BuiltSame
<1>4. BoundsInv'
  BY CacheAssumption DEF CacheInv, BoundsInv, InvalidateDisk, DiskChanges, Call
<1>5. QED BY <1>2, <1>3, <1>4 DEF CacheInv

\* Every call and every change of the directory keeps the invariant.
LEMMA KeepNext == CacheInv /\ [CompilerNext]_compilerVars => CacheInv'
<1> SUFFICES ASSUME CacheInv, [CompilerNext]_compilerVars PROVE CacheInv'
  OBVIOUS
<1>1. CASE UNCHANGED compilerVars
  <2>1. QueueInv'
    BY <1>1 DEF compilerVars, mapVars, CacheInv, QueueInv
  <2>2. BuiltInv'
    BY <1>1 DEF compilerVars, mapVars, CacheInv, BuiltInv, Finds
  <2>3. StatsInv' /\ BoundsInv'
    BY <1>1 DEF compilerVars, mapVars, CacheInv, StatsInv, BoundsInv
  <2>4. QED BY <2>1, <2>2, <2>3 DEF CacheInv
<1>2. QED
  BY <1>1, KeyFacts, KeepHit, KeepFromDisk, KeepMiss, KeepFails, KeepInvalidateMemory,
     KeepClear, KeepDiskSteps
     DEF CompilerNext, CompilerDone

-----------------------------------------------------------------------------
\* The theorems.

\* The invariant above holds after any calls, evictions and damage on disk.
THEOREM CacheInvariant == CompilerSpec => []CacheInv
  BY InvInit, KeepNext, PTL DEF CompilerSpec

\* compiler.rs:316-318: an executable is only handed out for the program and the
\* compile options it was built from, whichever cache it comes from.
THEOREM ExecutablesRight == CompilerSpec => []RightExecutable
<1>1. CacheInv => RightExecutable
  BY DEF CacheInv, BuiltInv, RightExecutable
<1>2. QED BY <1>1, CacheInvariant, PTL

\* The queue is the retained keys in the order of their last uses.
LEMMA QueueIsRecency == CacheInv => RecencyIsLastUse
<1> SUFFICES ASSUME CacheInv PROVE RecencyIsLastUse
  OBVIOUS
<1>1. /\ recency \in Seq(CompileKeys) /\ uses \in Seq(CompileKeys)
      /\ InOrder(recency, uses) /\ DOMAIN entries = KeysIn(recency)
      /\ DOMAIN recency = 1 .. Len(recency) /\ DOMAIN uses = 1 .. Len(uses)
  BY DEF CacheInv, QueueInv
<1>2. \A i \in 1 .. Len(recency) : IsLast(uses, recency[i], LastUse(recency[i]))
  <2> SUFFICES ASSUME NEW i \in 1 .. Len(recency)
               PROVE  IsLast(uses, recency[i], LastUse(recency[i]))
    OBVIOUS
  <2>1. PICK a : IsLast(uses, recency[i], a)
    BY <1>1 DEF InOrder
  <2>2. \E a_1 \in DOMAIN uses : uses[a_1] = recency[i]
           /\ \A j \in DOMAIN uses : uses[j] = recency[i] => j <= a_1
    BY <1>1, <2>1 DEF IsLast
  <2>3. QED BY <1>1, <2>2 DEF LastUse, IsLast
<1>3. QED BY <1>1, <1>2 DEF RecencyIsLastUse, InOrder, KeysIn

\* The accounts of the cache agree: the queue is the retained keys in the order
\* of their last use (compiler.rs:326), the byte count is their total and within
\* the limits (compiler.rs:220), the counters balance and no `expect` fails.
THEOREM AccountsAgree == CompilerSpec => []CacheAccounts
<1>1. CacheInv => CacheAccounts
  <2> SUFFICES ASSUME CacheInv PROVE CacheAccounts
    OBVIOUS
  <2>1. /\ PopBytes(Len(recency)) = keyBytes /\ keyBytes \in Nat
        /\ Cardinality(DOMAIN entries) = Len(recency)
    BY QueueTerms DEF CacheInv
  <2>2. CompilerTypeOK
    <3>1. /\ recency \in Seq(CompileKeys) /\ DOMAIN entries \subseteq CompileKeys
          /\ panicked \in BOOLEAN
      <4>1. /\ recency \in Seq(CompileKeys) /\ DOMAIN entries = KeysIn(recency)
            /\ panicked = FALSE
        BY DEF CacheInv, QueueInv
      <4>2. \A i \in 1 .. Len(recency) : recency[i] \in CompileKeys
        BY <4>1
      <4>3. DOMAIN entries \subseteq CompileKeys
        BY <4>1, <4>2 DEF KeysIn
      <4>4. panicked \in BOOLEAN
        BY <4>1
      <4>5. QED BY <4>1, <4>3, <4>4
    <3>2. made \in Seq(Programs \X Options) /\ DOMAIN made = 1 .. Len(made)
          /\ \A k \in DOMAIN entries : entries[k] \in DOMAIN made
      BY DEF CacheInv, BuiltInv, Finds
    <3>3. disk \in [CompileKeys -> {Absent, Corrupt} \cup {Valid(e) : e \in DOMAIN made}]
      <4>1. \A k \in CompileKeys : disk[k] \in {Absent, Corrupt} \cup {Valid(e) : e \in DOMAIN made}
        BY <3>2 DEF CacheInv, BuiltInv, Finds
      <4>2. disk = [k \in CompileKeys |-> disk[k]]
        BY DEF CacheInv, BuiltInv
      <4>3. QED BY <4>1, <4>2
    <3>4. \A f \in DOMAIN NoStats : stats[f] \in Nat
      BY DEF CacheInv, StatsInv, Counters, NoStats
    <3>5. QED BY <2>1, <3>1, <3>2, <3>3, <3>4 DEF CompilerTypeOK, CacheInv, BoundsInv
  <2>3. WithinLimits
    BY <2>1 DEF WithinLimits, CacheInv, QueueInv
  <2>4. StatsBalance
    <3>1. Balanced(stats, removed, Len(recency), 0) /\ stats \in Counters /\ removed \in Nat
      BY DEF CacheInv, StatsInv
    <3>2. Len(recency) \in Nat
      BY DEF CacheInv, QueueInv
    <3>3. QED BY <2>1, <3>1, <3>2 DEF StatsBalance, Balanced, Counters
  <2>5. NeverPanics
    BY DEF NeverPanics, CacheInv, QueueInv
  <2>6. QED BY <2>2, <2>3, <2>4, <2>5, QueueIsRecency DEF CacheAccounts
<1>2. QED BY <1>1, CacheInvariant, PTL

-----------------------------------------------------------------------------
\* The directory.

Stages == {"idle", "stat", "open", "write", "persist", "visit", "classify", "remove"}
Entries == [kind : {"entry"}, ns : Namespaces, key : Keys, sound : BOOLEAN,
            bytes : Nat, mtime : Nat]
Records == [id : Ids, bytes : Nat, mtime : Nat]

Typed ==
    /\ files \in [Ids -> Entries \cup {NoFile}]
    /\ temps \in [Procs -> Entries \cup {NoFile, Partial}]
    /\ loaded \in [Procs -> Entries \cup {NoFile}]
    /\ pc \in [Procs -> Stages]
    /\ arg \in [Procs -> Keys]
    /\ todo \in [Procs -> SUBSET Ids]
    /\ records \in [Procs -> SUBSET Records]
    /\ cands \in [Procs -> SUBSET Records]
    /\ clock \in Nat
    /\ crashes \in Nat
    /\ orphans \in 0 .. crashes

\* Nothing was modified later than now.
Dated ==
    /\ \A id \in Ids : Exists(id) => files[id].mtime <= clock
    /\ \A p \in Procs : /\ temps[p] \in Entries => temps[p].mtime <= clock
                        /\ \A r \in records[p] \cup cands[p] : r.mtime <= clock

\* A file's name is its envelope's.
Named == \A id \in Ids : Exists(id) => <<files[id].ns, files[id].key>> = id

\* A temporary file is the running store's, and written before it is renamed.
Staged ==
    \A p \in Procs :
        /\ temps[p] # NoFile <=> pc[p] \in {"write", "persist"}
        /\ pc[p] = "persist" => /\ temps[p] \in Entries
                                /\ temps[p].sound
                                /\ <<temps[p].ns, temps[p].key>> = ArtifactId(p, arg[p])

\* A trim's candidates belong to the trimming process.
Own == \A p \in Procs : \A r \in cands[p] : r.id[1] = Namespace[p]

DirectoryInv == Typed /\ Dated /\ Named /\ Staged /\ LoadsOnlySound /\ Own

\* An entry is neither missing nor half written, and its id is an artifact id.
LEMMA EntryFacts ==
    /\ NoFile \notin Entries /\ Partial \notin Entries /\ NoFile # Partial
    /\ \A p \in Procs, k \in Keys : ArtifactId(p, k) \in Ids
    /\ \A p \in Procs, k \in Keys, m \in Nat :
          /\ Entry(Namespace[p], k, m) \in Entries
          /\ Entry(Namespace[p], k, m).sound
          /\ Entry(Namespace[p], k, m).mtime = m
          /\ <<Entry(Namespace[p], k, m).ns, Entry(Namespace[p], k, m).key>>
               = ArtifactId(p, k)
    /\ 1 \in Keys
    /\ \A p \in Procs : Limit[p] \in Nat
  BY DiskAssumption DEF NoFile, Partial, Entries, Entry, ArtifactId, Ids, Namespaces, Keys

\* Initially the directory is empty and every process idle.
LEMMA DirectoryStarts == DirectoryInit => DirectoryInv
<1> SUFFICES ASSUME DirectoryInit PROVE DirectoryInv
  OBVIOUS
<1> USE EntryFacts DEF DirectoryInit
<1>1. Typed
  BY DEF Typed, Stages
<1>2. Dated /\ Named /\ Own
  BY DEF Dated, Named, Own, Exists
<1>3. Staged /\ LoadsOnlySound
  BY DEF Staged, LoadsOnlySound
<1>4. QED BY <1>1, <1>2, <1>3 DEF DirectoryInv

-----------------------------------------------------------------------------
\* load.

\* Starting an operation forgets what the last load accepted.
LEMMA KeepBeginLoad ==
    ASSUME DirectoryInv, NEW p \in Procs, NEW k \in Keys, BeginLoad(p, k)
    PROVE  DirectoryInv'
<1> USE EntryFacts DEF DirectoryInv, BeginLoad, Begin, Goto, boundVars
<1>1. Typed'
  BY DEF Typed, Stages
<1>2. Dated' /\ Named' /\ Own'
  BY DEF Dated, Named, Own, Exists
<1>3. Staged'
  BY DEF Typed, Staged, ArtifactId
<1>4. LoadsOnlySound'
  BY DEF Typed, LoadsOnlySound, ArtifactId
<1>5. QED BY <1>1, <1>2, <1>3, <1>4

\* The stat touches nothing but the load's own next step.
LEMMA KeepLoadStat ==
    ASSUME DirectoryInv, NEW p \in Procs, LoadStat(p)
    PROVE  DirectoryInv'
<1> USE DEF DirectoryInv, LoadStat, Goto, boundVars
<1>1. Typed'
  BY DEF Typed, Stages
<1>2. Dated' /\ Named' /\ Own'
  BY DEF Dated, Named, Own, Exists
<1>3. Staged'
  BY DEF Typed, Staged, ArtifactId
<1>4. LoadsOnlySound'
  BY DEF LoadsOnlySound, ArtifactId
<1>5. QED BY <1>1, <1>2, <1>3, <1>4

\* The read accepts an entry only after the envelope has been compared.
LEMMA KeepLoadRead ==
    ASSUME DirectoryInv, NEW p \in Procs, LoadRead(p)
    PROVE  DirectoryInv'
<1> USE EntryFacts DEF DirectoryInv, LoadRead, Goto, boundVars
<1>1. Typed'
  BY DEF Typed, Stages, Exists
<1>2. Dated' /\ Named' /\ Own'
  BY DEF Dated, Named, Own, Exists
<1>3. Staged'
  BY DEF Typed, Staged, ArtifactId
<1>4. LoadsOnlySound'
  <2>1. LoadsOnlySound /\ arg' = arg /\ loaded \in [Procs -> Entries \cup {NoFile}]
    BY DEF Typed
  <2>2. CASE loaded' = loaded
    BY <2>1, <2>2 DEF LoadsOnlySound, ArtifactId
  <2>3. CASE loaded' # loaded
    <3>1. /\ loaded' = [loaded EXCEPT ![p] = files[ArtifactId(p, arg[p])]]
          /\ files[ArtifactId(p, arg[p])].bytes <= Limit[p]
          /\ Compatible(p, arg[p], files[ArtifactId(p, arg[p])])
      BY <2>3 DEF Decodes
    <3> HIDE DEF DirectoryInv, LoadRead
    <3>2. QED BY <2>1, <3>1 DEF LoadsOnlySound, ArtifactId, Compatible
  <2>4. QED BY <2>2, <2>3
<1>5. QED BY <1>1, <1>2, <1>3, <1>4

-----------------------------------------------------------------------------
\* store.

\* Publication starts with a temporary file, unless the entry is too large.
LEMMA KeepBeginStore ==
    ASSUME DirectoryInv, NEW p \in Procs, NEW k \in Keys, BeginStore(p, k)
    PROVE  DirectoryInv'
<1> USE EntryFacts DEF DirectoryInv, BeginStore, Begin, Goto, boundVars
<1>1. Typed'
  BY DEF Typed, Stages
<1>2. Dated' /\ Named' /\ Own'
  BY DEF Typed, Dated, Named, Own, Exists
<1>3. Staged'
  BY DEF Typed, Staged, ArtifactId
<1>4. LoadsOnlySound'
  <2>1. loaded' = [loaded EXCEPT ![p] = NoFile] /\ arg' = [arg EXCEPT ![p] = k]
    OBVIOUS
  <2>2. arg \in [Procs -> Keys] /\ loaded \in [Procs -> Entries \cup {NoFile}]
    BY DEF Typed
  <2>3. LoadsOnlySound
    OBVIOUS
  <2> HIDE DEF DirectoryInv, BeginStore, Begin
  <2>4. QED BY <2>1, <2>2, <2>3 DEF LoadsOnlySound, ArtifactId
<1>5. QED BY <1>1, <1>2, <1>3, <1>4

\* The write completes the temporary file with the store's own envelope.
LEMMA KeepStoreWrite ==
    ASSUME DirectoryInv, NEW p \in Procs, StoreWrite(p)
    PROVE  DirectoryInv'
<1> USE EntryFacts DEF DirectoryInv, StoreWrite, Goto, boundVars
<1>1. PICK tick \in {0, 1} :
         /\ clock' = clock + tick
         /\ temps' = [temps EXCEPT ![p] = Entry(Namespace[p], arg[p], clock + tick)]
  OBVIOUS
<1> DEFINE e == Entry(Namespace[p], arg[p], clock + tick)
<1>2. /\ e \in Entries /\ e.sound /\ e.mtime = clock' /\ <<e.ns, e.key>> = ArtifactId(p, arg[p])
      /\ clock \in Nat /\ clock' \in Nat /\ clock <= clock'
      /\ temps' = [temps EXCEPT ![p] = e]
  <2>1. arg[p] \in Keys /\ clock \in Nat /\ clock' \in Nat /\ clock <= clock'
    BY <1>1 DEF Typed
  <2>2. e = Entry(Namespace[p], arg[p], clock')
    BY <1>1
  <2> HIDE DEF DirectoryInv, StoreWrite, e
  <2>3. QED BY <1>1, <2>1, <2>2, EntryFacts DEF e
<1> HIDE DEF e
<1>3. Typed'
  BY <1>2 DEF Typed, Stages
<1>4. Dated'
  <2>1. (\A id \in Ids : Exists(id) => files[id].mtime <= clock)'
    BY <1>2 DEF Typed, Dated, Exists, Entries
  <2>2. \A q \in Procs : temps'[q] \in Entries => temps'[q].mtime <= clock'
    <3> TAKE q \in Procs
    <3>1. CASE q = p
      BY <1>2, <3>1 DEF Typed
    <3>2. CASE q # p
      <4>1. temps'[q] = temps[q]
        BY <1>2, <3>2 DEF Typed
      <4>2. temps[q] \in Entries => temps[q].mtime \in Nat /\ temps[q].mtime <= clock
        BY DEF Dated, Entries
      <4>3. QED BY <1>2, <4>1, <4>2
    <3>3. QED BY <3>1, <3>2
  <2>3. \A q \in Procs : \A r \in records'[q] \cup cands'[q] : r.mtime <= clock'
    BY <1>2 DEF Typed, Dated, Records
  <2>4. QED BY <2>1, <2>2, <2>3 DEF Dated
<1>5. Named' /\ Own'
  BY DEF Named, Own, Exists
<1>6. Staged'
  BY <1>2 DEF Typed, Staged, ArtifactId
<1>7. LoadsOnlySound'
  BY DEF LoadsOnlySound, ArtifactId
<1>8. QED BY <1>3, <1>4, <1>5, <1>6, <1>7

\* The rename gives a name to a whole entry, or drops it.
LEMMA KeepStorePersist ==
    ASSUME DirectoryInv, NEW p \in Procs, StorePersist(p)
    PROVE  DirectoryInv'
<1> DEFINE id == ArtifactId(p, arg[p])
<1>1. /\ pc[p] = "persist" /\ temps[p] \in Entries /\ id \in Ids
      /\ temps[p].mtime <= clock /\ <<temps[p].ns, temps[p].key>> = id
  BY EntryFacts DEF StorePersist, DirectoryInv, Staged, Dated, Typed
<1>2. files' = IF Exists(id) THEN files ELSE [files EXCEPT ![id] = temps[p]]
  BY DEF StorePersist
<1> USE DEF DirectoryInv
<1>3. /\ temps' = [temps EXCEPT ![p] = NoFile]
      /\ UNCHANGED <<orphans, arg, records, cands, loaded, clock, crashes>>
  BY DEF StorePersist, boundVars
<1>4. /\ todo' \in [Procs -> SUBSET Ids]
      /\ \E to \in Stages \ {"write", "persist"} : pc' = [pc EXCEPT ![p] = to]
  BY DEF StorePersist, AfterPublish, Goto, Stages, Typed
<1>5. Typed'
  BY <1>1, <1>2, <1>3, <1>4 DEF Typed
<1>6. Dated' /\ Named'
  BY <1>1, <1>2, <1>3, EntryFacts DEF Typed, Dated, Named, Exists
<1>7. Staged'
  BY <1>1, <1>3, <1>4, EntryFacts DEF Typed, Staged, ArtifactId
<1>8. LoadsOnlySound' /\ Own'
  BY <1>3 DEF LoadsOnlySound, ArtifactId, Own
<1>9. QED BY <1>5, <1>6, <1>7, <1>8

-----------------------------------------------------------------------------
\* inspect and trim.

\* A scan starts from a listing of the directory.
LEMMA KeepBeginScan ==
    ASSUME DirectoryInv, NEW p \in Procs, NEW what, BeginScan(p, what)
    PROVE  DirectoryInv'
<1> USE EntryFacts DEF DirectoryInv, BeginScan, Begin, Goto, boundVars
<1>1. Typed'
  BY DEF Typed, Stages
<1>2. Dated' /\ Named' /\ Own'
  BY DEF Dated, Named, Own, Exists
<1>3. Staged'
  BY DEF Typed, Staged, ArtifactId
<1>4. LoadsOnlySound'
  BY DEF Typed, LoadsOnlySound, ArtifactId
<1>5. QED BY <1>1, <1>2, <1>3, <1>4

\* A visited file is recorded with the size and age it has then.
LEMMA KeepScanVisit ==
    ASSUME DirectoryInv, NEW p \in Procs, ScanVisit(p)
    PROVE  DirectoryInv'
<1> USE DEF DirectoryInv
<1>1. /\ UNCHANGED <<files, temps, orphans, arg, cands, loaded, clock, crashes>>
      /\ pc[p] = "visit"
      /\ pc' = pc \/ \E to \in {"classify", "idle"} : pc' = [pc EXCEPT ![p] = to]
  BY DEF ScanVisit, Goto, boundVars
<1>2. /\ todo' \in [Procs -> SUBSET Ids]
      /\ records' \in [Procs -> SUBSET Records]
      /\ \A q \in Procs : \A r \in records'[q] : r.mtime <= clock
  <2>1. CASE UNCHANGED <<todo, records>>
    BY <2>1 DEF Typed, Dated
  <2>2. CASE /\ records' = [records EXCEPT ![p] = {}]
             /\ todo' = [todo EXCEPT ![p] = {}]
    BY <2>2 DEF Typed, Dated
  <2>3. ASSUME NEW id \in todo[p], Exists(id),
               records' = [records EXCEPT ![p] =
                 @ \cup {[id |-> id, bytes |-> files[id].bytes, mtime |-> files[id].mtime]}],
               todo' = [todo EXCEPT ![p] = @ \ {id}]
        PROVE  /\ todo' \in [Procs -> SUBSET Ids]
               /\ records' \in [Procs -> SUBSET Records]
               /\ \A q \in Procs : \A x \in records'[q] : x.mtime <= clock
    <3>1. id \in Ids /\ files[id] \in Entries /\ files[id].mtime <= clock
      BY <2>3 DEF Typed, Dated, Exists
    <3> DEFINE r == [id |-> id, bytes |-> files[id].bytes, mtime |-> files[id].mtime]
    <3>2. r \in Records /\ r.mtime <= clock
      BY <3>1 DEF Records, Entries
    <3> HIDE DEF r
    <3>3. records' = [records EXCEPT ![p] = @ \cup {r}]
      BY <2>3 DEF r
    <3>4. QED BY <2>3, <3>2, <3>3 DEF Typed, Dated
  <2>4. QED BY <2>1, <2>2, <2>3 DEF ScanVisit
<1>3. Typed'
  BY <1>1, <1>2 DEF Typed, Stages
<1>4. Dated' /\ Named' /\ Own'
  BY <1>1, <1>2 DEF Dated, Named, Own, Exists
<1>5. Staged'
  BY <1>1 DEF Typed, Staged, ArtifactId
<1>6. LoadsOnlySound'
  BY <1>1 DEF LoadsOnlySound, ArtifactId
<1>7. QED BY <1>3, <1>4, <1>5, <1>6

\* A candidate was read under the id it carries, and names its namespace.
LEMMA KeepScanClassify ==
    ASSUME DirectoryInv, NEW p \in Procs, ScanClassify(p)
    PROVE  DirectoryInv'
<1> USE DEF DirectoryInv
<1>1. /\ UNCHANGED <<files, temps, orphans, arg, todo, loaded, clock, crashes>>
      /\ pc[p] = "classify"
      /\ \/ pc' = pc
         \/ \E to \in {"idle", "remove"} : pc' = [pc EXCEPT ![p] = to]
  BY DEF ScanClassify, Goto, boundVars
<1>2. /\ records' \in [Procs -> SUBSET Records]
      /\ cands' \in [Procs -> SUBSET Records]
      /\ \A q \in Procs : \A x \in records'[q] \cup cands'[q] : x.mtime <= clock
      /\ Own'
  <2>1. CASE UNCHANGED <<records, cands>>
    BY <2>1 DEF Typed, Dated, Own
  <2>2. ASSUME NEW r \in records[p],
               records' = [records EXCEPT ![p] = @ \ {r}],
               cands' = IF op[p] # "inspect" /\ IsCandidate(p, r)
                        THEN [cands EXCEPT ![p] = @ \cup {r}] ELSE cands
        PROVE  /\ records' \in [Procs -> SUBSET Records]
               /\ cands' \in [Procs -> SUBSET Records]
               /\ \A q \in Procs : \A x \in records'[q] \cup cands'[q] : x.mtime <= clock
               /\ Own'
    <3>1. r \in Records /\ r.mtime <= clock
      BY DEF Typed, Dated
    <3>2. IsCandidate(p, r) => r.id[1] = Namespace[p]
      <4>1. r.id \in Ids
        BY <3>1 DEF Records
      <4>2. Exists(r.id) => <<files[r.id].ns, files[r.id].key>> = r.id
        BY <4>1 DEF Named
      <4>3. QED BY <4>2 DEF IsCandidate, Compatible
    <3>3. records' \in [Procs -> SUBSET Records] /\ cands' \in [Procs -> SUBSET Records]
      BY <2>2, <3>1 DEF Typed
    <3>4. \A q \in Procs : \A x \in records'[q] \cup cands'[q] : x.mtime <= clock
      BY <2>2, <3>1 DEF Typed, Dated
    <3>5. Own'
      BY <2>2, <3>2 DEF Typed, Own
    <3>6. QED BY <3>3, <3>4, <3>5
  <2>3. QED BY <2>1, <2>2 DEF ScanClassify
<1>3. Typed'
  BY <1>1, <1>2 DEF Typed, Stages
<1>4. Dated' /\ Named'
  BY <1>1, <1>2 DEF Dated, Named, Exists
<1>5. Staged'
  BY <1>1 DEF Typed, Staged, ArtifactId
<1>6. LoadsOnlySound'
  BY <1>1 DEF LoadsOnlySound, ArtifactId
<1>7. QED BY <1>2, <1>3, <1>4, <1>5, <1>6

\* A removal takes a file and its candidate away.
LEMMA KeepTrimRemove ==
    ASSUME DirectoryInv, NEW p \in Procs, TrimRemove(p)
    PROVE  DirectoryInv'
<1> USE DEF DirectoryInv
<1>1. PICK r \in cands[p] :
         /\ files' = [files EXCEPT ![r.id] = NoFile]
         /\ cands' = [cands EXCEPT ![p] = @ \ {r}]
  BY DEF TrimRemove, Oldest
<1>2. UNCHANGED <<temps, orphans, pc, arg, todo, records, loaded, clock, crashes>>
  BY DEF TrimRemove, boundVars
<1>3. Typed'
  BY <1>1, <1>2 DEF Typed
<1>4. Dated' /\ Named' /\ Own'
  BY <1>1, <1>2 DEF Typed, Dated, Named, Own, Exists
<1>5. Staged' /\ LoadsOnlySound'
  BY <1>2 DEF Staged, LoadsOnlySound, ArtifactId
<1>6. QED BY <1>3, <1>4, <1>5

\* The end of a trim drops what it has not considered.
LEMMA KeepTrimEnd ==
    ASSUME DirectoryInv, NEW p \in Procs, TrimEnd(p)
    PROVE  DirectoryInv'
<1> USE DEF DirectoryInv, TrimEnd, Goto, boundVars
<1>1. Typed'
  BY DEF Typed, Stages
<1>2. Dated' /\ Named' /\ Own'
  BY DEF Typed, Dated, Named, Own, Exists
<1>3. Staged'
  BY DEF Typed, Staged, ArtifactId
<1>4. LoadsOnlySound'
  BY DEF LoadsOnlySound, ArtifactId
<1>5. QED BY <1>1, <1>2, <1>3, <1>4

\* An invalidation removes one file.
LEMMA KeepInvalidate ==
    ASSUME DirectoryInv, NEW p \in Procs, NEW k \in Keys, Invalidate(p, k)
    PROVE  DirectoryInv'
<1> USE EntryFacts DEF DirectoryInv, Invalidate, Begin, Goto, boundVars
<1>1. Typed'
  BY DEF Typed, Stages
<1>2. Dated' /\ Named' /\ Own'
  BY DEF Typed, Dated, Named, Own, Exists
<1>3. Staged'
  BY DEF Typed, Staged, ArtifactId
<1>4. LoadsOnlySound'
  <2>1. loaded' = [loaded EXCEPT ![p] = NoFile] /\ arg' = [arg EXCEPT ![p] = k]
    OBVIOUS
  <2>2. arg \in [Procs -> Keys] /\ loaded \in [Procs -> Entries \cup {NoFile}]
    BY DEF Typed
  <2>3. LoadsOnlySound
    OBVIOUS
  <2> HIDE DEF DirectoryInv, Invalidate, Begin
  <2>4. QED BY <2>1, <2>2, <2>3 DEF LoadsOnlySound, ArtifactId
<1>5. QED BY <1>1, <1>2, <1>3, <1>4

-----------------------------------------------------------------------------
\* Failures.

\* An operation that ends early leaves nothing of its own behind it.
LEMMA KeepForget ==
    ASSUME DirectoryInv, NEW p \in Procs, Forget(p),
           UNCHANGED <<files, arg, loaded, clock>>,
           crashes' \in Nat, orphans' \in 0 .. crashes'
    PROVE  DirectoryInv'
<1> USE EntryFacts DEF DirectoryInv, Forget, Goto
<1>1. Typed'
  BY DEF Typed, Stages
<1>2. Dated' /\ Named' /\ Own'
  BY DEF Typed, Dated, Named, Own, Exists
<1>3. Staged'
  BY DEF Typed, Staged, ArtifactId
<1>4. LoadsOnlySound'
  BY DEF LoadsOnlySound, ArtifactId
<1>5. QED BY <1>1, <1>2, <1>3, <1>4

\* Errors and crashes end an operation early.
LEMMA KeepFailure ==
    ASSUME DirectoryInv, NEW p \in Procs, IoError(p) \/ Crash(p)
    PROVE  DirectoryInv'
<1>1. crashes \in Nat /\ orphans \in 0 .. crashes
  BY DEF DirectoryInv, Typed
<1>2. CASE IoError(p)
  <2>1. Forget(p) /\ UNCHANGED <<files, arg, loaded, clock, crashes, orphans>>
    BY <1>2 DEF IoError, boundVars
  <2>2. QED BY <1>1, <2>1, KeepForget
<1>3. CASE Crash(p)
  <2>1. /\ Forget(p) /\ UNCHANGED <<files, arg, loaded, clock>>
        /\ crashes' = crashes + 1 /\ orphans' \in {orphans, orphans + 1}
    BY <1>3 DEF Crash
  <2>2. crashes' \in Nat /\ orphans' \in 0 .. crashes'
    BY <1>1, <2>1
  <2>3. QED BY <2>1, <2>2, KeepForget
<1>4. QED BY <1>2, <1>3

\* Damage changes neither a file's name nor its age.
LEMMA RotFacts ==
    ASSUME DirectoryInv, NEW id \in Ids, Rot(id)
    PROVE  /\ files' \in [Ids -> Entries \cup {NoFile}]
           /\ \A i \in Ids : Exists(i)' <=> Exists(i)
           /\ \A i \in Ids : Exists(i) => /\ files'[i].ns = files[i].ns
                                          /\ files'[i].key = files[i].key
                                          /\ files'[i].mtime = files[i].mtime
<1>1. files \in [Ids -> Entries \cup {NoFile}] /\ files[id] \in Entries
  BY DEF DirectoryInv, Typed, Rot, Exists
<1>2. PICK size \in Nat : files' = [files EXCEPT ![id].sound = FALSE, ![id].bytes = size]
  <2>1. PICK size \in {files[id].bytes} \cup {1 + Limit[p] : p \in Procs} :
           files' = [files EXCEPT ![id].sound = FALSE, ![id].bytes = size]
    BY DEF Rot
  <2>2. size \in Nat
    <3>1. files[id].bytes \in Nat
      BY <1>1 DEF Entries
    <3>2. \A p \in Procs : 1 + Limit[p] \in Nat
      BY EntryFacts
    <3>3. QED BY <3>1, <3>2
  <2>3. QED BY <2>1, <2>2
<1> DEFINE e == [[files[id] EXCEPT !.sound = FALSE] EXCEPT !.bytes = size]
<1>3. /\ e \in Entries /\ e.ns = files[id].ns /\ e.key = files[id].key
      /\ e.mtime = files[id].mtime
  BY <1>1 DEF Entries
<1>4. files' = [files EXCEPT ![id] = e]
  BY <1>1, <1>2
<1> HIDE DEF e
<1>5. QED BY <1>1, <1>3, <1>4, EntryFacts DEF Exists

\* Damage from outside keeps the invariant.
LEMMA KeepRot ==
    ASSUME DirectoryInv, NEW id \in Ids, Rot(id)
    PROVE  DirectoryInv'
<1>1. UNCHANGED <<temps, orphans, pc, arg, todo, records, cands, loaded, clock, crashes>>
  BY DEF Rot, localVars
<1>2. Typed'
  BY <1>1, RotFacts DEF DirectoryInv, Typed
<1>3. Dated' /\ Named'
  BY <1>1, RotFacts DEF DirectoryInv, Dated, Named, Exists
<1>4. Staged' /\ LoadsOnlySound' /\ Own'
  BY <1>1 DEF DirectoryInv, Staged, LoadsOnlySound, Own, ArtifactId
<1>5. QED BY <1>2, <1>3, <1>4 DEF DirectoryInv

-----------------------------------------------------------------------------
\* The theorems.

\* A step of any process, or of the world outside, keeps the invariant.
LEMMA DirectoryStep == DirectoryInv /\ [DirectoryNext]_directoryVars => DirectoryInv'
<1> SUFFICES ASSUME DirectoryInv, [DirectoryNext]_directoryVars PROVE DirectoryInv'
  OBVIOUS
<1>1. CASE UNCHANGED directoryVars
  BY <1>1 DEF directoryVars, localVars, boundVars, DirectoryInv, Typed, Dated, Named,
              Staged, LoadsOnlySound, Own, Exists, ArtifactId
<1>2. QED
  BY <1>1, KeepBeginLoad, KeepBeginStore, KeepInvalidate, KeepBeginScan, KeepLoadStat,
     KeepLoadRead, KeepStoreWrite, KeepStorePersist, KeepScanVisit, KeepScanClassify,
     KeepTrimRemove, KeepTrimEnd, KeepFailure, KeepRot
     DEF DirectoryNext, DirectoryDone

\* The invariant above holds in every run.
THEOREM DirectoryInvariant == DirectorySpec => []DirectoryInv
  BY DirectoryStarts, DirectoryStep, PTL DEF DirectorySpec

\* What any process may find in the directory at any time: whole entries under
\* their own names, loads that accepted only sound ones, and no temporary file
\* that belongs to nobody (rxla-cache/src/lib.rs:113, disk_cache.rs:302-313).
THEOREM DirectorySound == DirectorySpec => []EntriesSound
<1>1. DirectoryInv => EntriesSound
  <2> SUFFICES ASSUME DirectoryInv PROVE EntriesSound
    OBVIOUS
  <2> USE DEF DirectoryInv
  <2>1. DirectoryTypeOK
    <3>1. \A id \in Ids : files[id] = NoFile \/ IsEntry(files[id])
      BY DEF Typed, Dated, Exists, IsEntry, Entries
    <3>2. \A p \in Procs : temps[p] = NoFile \/ temps[p] = Partial \/ IsEntry(temps[p])
      BY DEF Typed, Dated, IsEntry, Entries
    <3>3. \A p \in Procs : \A r \in records[p] \cup cands[p] : IsRecord(r)
      BY DEF Typed, Dated, IsRecord, Records
    <3>4. QED BY <3>1, <3>2, <3>3 DEF DirectoryTypeOK, Typed, Stages
  <2>2. PublishedWhole
    BY DEF PublishedWhole, Named, Typed, Exists, Entries
  <2>3. TempsAccounted
    BY DEF TempsAccounted, Staged
  <2>4. QED BY <2>1, <2>2, <2>3 DEF EntriesSound
<1>2. QED BY <1>1, DirectoryInvariant, PTL

\* A published entry is never replaced, whichever stores, trims and invalidations
\* run at the same time ("no-clobber", rxla-cache/src/lib.rs:113, 219-228).
THEOREM EntriesStay == DirectorySpec => NeverReplaced
<1>1. DirectoryInv /\ [DirectoryNext]_directoryVars =>
          [\A id \in Ids : Exists(id) /\ Exists(id)' =>
              files'[id].mtime = files[id].mtime]_directoryVars
  <2> SUFFICES ASSUME DirectoryInv, DirectoryNext, NEW id \in Ids, Exists(id), Exists(id)'
               PROVE  files'[id].mtime = files[id].mtime
    OBVIOUS
  <2>1. files \in [Ids -> Entries \cup {NoFile}]
    BY DEF DirectoryInv, Typed
  <2>2. CASE files' = files
    BY <2>2
  <2>3. ASSUME NEW p \in Procs, NEW k \in Keys, Invalidate(p, k)
        PROVE  files'[id].mtime = files[id].mtime
    BY <2>1, <2>3 DEF Invalidate, Exists
  <2>4. ASSUME NEW p \in Procs, StorePersist(p)
        PROVE  files'[id].mtime = files[id].mtime
    BY <2>1, <2>4 DEF StorePersist, Exists
  <2>5. ASSUME NEW p \in Procs, TrimRemove(p)
        PROVE  files'[id].mtime = files[id].mtime
    BY <2>1, <2>5 DEF TrimRemove, Exists
  <2>6. ASSUME NEW i \in Ids, Rot(i)
        PROVE  files'[id].mtime = files[id].mtime
    BY <2>6, RotFacts
  <2>7. QED
    BY <2>2, <2>3, <2>4, <2>5, <2>6
       DEF DirectoryNext, DirectoryDone, directoryVars, BeginLoad, BeginStore, BeginScan,
           LoadStat, LoadRead, StoreWrite, ScanVisit, ScanClassify, TrimEnd, IoError, Crash
<1>2. QED BY <1>1, DirectoryInvariant, PTL DEF DirectorySpec, NeverReplaced

\* A trim removes entries of its own namespace and flags only, although it
\* removes by a name it read earlier (disk_cache.rs:76-83).
THEOREM TrimsOwnOnly == DirectorySpec => TrimSparesOthers
<1>1. DirectoryInv /\ [DirectoryNext]_directoryVars =>
          [\A p \in Procs : TrimRemove(p) =>
              \A id \in Ids : Exists(id) /\ ~Exists(id)' => id[1] = Namespace[p]]_directoryVars
  <2> SUFFICES ASSUME DirectoryInv, NEW p \in Procs, TrimRemove(p),
                      NEW id \in Ids, Exists(id), ~Exists(id)'
               PROVE  id[1] = Namespace[p]
    OBVIOUS
  <2>1. PICK r \in cands[p] : files' = [files EXCEPT ![r.id] = NoFile]
    BY DEF TrimRemove, Oldest
  <2>2. id = r.id
    BY <2>1 DEF DirectoryInv, Typed, Exists
  <2>3. QED BY <2>2 DEF DirectoryInv, Own
<1>2. QED BY <1>1, DirectoryInvariant, PTL DEF DirectorySpec, TrimSparesOthers


-----------------------------------------------------------------------------
\* How far a trim gets.

\* The files a trim of p has to count.
Countable(p) ==
    {id \in Ids : /\ Exists(id) /\ files[id].bytes <= Limit[p]
                  /\ Compatible(p, id[2], files[id])}

\* What the scan of p has found so far.
Found(p) == records[p] \cup cands[p]

\* Each phase of a scan starts with nothing left over from an earlier scan.
Phased(p) ==
    /\ IsFiniteSet(records[p]) /\ IsFiniteSet(cands[p])
    /\ pc[p] # "visit" => todo[p] = {}
    /\ pc[p] \notin {"visit", "classify"} => records[p] = {}
    /\ pc[p] \notin {"classify", "remove"} => cands[p] = {}
    /\ op[p] = "inspect" => cands[p] = {} /\ pc[p] # "remove"

\* A file that is still sound has the size it was found with.
Sized(p) ==
    p \notin grew => \A r \in Found(p) :
        Exists(r.id) /\ files[r.id].sound => r.bytes = files[r.id].bytes

\* No file is missed: it is still to be visited, or has been found.
Covered(p) ==
    p \notin grew /\ pc[p] \in {"visit", "classify", "remove"} /\ op[p] # "inspect" =>
        \A id \in Countable(p) : id \in todo[p] \/ \E r \in Found(p) : r.id = id

ScanInv ==
    /\ op = [p \in Procs |-> op[p]]
    /\ \A p \in Procs : Phased(p) /\ Sized(p) /\ Covered(p)

\* The sound files are among those of before, unchanged.
Fewer ==
    \A id \in Ids : Exists(id)' /\ files'[id].sound => Exists(id) /\ files'[id] = files[id]

\* A scan nobody touches stays as complete as it is, unless a file was published.
LEMMA ScanUntouched ==
    ASSUME Typed, NEW p \in Procs, Phased(p), Sized(p), Covered(p),
           pc'[p] = pc[p], op'[p] = op[p], todo'[p] = todo[p],
           records'[p] = records[p], cands'[p] = cands[p],
           p \notin grew' => p \notin grew /\ Fewer
    PROVE  Phased(p)' /\ Sized(p)' /\ Covered(p)'
<1>1. Phased(p)'
  BY DEF Phased
<1>2. Found(p)' = Found(p) /\ \A r \in Found(p) : r.id \in Ids
  BY DEF Found, Typed, Records
<1>3. Sized(p)'
  BY <1>2 DEF Sized, Fewer
<1>4. p \notin grew' => Countable(p)' \subseteq Countable(p)
  BY DEF Countable, Compatible, Fewer
<1>5. Covered(p)'
  BY <1>2, <1>4 DEF Covered
<1>6. QED BY <1>1, <1>3, <1>5

\* Nothing is scanned and nothing found outside a scan.
LEMMA ScanIdle ==
    ASSUME NEW p \in Procs, Phased(p), pc[p] \notin {"visit", "classify", "remove"},
           pc'[p] \notin {"visit", "classify", "remove"}, todo'[p] = todo[p],
           records'[p] = records[p], cands'[p] = cands[p]
    PROVE  Phased(p)' /\ Sized(p)' /\ Covered(p)'
BY DEF Phased, Sized, Covered, Found

\* A listing covers the directory.
LEMMA ScanStarts ==
    ASSUME NEW p \in Procs, Phased(p), pc[p] \notin {"visit", "classify", "remove"},
           pc'[p] = "visit", todo'[p] = {id \in Ids : Exists(id)'},
           records'[p] = records[p], cands'[p] = cands[p]
    PROVE  Phased(p)' /\ Sized(p)' /\ Covered(p)'
BY DEF Phased, Sized, Covered, Found, Countable

\* In a step of p the others' scans are untouched.
LEMMA OthersUntouched ==
    ASSUME Typed, ScanInv, NEW p \in Procs, op' = [q \in Procs |-> op'[q]],
           \A q \in Procs \ {p} :
               /\ pc'[q] = pc[q] /\ op'[q] = op[q] /\ todo'[q] = todo[q]
               /\ records'[q] = records[q] /\ cands'[q] = cands[q]
               /\ q \notin grew' => q \notin grew /\ Fewer,
           Phased(p)' /\ Sized(p)' /\ Covered(p)'
    PROVE  ScanInv'
<1> SUFFICES ASSUME NEW q \in Procs, q # p PROVE Phased(q)' /\ Sized(q)' /\ Covered(q)'
  BY DEF ScanInv
<1>1. Phased(q) /\ Sized(q) /\ Covered(q)
  BY DEF ScanInv
<1>2. QED BY <1>1, ScanUntouched

\* Where no file changed, none was added.
LEMMA FewerSame == UNCHANGED files => Fewer
BY DEF Fewer, Exists

-----------------------------------------------------------------------------
\* Each step and the scans.

\* Operations that do not scan start and go on.
LEMMA ScanOutside ==
    ASSUME DirectoryInv, ScanInv, NEW p \in Procs, NEW k \in Keys,
           \/ BeginLoad(p, k) \/ BeginStore(p, k) \/ Invalidate(p, k)
           \/ LoadStat(p) \/ LoadRead(p) \/ StoreWrite(p)
    PROVE  ScanInv'
<1>1. /\ pc[p] \notin {"visit", "classify", "remove"}
      /\ \E to \in {"idle", "stat", "open", "write", "persist"} : pc' = [pc EXCEPT ![p] = to]
      /\ op' = op \/ \E what \in {"load", "store", "invalidate"} : op' = [op EXCEPT ![p] = what]
      /\ UNCHANGED <<todo, records, cands, grew>>
  BY DEF BeginLoad, BeginStore, Invalidate, Begin, LoadStat, LoadRead, StoreWrite, Goto
<1>2. Fewer
  <2>1. CASE UNCHANGED files
    BY <2>1, FewerSame
  <2>2. CASE Invalidate(p, k)
    BY <2>2 DEF Invalidate, Fewer, Exists, DirectoryInv, Typed
  <2>3. QED BY <2>1, <2>2 DEF BeginLoad, BeginStore, LoadStat, LoadRead, StoreWrite
<1>3. pc \in [Procs -> Stages] /\ Typed /\ op = [q \in Procs |-> op[q]]
  BY DEF DirectoryInv, Typed, ScanInv
<1>4. /\ op' = [q \in Procs |-> op'[q]]
      /\ pc'[p] \notin {"visit", "classify", "remove"}
      /\ \A q \in Procs \ {p} : pc'[q] = pc[q] /\ op'[q] = op[q]
  BY <1>1, <1>3
<1>5. Phased(p)' /\ Sized(p)' /\ Covered(p)'
  <2>1. Phased(p)
    BY DEF ScanInv
  <2>2. QED BY <1>1, <1>4, <2>1, ScanIdle
<1>6. QED BY <1>1, <1>2, <1>3, <1>4, <1>5, OthersUntouched

\* A published file outdates the scans of the others; the publisher's own trim
\* lists the directory with it.
LEMMA ScanPersist ==
    ASSUME DirectoryInv, ScanInv, NEW p \in Procs, StorePersist(p)
    PROVE  ScanInv'
<1> DEFINE id == ArtifactId(p, arg[p])
           now == IF Exists(id) THEN files ELSE [files EXCEPT ![id] = temps[p]]
<1>1. /\ pc[p] = "persist" /\ files' = now /\ AfterPublish(p, now)
      /\ grew' = (IF Exists(id) THEN grew ELSE grew \cup Procs) \ {p}
      /\ UNCHANGED <<op, records, cands>>
  BY DEF StorePersist
<1>2. Typed /\ pc \in [Procs -> Stages] /\ todo \in [Procs -> SUBSET Ids] /\ Phased(p)
      /\ op = [q \in Procs |-> op[q]]
  BY DEF DirectoryInv, Typed, ScanInv
<1>3. \A q \in Procs \ {p} : q \notin grew' => q \notin grew /\ files' = files
  BY <1>1
<1>4. /\ \A q \in Procs \ {p} : pc'[q] = pc[q] /\ todo'[q] = todo[q]
      /\ \/ pc'[p] = "idle" /\ todo'[p] = todo[p]
         \/ pc'[p] = "visit" /\ todo'[p] = {i \in Ids : files'[i] # NoFile}
  <2> HIDE DEF now
  <2>1. QED BY <1>1, <1>2 DEF AfterPublish, Goto
<1>5. Phased(p)' /\ Sized(p)' /\ Covered(p)'
  <2>1. CASE pc'[p] = "idle" /\ todo'[p] = todo[p]
    BY <1>1, <1>2, <2>1, ScanIdle
  <2>2. CASE pc'[p] = "visit" /\ todo'[p] = {i \in Ids : files'[i] # NoFile}
    <3>1. todo'[p] = {i \in Ids : Exists(i)'}
      BY <2>2 DEF Exists
    <3>2. QED BY <1>1, <1>2, <2>2, <3>1, ScanStarts
  <2>3. QED BY <1>4, <2>1, <2>2
<1>6. \A q \in Procs \ {p} : q \notin grew' => q \notin grew /\ Fewer
  BY <1>3, FewerSame
<1>7. QED BY <1>1, <1>2, <1>4, <1>5, <1>6, OthersUntouched

\* inspect and trim list the directory.
LEMMA ScanBegin ==
    ASSUME DirectoryInv, ScanInv, NEW p \in Procs, NEW what,
           BeginScan(p, what)
    PROVE  ScanInv'
<1>1. /\ pc[p] = "idle" /\ pc' = [pc EXCEPT ![p] = "visit"] /\ op' = [op EXCEPT ![p] = what]
      /\ todo' = [todo EXCEPT ![p] = {id \in Ids : Exists(id)}]
      /\ grew' = grew \ {p} /\ UNCHANGED <<files, records, cands>>
  BY DEF BeginScan, Begin, Goto
<1>2. Typed /\ pc \in [Procs -> Stages] /\ todo \in [Procs -> SUBSET Ids] /\ Phased(p)
      /\ op = [q \in Procs |-> op[q]]
  BY DEF DirectoryInv, Typed, ScanInv
<1>3. op' = [q \in Procs |-> op'[q]] /\ pc'[p] = "visit" /\ todo'[p] = {id \in Ids : Exists(id)'}
  BY <1>1, <1>2 DEF Exists
<1>4. Phased(p)' /\ Sized(p)' /\ Covered(p)'
  BY <1>1, <1>2, <1>3, ScanStarts
<1>5. \A q \in Procs \ {p} : /\ pc'[q] = pc[q] /\ op'[q] = op[q] /\ todo'[q] = todo[q]
                             /\ q \notin grew' => q \notin grew
  BY <1>1, <1>2
<1>6. QED BY <1>1, <1>2, <1>4, <1>5, FewerSame, OthersUntouched

\* A visited file leaves the list and is found, with the size it has.
LEMMA ScanVisits ==
    ASSUME DirectoryInv, ScanInv, NEW p \in Procs, ScanVisit(p)
    PROVE  ScanInv'
<1>1. pc[p] = "visit" /\ UNCHANGED <<files, op, cands, grew>>
  BY DEF ScanVisit
<1>2. /\ Typed /\ pc \in [Procs -> Stages] /\ todo \in [Procs -> SUBSET Ids]
      /\ records \in [Procs -> SUBSET Records] /\ op = [q \in Procs |-> op[q]]
      /\ Phased(p) /\ Sized(p) /\ Covered(p)
  BY DEF DirectoryInv, Typed, ScanInv
<1>3. /\ UNCHANGED Countable(p) /\ \A id \in Ids : Exists(id)' <=> Exists(id)
  BY <1>1 DEF Countable, Compatible, Exists
<1>4. CASE todo[p] = {} /\ pc' = [pc EXCEPT ![p] = "classify"] /\ UNCHANGED <<todo, records>>
  <2>1. Phased(p)'
    BY <1>1, <1>2, <1>4 DEF Phased
  <2>2. Sized(p)' /\ Covered(p)'
    BY <1>1, <1>2, <1>3, <1>4 DEF Sized, Covered, Found, Exists
  <2>3. QED BY <1>1, <1>2, <1>4, <2>1, <2>2, FewerSame, OthersUntouched
<1>5. ASSUME NEW id \in todo[p], Exists(id), UNCHANGED pc,
             records' = [records EXCEPT ![p] =
                 @ \cup {[id |-> id, bytes |-> files[id].bytes, mtime |-> files[id].mtime]}],
             todo' = [todo EXCEPT ![p] = @ \ {id}]
      PROVE  ScanInv'
  <2> DEFINE r == [id |-> id, bytes |-> files[id].bytes, mtime |-> files[id].mtime]
  <2>1. r.id = id /\ r.bytes = files[id].bytes
    OBVIOUS
  <2>2. records' = [records EXCEPT ![p] = @ \cup {r}]
    BY <1>5
  <2> HIDE DEF r
  <2>3. records'[p] = records[p] \cup {r} /\ todo'[p] = todo[p] \ {id}
    BY <1>2, <1>5, <2>2
  <2>4. Phased(p)'
    <3>1. IsFiniteSet(records'[p])
      BY <1>2, <2>3, FS_AddElement DEF Phased
    <3>2. QED BY <1>1, <1>2, <1>5, <3>1 DEF Phased
  <2>5. Sized(p)' /\ Covered(p)'
    BY <1>1, <1>2, <1>3, <1>5, <2>1, <2>3 DEF Sized, Covered, Found, Exists
  <2>6. \A q \in Procs \ {p} : todo'[q] = todo[q] /\ records'[q] = records[q]
    BY <1>2, <1>5, <2>2
  <2>7. QED BY <1>1, <1>2, <1>5, <2>4, <2>5, <2>6, FewerSame, OthersUntouched
<1>6. CASE /\ pc' = [pc EXCEPT ![p] = "idle"]
           /\ records' = [records EXCEPT ![p] = {}] /\ todo' = [todo EXCEPT ![p] = {}]
  <2>1. Phased(p)' /\ Sized(p)' /\ Covered(p)'
    BY <1>1, <1>2, <1>6, FS_EmptySet DEF Phased, Sized, Covered, Found
  <2>2. QED BY <1>1, <1>2, <1>6, <2>1, FewerSame, OthersUntouched
<1>7. QED BY <1>4, <1>5, <1>6 DEF ScanVisit, Goto

\* A classified file becomes a candidate, or is none that has to be counted.
LEMMA ScanClassifies ==
    ASSUME DirectoryInv, ScanInv, NEW p \in Procs, ScanClassify(p)
    PROVE  ScanInv'
<1>1. pc[p] = "classify" /\ UNCHANGED <<files, op, todo, grew>>
  BY DEF ScanClassify
<1>2. /\ Typed /\ pc \in [Procs -> Stages] /\ cands \in [Procs -> SUBSET Records]
      /\ records \in [Procs -> SUBSET Records] /\ op = [q \in Procs |-> op[q]]
      /\ Phased(p) /\ Sized(p) /\ Covered(p)
  BY DEF DirectoryInv, Typed, ScanInv
<1>3. /\ UNCHANGED Countable(p) /\ \A id \in Ids : Exists(id)' <=> Exists(id)
  BY <1>1 DEF Countable, Compatible, Exists
<1>4. CASE /\ records[p] = {} /\ UNCHANGED <<records, cands>>
           /\ pc' = [pc EXCEPT ![p] = IF op[p] = "inspect" THEN "idle" ELSE "remove"]
  <2>1. Phased(p)'
    BY <1>1, <1>2, <1>4 DEF Phased
  <2>2. Sized(p)' /\ Covered(p)'
    BY <1>1, <1>2, <1>3, <1>4 DEF Sized, Covered, Found, Exists
  <2>3. QED BY <1>1, <1>2, <1>4, <2>1, <2>2, FewerSame, OthersUntouched
<1>5. ASSUME NEW r \in records[p], UNCHANGED pc,
             records' = [records EXCEPT ![p] = @ \ {r}],
             cands' = IF op[p] # "inspect" /\ IsCandidate(p, r)
                      THEN [cands EXCEPT ![p] = @ \cup {r}] ELSE cands
      PROVE  ScanInv'
  <2>1. /\ records'[p] = records[p] \ {r}
        /\ cands'[p] = IF op[p] # "inspect" /\ IsCandidate(p, r) THEN cands[p] \cup {r} ELSE cands[p]
    BY <1>2, <1>5
  <2>2. Phased(p)'
    <3>1. IsFiniteSet(records'[p]) /\ IsFiniteSet(cands'[p])
      BY <1>2, <2>1, FS_RemoveElement, FS_AddElement DEF Phased
    <3>2. QED BY <1>1, <1>2, <1>5, <2>1, <3>1 DEF Phased
  <2>3. Sized(p)'
    <3>1. Found(p)' \subseteq Found(p)
      BY <2>1 DEF Found
    <3>2. QED BY <1>1, <1>2, <3>1 DEF Sized, Exists
  <2>4. Covered(p)'
    <3>1. r.id \in Countable(p) => IsCandidate(p, r)
      BY DEF Countable, IsCandidate
    <3>2. \A id \in Countable(p) : op[p] # "inspect" =>
              ((\E x \in Found(p) : x.id = id) => \E x \in Found(p)' : x.id = id)
      BY <2>1, <3>1 DEF Found
    <3>3. QED BY <1>1, <1>2, <1>3, <1>5, <3>2 DEF Covered
  <2>5. \A q \in Procs \ {p} : records'[q] = records[q] /\ cands'[q] = cands[q]
    BY <1>2, <1>5
  <2>6. QED BY <1>1, <1>2, <1>5, <2>2, <2>3, <2>4, <2>5, FewerSame, OthersUntouched
<1>6. QED BY <1>4, <1>5 DEF ScanClassify, Goto

\* A removed file need not be counted any more.
LEMMA ScanRemoves ==
    ASSUME DirectoryInv, ScanInv, NEW p \in Procs, TrimRemove(p)
    PROVE  ScanInv'
<1>1. PICK r \in cands[p] :
         /\ files' = [files EXCEPT ![r.id] = NoFile]
         /\ cands' = [cands EXCEPT ![p] = @ \ {r}]
  BY DEF TrimRemove, Oldest
<1>2. pc[p] = "remove" /\ UNCHANGED <<pc, op, todo, records, grew>>
  BY DEF TrimRemove
<1>3. /\ Typed /\ cands \in [Procs -> SUBSET Records] /\ op = [q \in Procs |-> op[q]]
      /\ files \in [Ids -> Entries \cup {NoFile}] /\ Phased(p) /\ Sized(p) /\ Covered(p)
  BY DEF DirectoryInv, Typed, ScanInv
<1>4. Fewer /\ r.id \notin Countable(p)' /\ Countable(p)' \subseteq Countable(p)
  BY <1>1, <1>3 DEF Fewer, Countable, Compatible, Exists
<1>5. cands'[p] = cands[p] \ {r} /\ \A x \in Found(p) : x.id \in Ids
  BY <1>1, <1>3 DEF Found, Typed, Records
<1>6. Phased(p)'
  <2>1. IsFiniteSet(cands'[p])
    BY <1>3, <1>5, FS_RemoveElement DEF Phased
  <2>2. QED BY <1>2, <1>3, <1>5, <2>1 DEF Phased
<1>7. Found(p)' \subseteq Found(p) /\ \A x \in Found(p) : x = r \/ x \in Found(p)'
  BY <1>2, <1>5 DEF Found
<1>8. Sized(p)'
  BY <1>2, <1>3, <1>4, <1>5, <1>7 DEF Sized, Fewer
<1>9. Covered(p)'
  BY <1>2, <1>3, <1>4, <1>7 DEF Covered
<1>10. \A q \in Procs \ {p} : cands'[q] = cands[q]
  BY <1>1, <1>3
<1>11. QED BY <1>2, <1>3, <1>4, <1>6, <1>8, <1>9, <1>10, OthersUntouched

\* An operation that ends leaves nothing of its own behind.
LEMMA ScanEnds ==
    ASSUME DirectoryInv, ScanInv, NEW p \in Procs, TrimEnd(p) \/ IoError(p) \/ Crash(p)
    PROVE  ScanInv'
<1>1. /\ pc' = [pc EXCEPT ![p] = "idle"] /\ UNCHANGED <<files, op, grew>>
      /\ \/ todo' = [todo EXCEPT ![p] = {}] /\ records' = [records EXCEPT ![p] = {}]
         \/ pc[p] = "remove" /\ UNCHANGED <<todo, records>>
      /\ cands' = [cands EXCEPT ![p] = {}]
  BY DEF TrimEnd, IoError, Crash, Forget, Goto
<1>2. /\ Typed /\ pc \in [Procs -> Stages] /\ todo \in [Procs -> SUBSET Ids]
      /\ records \in [Procs -> SUBSET Records] /\ cands \in [Procs -> SUBSET Records]
      /\ op = [q \in Procs |-> op[q]] /\ Phased(p)
  BY DEF DirectoryInv, Typed, ScanInv
<1>3. /\ pc'[p] = "idle" /\ todo'[p] = {} /\ records'[p] = {} /\ cands'[p] = {}
      /\ \A q \in Procs \ {p} : /\ pc'[q] = pc[q] /\ todo'[q] = todo[q]
                                /\ records'[q] = records[q] /\ cands'[q] = cands[q]
  BY <1>1, <1>2 DEF Phased
<1>4. Phased(p)' /\ Sized(p)' /\ Covered(p)'
  BY <1>3, FS_EmptySet DEF Phased, Sized, Covered, Found
<1>5. QED BY <1>1, <1>2, <1>3, <1>4, FewerSame, OthersUntouched

\* A damaged file is not sound, so no trim counts it.
LEMMA ScanRot ==
    ASSUME DirectoryInv, ScanInv, NEW id \in Ids, Rot(id)
    PROVE  ScanInv'
<1>1. UNCHANGED <<pc, op, todo, records, cands, grew>>
  BY DEF Rot, localVars
<1>2. PICK size : files' = [files EXCEPT ![id].sound = FALSE, ![id].bytes = size]
  BY DEF Rot
<1>3. files \in [Ids -> Entries \cup {NoFile}] /\ files[id] \in Entries /\ Typed
  BY DEF DirectoryInv, Typed, Rot, Exists
<1>4. files'[id].sound = FALSE /\ \A i \in Ids : i # id => files'[i] = files[i]
  <2> DEFINE e == [[files[id] EXCEPT !.sound = FALSE] EXCEPT !.bytes = size]
  <2>1. e.sound = FALSE
    BY <1>3 DEF Entries
  <2>2. files' = [files EXCEPT ![id] = e]
    BY <1>2, <1>3
  <2> HIDE DEF e
  <2>3. QED BY <1>3, <2>1, <2>2
<1>5. Fewer
  BY <1>4 DEF Fewer, Exists
<1>6. SUFFICES ASSUME NEW p \in Procs PROVE Phased(p)' /\ Sized(p)' /\ Covered(p)'
  BY <1>1 DEF ScanInv
<1>7. Phased(p) /\ Sized(p) /\ Covered(p)
  BY DEF ScanInv
<1>8. QED BY <1>1, <1>3, <1>5, <1>7, ScanUntouched

\* Every step keeps every scan complete.
LEMMA ScanStep == DirectoryInv /\ ScanInv /\ [DirectoryNext]_directoryVars => ScanInv'
<1> SUFFICES ASSUME DirectoryInv, ScanInv, [DirectoryNext]_directoryVars PROVE ScanInv'
  OBVIOUS
<1>1. CASE UNCHANGED directoryVars
  BY <1>1 DEF directoryVars, localVars, ScanInv, Phased, Sized, Covered, Found, Countable,
              Compatible, Exists
<1>2. QED
  BY <1>1, EntryFacts, ScanOutside, ScanPersist, ScanBegin, ScanVisits, ScanClassifies,
     ScanRemoves, ScanEnds, ScanRot DEF DirectoryNext, DirectoryDone

-----------------------------------------------------------------------------
\* What a trim adds up.

\* The sum over a set of records is the sum of their sizes.
LEMMA RecordsSum ==
    ASSUME NEW S, IsFiniteSet(S), NEW f, \A r \in S : f[r] = r.bytes
    PROVE  MapThenSumSet(LAMBDA r : r.bytes, S) = Sum(f, S)
<1> DEFINE Adds(g) == g = [s \in SUBSET S |->
               IF s = {} THEN 0 ELSE First(s).bytes + g[s \ {First(s)}]]
           m == CHOOSE g : Adds(g)
           h == CHOOSE g : Sums(f, S, g)
<1>1. MapThenSumSet(LAMBDA r : r.bytes, S) = m[S] /\ Sum(f, S) = h[S]
  BY DEF MapThenSumSet, MapThenFoldSet, First, Sum, SumFunctionOnSet, FoldFunctionOnSet, Sums
<1>2. ASSUME NEW g PROVE Sums(f, S, g) <=> Adds(g)
  <2>1. \A s \in SUBSET S : s # {} => f[First(s)] = First(s).bytes
    BY FirstIn
  <2>2. [s \in SUBSET S |-> IF s = {} THEN 0 ELSE f[First(s)] + g[s \ {First(s)}]]
          = [s \in SUBSET S |-> IF s = {} THEN 0 ELSE First(s).bytes + g[s \ {First(s)}]]
    BY <2>1
  <2>3. QED BY <2>2 DEF Sums
<1>3. \E g : Sums(f, S, g)
  BY SumsExist
<1>4. Sums(f, S, h)
  BY <1>3
<1>5. \E g : Adds(g)
  BY <1>2, <1>3
<1>6. Adds(m)
  <2> HIDE DEF Adds
  <2>1. QED BY <1>5
<1>7. Sums(f, S, m)
  <2> HIDE DEF Adds, m
  <2>1. QED BY <1>2, <1>6
<1> HIDE DEF m, h
<1>8. m[S] = h[S]
  BY <1>4, <1>7, SumsOnce
<1>9. QED BY <1>1, <1>8

\* The sum over a set of files is the sum of their sizes.
LEMMA FilesSum ==
    ASSUME NEW S, IsFiniteSet(S), NEW f, \A id \in S : f[id] = files[id].bytes
    PROVE  MapThenSumSet(LAMBDA id : files[id].bytes, S) = Sum(f, S)
<1> DEFINE Adds(g) == g = [s \in SUBSET S |->
               IF s = {} THEN 0 ELSE files[First(s)].bytes + g[s \ {First(s)}]]
           m == CHOOSE g : Adds(g)
           h == CHOOSE g : Sums(f, S, g)
<1>1. MapThenSumSet(LAMBDA id : files[id].bytes, S) = m[S] /\ Sum(f, S) = h[S]
  BY DEF MapThenSumSet, MapThenFoldSet, First, Sum, SumFunctionOnSet, FoldFunctionOnSet, Sums
<1>2. ASSUME NEW g PROVE Sums(f, S, g) <=> Adds(g)
  <2>1. \A s \in SUBSET S : s # {} => f[First(s)] = files[First(s)].bytes
    BY FirstIn
  <2>2. [s \in SUBSET S |-> IF s = {} THEN 0 ELSE f[First(s)] + g[s \ {First(s)}]]
          = [s \in SUBSET S |-> IF s = {} THEN 0 ELSE files[First(s)].bytes + g[s \ {First(s)}]]
    BY <2>1
  <2>3. QED BY <2>2 DEF Sums
<1>3. \E g : Sums(f, S, g)
  BY SumsExist
<1>4. Sums(f, S, h)
  BY <1>3
<1>5. \E g : Adds(g)
  BY <1>2, <1>3
<1>6. Adds(m)
  <2> HIDE DEF Adds
  <2>1. QED BY <1>5
<1>7. Sums(f, S, m)
  <2> HIDE DEF Adds, m
  <2>1. QED BY <1>2, <1>6
<1> HIDE DEF m, h
<1>8. m[S] = h[S]
  BY <1>4, <1>7, SumsOnce
<1>9. QED BY <1>1, <1>8

\* What the trim of p counted is at least what it leaves.
LEMMA CandidatesCover ==
    ASSUME DirectoryInv, ScanInv, NEW p \in Procs, pc[p] = "remove", p \notin grew
    PROVE  CompatibleBytes(p) <= Remaining(p) /\ Remaining(p) \in Nat /\ CompatibleBytes(p) \in Nat
<1> DEFINE C == Countable(p)
           T == cands[p]
           f == [id \in C |-> files[id].bytes]
           h == [r \in T |-> r.bytes]
           name == [r \in T |-> r.id]
<1>1. /\ Phased(p) /\ Sized(p) /\ Covered(p) /\ T \subseteq Records
      /\ files \in [Ids -> Entries \cup {NoFile}]
  BY DEF DirectoryInv, Typed, ScanInv
<1>2. todo[p] = {} /\ records[p] = {} /\ op[p] # "inspect" /\ IsFiniteSet(T) /\ Found(p) = T
  BY <1>1 DEF Phased, Found
<1>3. \A id \in C : \E r \in T : r.id = id /\ r.bytes = files[id].bytes
  <2> SUFFICES ASSUME NEW id \in C PROVE \E r \in T : r.id = id /\ r.bytes = files[id].bytes
    OBVIOUS
  <2>1. PICK r \in T : r.id = id
    BY <1>1, <1>2 DEF Covered
  <2>2. Exists(id) /\ files[id].sound
    BY DEF Countable, Compatible
  <2>3. QED BY <1>1, <1>2, <2>1, <2>2 DEF Sized
<1>4. IsFiniteSet(C)
  <2>1. C \subseteq {name[r] : r \in T}
    BY <1>3
  <2>2. name \in Surjection(T, {name[r] : r \in T})
    BY DEF Surjection
  <2> HIDE DEF name
  <2>3. IsFiniteSet({name[r] : r \in T})
    BY <1>2, <2>2, FS_Surjection
  <2>4. QED BY <2>1, <2>3, FS_Subset
<1>5. (\A id \in C : f[id] \in Nat) /\ \A r \in T : h[r] \in Nat
  BY <1>1 DEF Countable, Exists, Entries, Records
<1>6. \A id \in C : \E r \in T : name[r] = id /\ h[r] = f[id]
  BY <1>3
<1>7. CompatibleBytes(p) = Sum(f, C)
  <2>1. \A id \in C : f[id] = files[id].bytes
    OBVIOUS
  <2>2. CompatibleBytes(p) = MapThenSumSet(LAMBDA id : files[id].bytes, C)
    BY DEF CompatibleBytes, Countable
  <2> HIDE DEF C, f
  <2>3. QED BY <1>4, <2>1, <2>2, FilesSum
<1>8. Remaining(p) = Sum(h, T)
  <2>1. \A r \in T : h[r] = r.bytes
    OBVIOUS
  <2> HIDE DEF h
  <2>2. QED BY <1>2, <2>1, RecordsSum DEF Remaining
<1> HIDE DEF C, T, f, h, name
<1>9. Sum(f, C) <= Sum(h, T)
  BY <1>2, <1>4, <1>5, <1>6, SumFound
<1>10. Sum(f, C) \in Nat /\ Sum(h, T) \in Nat
  BY <1>2, <1>4, <1>5, SumNat
<1>11. QED BY <1>7, <1>8, <1>9, <1>10

\* A trim that ends without error leaves at most its budget of compatible bytes,
\* unless another process published after its scan began: what was listed, read
\* and removed one by one was all there was, whichever trims, invalidations and
\* deaths came in between (disk_cache.rs:76 "until their observed encoded size is
\* at most `budget`"), and it removed entries of its own namespace only.
THEOREM TrimsSound == DirectorySpec => TrimIsSound
<1>1. DirectoryInit => ScanInv
  BY FS_EmptySet DEF DirectoryInit, ScanInv, Phased, Sized, Covered, Found
<1>2. DirectoryInv /\ ScanInv /\ [DirectoryNext]_directoryVars =>
          [\A p \in Procs : TrimEnd(p) /\ p \notin grew =>
              CompatibleBytes(p) <= Budget]_directoryVars
  <2> SUFFICES ASSUME DirectoryInv, ScanInv, NEW p \in Procs, TrimEnd(p), p \notin grew
               PROVE  CompatibleBytes(p) <= Budget
    OBVIOUS
  <2>1. pc[p] = "remove" /\ ~(Remaining(p) > Budget)
    BY DEF TrimEnd, OverBudget
  <2>2. QED BY <2>1, CandidatesCover, DiskAssumption
<1>3. DirectorySpec => TrimMeetsBudget
  BY <1>1, <1>2, ScanStep, DirectoryInvariant, PTL DEF DirectorySpec, TrimMeetsBudget
<1>4. QED BY <1>3, TrimsOwnOnly, PTL DEF TrimIsSound
================================================================================
