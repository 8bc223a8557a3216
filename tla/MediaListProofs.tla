-------------------------- MODULE MediaListProofs --------------------------
(***************************************************************************)
(* What the operations on the list of media do, for any list, and what     *)
(* notifications do to any view of it: lemmas for the proofs about the     *)
(* daemon and its clients.                                                 *)
(***************************************************************************)
EXTENDS MediaView, SequenceTheorems, FiniteSetTheorems, WellFoundedInduction, TLAPS

\* s is a sequence, of whatever.
Sequence(s) == s \in Seq(ToSet(s))

\* n is a node of the list.
IsNode(n) ==
    n = [path |-> n.path, kind |-> n.kind, content |-> n.content, mnt_point |-> n.mnt_point,
         mnt_opts |-> n.mnt_opts, mount_counter |-> n.mount_counter]

Distinct(m) == \A i, j \in DOMAIN m : m[i].path = m[j].path => i = j

\* No two nodes of the path p.
Once(m, p) == \A i, j \in DOMAIN m : m[i].path = p /\ m[j].path = p => i = j

\* A partition follows its disk, with nothing but partitions between them; of
\* two nodes of one disk, the first has the partitions.
Tree(m) ==
    \A i \in DOMAIN m : IsPartition(m[i].path) =>
        \E j \in 1..(i - 1) :
            /\ m[j].path = ParentOf[m[i].path]
            /\ \A k \in (j + 1)..i : IsPartition(m[k].path)
            /\ \A k \in 1..(j - 1) : m[k].path # m[j].path

\* Disks are in the order of their paths, and so are the partitions of a disk.
Ordered(m) ==
    \A i \in DOMAIN m : \A j \in 1..(i - 1) :
        ParentOf[m[j].path] = ParentOf[m[i].path] => Rank[m[j].path] <= Rank[m[i].path]

\* Every set of numbers has a least one.
LEMMA MinFacts ==
    ASSUME NEW T \in SUBSET Nat, T # {}
    PROVE  Min(T) \in T /\ \A y \in T : Min(T) <= y
<1>1. PICK x \in T : \A y \in T : <<y, x>> \notin OpToRel(<, Nat)
  BY NatLessThanWellFounded, WFMin
<1>2. \A y \in T : x <= y
  <2> TAKE y \in T
  <2>1. x \in Nat /\ y \in Nat /\ <<y, x>> \notin {ss \in Nat \X Nat : ss[1] < ss[2]}
    BY <1>1 DEF OpToRel
  <2>2. ~(y < x)
    BY <2>1
  <2> QED
    BY <2>1, <2>2
<1> QED
  BY <1>2 DEF Min

\* A bounded set of numbers has a greatest one.
LEMMA MaxFacts ==
    ASSUME NEW n \in Nat, NEW T \in SUBSET (1..n), T # {}
    PROVE  Max(T) \in T /\ \A y \in T : Max(T) >= y
<1> DEFINE D == {n - x : x \in T}
<1>1. D \in SUBSET Nat /\ D # {}
  <2>1. \A x \in T : x \in 1..n
    OBVIOUS
  <2>2. \A x \in T : n - x \in Nat
    BY <2>1
  <2> QED
    BY <2>2
<1>2. PICK d \in D : \A y \in D : d <= y
  BY <1>1, MinFacts
<1>3. PICK x \in T : d = n - x
  BY <1>2
<1>4. ASSUME NEW y \in T
      PROVE  x >= y
  <2>1. n - y \in D /\ x \in 1..n /\ y \in 1..n
    OBVIOUS
  <2>2. n - x <= n - y
    BY <1>2, <1>3, <2>1
  <2> QED
    BY <2>1, <2>2
<1> QED
  BY <1>3, <1>4 DEF Max

\* What a sequence is made of.
LEMMA SequenceFacts ==
    ASSUME NEW s, Sequence(s)
    PROVE  /\ Len(s) \in Nat /\ DOMAIN s = 1..Len(s)
           /\ \A i \in DOMAIN s : i \in Nat /\ i # 0 /\ i <= Len(s)
  BY LenProperties DEF Sequence

LEMMA SequenceOf ==
    ASSUME NEW S, NEW s \in Seq(S)
    PROVE  Sequence(s)
<1>1. Len(s) \in Nat /\ DOMAIN s = 1..Len(s) /\ s = [i \in 1..Len(s) |-> s[i]]
  OBVIOUS
<1>2. \A i \in 1..Len(s) : s[i] \in ToSet(s)
  BY <1>1 DEF ToSet
<1>3. s \in [1..Len(s) -> ToSet(s)]
  BY <1>1, <1>2
<1> QED
  BY <1>1, <1>3 DEF Sequence

\* A function on the first numbers is a sequence.
LEMMA FunctionIsSeq ==
    ASSUME NEW S, NEW n \in Nat, NEW f \in [1..n -> S]
    PROVE  f \in Seq(S) /\ Len(f) = n /\ Sequence(f)
<1>1. f \in Seq(S) /\ Len(f) = n
  OBVIOUS
<1> QED
  BY <1>1, SequenceOf

\* A sequence that grew by an element.
LEMMA AppendFacts ==
    ASSUME NEW s, Sequence(s), NEW e
    PROVE  /\ Sequence(Append(s, e))
           /\ DOMAIN Append(s, e) = 1..(Len(s) + 1)
           /\ \A i \in DOMAIN s : Append(s, e)[i] = s[i] /\ i # Len(s) + 1
           /\ Append(s, e)[Len(s) + 1] = e
           /\ \A i \in DOMAIN Append(s, e) : i \in DOMAIN s \/ i = Len(s) + 1
<1> DEFINE S == ToSet(s) \cup {e}
<1>1. s \in Seq(S) /\ e \in S
  BY DEF Sequence
<1> HIDE DEF S
<1>2. /\ Append(s, e) \in Seq(S) /\ Len(s) \in Nat /\ DOMAIN s = 1..Len(s)
      /\ DOMAIN Append(s, e) = 1..(Len(s) + 1)
      /\ \A i \in 1..Len(s) : Append(s, e)[i] = s[i]
      /\ Append(s, e)[Len(s) + 1] = e
  BY <1>1
<1>3. Sequence(Append(s, e))
  BY <1>2, SequenceOf
<1>4. \A n \in Nat : \A i \in 1..(n + 1) : i \in 1..n \/ i = n + 1
  OBVIOUS
<1>5. \A n \in Nat : \A i \in 1..n : i # n + 1
  OBVIOUS
<1> QED
  BY <1>2, <1>3, <1>4, <1>5

\* A sequence without its first element.
LEMMA TailFacts ==
    ASSUME NEW s, Sequence(s), s # <<>>
    PROVE  /\ Sequence(Tail(s)) /\ 1 \in DOMAIN s /\ Head(s) = s[1]
           /\ \A i \in DOMAIN Tail(s) : i + 1 \in DOMAIN s /\ Tail(s)[i] = s[i + 1]
           /\ ToSet(s) = ToSet(Tail(s)) \cup {Head(s)}
           /\ \A S : s \in Seq(S) => Tail(s) \in Seq(S)
<1> DEFINE S == ToSet(s)
           n == Len(s)
<1>1. /\ s \in Seq(S) /\ Head(s) = s[1] /\ Tail(s) \in Seq(S) /\ n \in Nat
      /\ DOMAIN s = 1..n /\ DOMAIN Tail(s) = 1..(n - 1) /\ n >= 1
      /\ \A i \in 1..(n - 1) : Tail(s)[i] = s[i + 1]
  BY DEF Sequence
<1> HIDE DEF S, n
<1>2. \A i \in DOMAIN Tail(s) : i + 1 \in DOMAIN s /\ Tail(s)[i] = s[i + 1]
  BY <1>1
<1>3. \A i \in DOMAIN s : i = 1 \/ (i - 1 \in DOMAIN Tail(s) /\ Tail(s)[i - 1] = s[i])
  BY <1>1
<1>4. ToSet(s) = ToSet(Tail(s)) \cup {Head(s)}
  <2>1. 1 \in DOMAIN s
    BY <1>1
  <2>2. ToSet(Tail(s)) \cup {Head(s)} \subseteq ToSet(s)
    BY <1>1, <1>2, <2>1 DEF ToSet
  <2>3. \A i \in DOMAIN s : s[i] \in ToSet(Tail(s)) \cup {Head(s)}
    BY <1>1, <1>3 DEF ToSet
  <2>4. ToSet(s) \subseteq ToSet(Tail(s)) \cup {Head(s)}
    BY <2>3 DEF ToSet
  <2> QED
    BY <2>2, <2>4
<1>5. \A R : s \in Seq(R) => Tail(s) \in Seq(R)
  OBVIOUS
<1>6. Sequence(Tail(s))
  BY <1>1, SequenceOf
<1>7. 1 \in DOMAIN s /\ Head(s) = s[1]
  BY <1>1
<1> QED
  BY <1>2, <1>4, <1>5, <1>6, <1>7

\* A sequence without its elements i to j.
LEMMA CutFacts ==
    ASSUME NEW s, Sequence(s), NEW i \in DOMAIN s, NEW j \in i..Len(s)
    PROVE  LET t == SubSeq(s, 1, i - 1) \o SubSeq(s, j + 1, Len(s))
               g == j - i + 1
           IN  /\ Sequence(t) /\ Len(t) \in Nat /\ Len(t) = Len(s) - g /\ DOMAIN t = 1..Len(t)
               /\ \A k \in DOMAIN t : k < i => k \in DOMAIN s /\ t[k] = s[k]
               /\ \A k \in DOMAIN t : k >= i => k + g \in DOMAIN s /\ t[k] = s[k + g]
<1> DEFINE a == SubSeq(s, 1, i - 1)
           b == SubSeq(s, j + 1, Len(s))
           t == a \o b
           n == Len(s)
           S == ToSet(s)
           g == j - i + 1
<1>1. n \in Nat /\ DOMAIN s = 1..n /\ i \in 1..n /\ j \in i..n /\ s \in Seq(S)
  BY SequenceFacts DEF Sequence
<1> HIDE DEF S
<1>2. a \in Seq(S) /\ Len(a) = i - 1 /\ \A k \in 1..(i - 1) : a[k] = s[k]
  BY <1>1, SubSeqProperties
<1>3. b \in Seq(S) /\ Len(b) = n - j /\ \A k \in 1..(n - j) : b[k] = s[k + j]
  <2>1. (j + 1) \in 1..(n + 1) /\ n \in j..n
    BY <1>1
  <2>2. b \in Seq(S) /\ Len(b) = IF j + 1 <= n THEN n - (j + 1) + 1 ELSE 0
    BY <1>1, <2>1, SubSeqProperties
  <2>4. Len(b) = n - j
    <3> HIDE DEF b, n
    <3> QED
      BY <1>1, <2>2
  <2>3. ASSUME NEW k \in 1..(n - j)
        PROVE  b[k] = s[k + j]
    BY <1>1, <2>1, SubSeqProperties
  <2> QED
    BY <2>2, <2>3, <2>4
<1> HIDE DEF a, b
<1>4. /\ t \in Seq(S) /\ Len(t) = Len(a) + Len(b)
      /\ \A k \in 1..(Len(a) + Len(b)) : t[k] = IF k <= Len(a) THEN a[k] ELSE b[k - Len(a)]
  BY <1>2, <1>3, ConcatProperties
<1> HIDE DEF t, n
<1>5. Len(t) = n - g /\ Len(t) \in Nat /\ DOMAIN t = 1..Len(t)
  <2>1. Len(t) = (i - 1) + (n - j)
    BY <1>2, <1>3, <1>4
  <2>2. Len(t) = n - g /\ Len(t) \in Nat
    BY <1>1, <2>1
  <2> QED
    BY <1>4, <2>2, LenProperties
<1>6. ASSUME NEW k \in DOMAIN t
      PROVE  t[k] = IF k <= i - 1 THEN a[k] ELSE b[k - (i - 1)]
  BY <1>2, <1>4, <1>5
<1>7. ASSUME NEW k \in DOMAIN t, k < i
      PROVE  k \in DOMAIN s /\ t[k] = s[k]
  <2>1. k \in 1..(i - 1) /\ k <= i - 1 /\ k \in 1..n
    BY <1>1, <1>5, <1>7
  <2> QED
    BY <1>1, <1>2, <1>6, <2>1
<1>8. ASSUME NEW k \in DOMAIN t, k >= i
      PROVE  k + g \in DOMAIN s /\ t[k] = s[k + g]
  <2>0. k \in Nat /\ k <= n - g
    BY <1>5
  <2>1. /\ k - (i - 1) \in 1..(n - j) /\ ~(k <= i - 1) /\ (k - (i - 1)) + j = k + g
        /\ k + g \in 1..n
    BY <1>1, <1>8, <2>0
  <2> QED
    BY <1>1, <1>3, <1>6, <2>1
<1>9. Sequence(t)
  BY <1>4, SequenceOf
<1>10. n = Len(s) /\ t = SubSeq(s, 1, i - 1) \o SubSeq(s, j + 1, Len(s))
  BY DEF n, t, a, b
<1> HIDE DEF g
<1> QED
  BY <1>5, <1>7, <1>8, <1>9, <1>10 DEF g

\* A sequence without one of its elements: the others are those of before.
LEMMA RemoveAtFacts ==
    ASSUME NEW s, Sequence(s), NEW i \in DOMAIN s
    PROVE  LET t == RemoveAt(s, i)
           IN  /\ Sequence(t)
               /\ \A k \in DOMAIN t : \E j \in DOMAIN s \ {i} : t[k] = s[j]
               /\ \A j \in DOMAIN s \ {i} : \E k \in DOMAIN t : t[k] = s[j]
               /\ \A k, l \in DOMAIN t : k # l =>
                     \E j, h \in DOMAIN s \ {i} : j # h /\ t[k] = s[j] /\ t[l] = s[h]
<1> DEFINE t == RemoveAt(s, i)
           n == Len(s)
           At(k) == IF k < i THEN k ELSE k + 1
<1>1. n \in Nat /\ DOMAIN s = 1..n /\ i \in 1..n
  BY SequenceFacts
<1>2. /\ Sequence(t) /\ Len(t) = n - 1 /\ DOMAIN t = 1..(n - 1)
      /\ \A k \in DOMAIN t : k < i => k \in DOMAIN s /\ t[k] = s[k]
      /\ \A k \in DOMAIN t : k >= i => k + 1 \in DOMAIN s /\ t[k] = s[k + 1]
  <2>1. i \in i..Len(s) /\ i - i + 1 = 1 /\ i \in Nat
    BY <1>1
  <2>2. /\ Sequence(t) /\ Len(t) \in Nat /\ Len(t) = Len(s) - (i - i + 1) /\ DOMAIN t = 1..Len(t)
        /\ \A k \in DOMAIN t : k < i => k \in DOMAIN s /\ t[k] = s[k]
        /\ \A k \in DOMAIN t : k >= i => k + (i - i + 1) \in DOMAIN s /\ t[k] = s[k + (i - i + 1)]
    BY <2>1, CutFacts, Zenon DEF RemoveAt
  <2> HIDE DEF t
  <2> QED
    BY <2>1, <2>2
<1>3. \A k \in DOMAIN t : At(k) \in DOMAIN s \ {i} /\ t[k] = s[At(k)]
  BY <1>1, <1>2
<1>4. \A k, l \in DOMAIN t : k # l => At(k) # At(l)
  BY <1>1, <1>2
<1>5. \A j \in DOMAIN s \ {i} :
         LET k == IF j < i THEN j ELSE j - 1
         IN  k \in DOMAIN t /\ t[k] = s[j]
  BY <1>1, <1>2
<1>6. \A k \in DOMAIN t : \E j \in DOMAIN s \ {i} : t[k] = s[j]
  BY <1>3
<1>7. \A j \in DOMAIN s \ {i} : \E k \in DOMAIN t : t[k] = s[j]
  BY <1>5
<1>8. \A k, l \in DOMAIN t : k # l =>
         \E j, h \in DOMAIN s \ {i} : j # h /\ t[k] = s[j] /\ t[l] = s[h]
  BY <1>3, <1>4
<1> HIDE DEF t, n, At
<1> QED
  BY <1>2, <1>6, <1>7, <1>8 DEF t

\* find_media gives the first node of a path, or 0.
LEMMA FindFacts ==
    ASSUME NEW m, Sequence(m), NEW p
    PROVE  \/ find_media(m, p) = 0 /\ \A k \in DOMAIN m : m[k].path # p
           \/ /\ find_media(m, p) \in DOMAIN m /\ find_media(m, p) # 0
              /\ m[find_media(m, p)].path = p
              /\ \A k \in DOMAIN m : m[k].path = p => find_media(m, p) <= k
<1> DEFINE I == {i \in 1..Len(m) : m[i].path = p}
<1>1. Len(m) \in Nat /\ DOMAIN m = 1..Len(m)
  BY SequenceFacts
<1>2. find_media(m, p) = IF I # {} THEN Min(I) ELSE 0
  BY DEF find_media, SelectInSeq
<1>3. CASE I = {}
  BY <1>1, <1>2, <1>3
<1>4. CASE I # {}
  <2>1. Min(I) \in I /\ \A y \in I : Min(I) <= y
    <3>1. I \in SUBSET Nat /\ I # {}
      BY <1>1, <1>4
    <3> HIDE DEF I
    <3> QED
      BY <3>1, MinFacts
  <2>2. Min(I) # 0 /\ Min(I) \in DOMAIN m /\ m[Min(I)].path = p
    BY <1>1, <2>1
  <2> HIDE DEF I
  <2>3. \A k \in DOMAIN m : m[k].path = p => Min(I) <= k
    BY <1>1, <2>1 DEF I
  <2> QED
    BY <1>2, <1>4, <2>2, <2>3
<1> QED
  BY <1>3, <1>4

\* FirstEntry gives the first entry of a device, or 0.
LEMMA EntryFacts ==
    ASSUME NEW mounts, Sequence(mounts), NEW p
    PROVE  \/ FirstEntry(mounts, p) = 0 /\ \A k \in DOMAIN mounts : mounts[k].dev # p
           \/ /\ FirstEntry(mounts, p) \in DOMAIN mounts /\ FirstEntry(mounts, p) # 0
              /\ mounts[FirstEntry(mounts, p)].dev = p
              /\ \A k \in DOMAIN mounts : mounts[k].dev = p => FirstEntry(mounts, p) <= k
<1> DEFINE I == {i \in 1..Len(mounts) : mounts[i].dev = p}
<1>1. Len(mounts) \in Nat /\ DOMAIN mounts = 1..Len(mounts)
  BY SequenceFacts
<1>2. FirstEntry(mounts, p) = IF I # {} THEN Min(I) ELSE 0
  BY DEF FirstEntry, SelectInSeq
<1>3. CASE I = {}
  BY <1>1, <1>2, <1>3
<1>4. CASE I # {}
  <2>1. Min(I) \in I /\ \A y \in I : Min(I) <= y
    <3>1. I \in SUBSET Nat /\ I # {}
      BY <1>1, <1>4
    <3> HIDE DEF I
    <3> QED
      BY <3>1, MinFacts
  <2>2. Min(I) # 0 /\ Min(I) \in DOMAIN mounts /\ mounts[Min(I)].dev = p
    BY <1>1, <2>1
  <2> HIDE DEF I
  <2>3. \A k \in DOMAIN mounts : mounts[k].dev = p => Min(I) <= k
    BY <1>1, <2>1 DEF I
  <2> QED
    BY <1>2, <1>4, <2>2, <2>3
<1> QED
  BY <1>3, <1>4

\* In a list without duplicates every node is the one that find_media finds.
LEMMA FindsIt ==
    ASSUME NEW m, Sequence(m), Distinct(m), NEW i \in DOMAIN m
    PROVE  find_media(m, m[i].path) = i
  BY FindFacts DEF Distinct

\* The subtree of a disk ends before the next disk.
LEMMA SubtreeEndFacts ==
    ASSUME NEW m, Sequence(m), NEW i \in DOMAIN m
    PROVE  /\ SubtreeEnd(m, i) \in i..Len(m)
           /\ IsPartition(m[i].path) => SubtreeEnd(m, i) = i
           /\ ~IsPartition(m[i].path) =>
                 /\ \A k \in (i + 1)..SubtreeEnd(m, i) : IsPartition(m[k].path)
                 /\ SubtreeEnd(m, i) = Len(m) \/ ~IsPartition(m[SubtreeEnd(m, i) + 1].path)
<1> DEFINE n == Len(m)
           Stop(j) == j = n \/ ~IsPartition(m[j + 1].path)
           T == {j \in i..n : Stop(j)}
<1>1. n \in Nat /\ i \in 1..n
  BY SequenceFacts
<1>2. CASE IsPartition(m[i].path)
  BY <1>1, <1>2 DEF SubtreeEnd
<1>3. CASE ~IsPartition(m[i].path)
  <2>1. T \in SUBSET Nat /\ n \in T
    BY <1>1
  <2>2. PICK j \in T : \A y \in T : j <= y
    BY <2>1, MinFacts
  <2>3. j \in i..n /\ Stop(j)
    BY <2>2
  <2>4. ASSUME NEW k \in (i + 1)..j
        PROVE  IsPartition(m[k].path)
    <3>1. k - 1 \in i..n /\ ~(j <= k - 1) /\ (k - 1) + 1 = k
      BY <1>1, <2>3
    <3>2. k - 1 \notin T
      BY <2>2, <3>1
    <3> QED
      BY <3>1, <3>2
  <2>5. \E x \in i..n : (\A k \in (i + 1)..x : IsPartition(m[k].path)) /\ Stop(x)
    BY <2>3, <2>4
  <2>6. SubtreeEnd(m, i) = CHOOSE x \in i..n : (\A k \in (i + 1)..x : IsPartition(m[k].path)) /\ Stop(x)
    BY <1>3 DEF SubtreeEnd
  <2>7. \E x : x \in i..n /\ (\A k \in (i + 1)..x : IsPartition(m[k].path)) /\ Stop(x)
    BY <2>5
  <2> QED
    BY <1>3, <2>6, <2>7
<1> QED
  BY <1>2, <1>3

\* The disk of a partition is none.
LEMMA DiskFacts ==
    ASSUME NEW p \in Paths
    PROVE  /\ IsPartition(p) => ParentOf[p] \in Paths /\ ~IsPartition(ParentOf[p])
           /\ DiskOf(p) \in Paths /\ ~IsPartition(DiskOf(p))
  BY PathAssumption DEF IsPartition, DiskOf

\* The partitions of a disk are those that follow its first node.
LEMMA PartitionFacts ==
    ASSUME NEW m, Sequence(m), \A i \in DOMAIN m : m[i].path \in Paths, Tree(m),
           NEW p \in Paths, IsPartition(p), find_media(m, ParentOf[p]) # 0
    PROVE  LET f == find_media(m, ParentOf[p])
           IN  /\ ~IsPartition(m[f].path)
               /\ \A j \in DOMAIN m : ParentOf[m[j].path] = ParentOf[p] <=> j \in (f + 1)..SubtreeEnd(m, f)
<1> DEFINE f == find_media(m, ParentOf[p])
           e == SubtreeEnd(m, f)
           n == Len(m)
<1>1. n \in Nat /\ DOMAIN m = 1..n
  BY SequenceFacts
<1>2. /\ f \in 1..n /\ m[f].path = ParentOf[p] /\ ~IsPartition(m[f].path)
      /\ \A k \in 1..n : m[k].path = ParentOf[p] => f <= k
  BY <1>1, FindFacts, DiskFacts
<1>3. /\ e \in f..n /\ \A k \in (f + 1)..e : IsPartition(m[k].path)
      /\ e = n \/ ~IsPartition(m[e + 1].path)
  BY <1>1, <1>2, SubtreeEndFacts
<1> HIDE DEF e, n, f
<1>4. ASSUME NEW j \in DOMAIN m, IsPartition(m[j].path)
      PROVE  \E d \in 1..(j - 1) :
                 /\ m[d].path = ParentOf[m[j].path] /\ ~IsPartition(m[d].path) /\ d \in 1..n
                 /\ \A k \in (d + 1)..j : IsPartition(m[k].path)
                 /\ \A k \in 1..(d - 1) : m[k].path # m[d].path
  <2>1. PICK d \in 1..(j - 1) :
                 /\ m[d].path = ParentOf[m[j].path]
                 /\ \A k \in (d + 1)..j : IsPartition(m[k].path)
                 /\ \A k \in 1..(d - 1) : m[k].path # m[d].path
    BY <1>4 DEF Tree
  <2>2. d \in 1..n /\ ~IsPartition(m[d].path)
    BY <1>1, <1>4, <2>1, DiskFacts
  <2> QED
    BY <2>1, <2>2
<1>5. ASSUME NEW j \in DOMAIN m, ParentOf[m[j].path] = ParentOf[p]
      PROVE  j \in (f + 1)..e
  <2>1. IsPartition(m[j].path)
    BY <1>5 DEF IsPartition
  <2>2. PICK d \in 1..(j - 1) :
                 /\ m[d].path = ParentOf[p] /\ ~IsPartition(m[d].path) /\ d \in 1..n
                 /\ \A k \in (d + 1)..j : IsPartition(m[k].path)
                 /\ \A k \in 1..(d - 1) : m[k].path # m[d].path
    BY <1>4, <1>5, <2>1
  <2>3. d = f
    BY <1>2, <2>2
  <2>4. ~(j > e)
    <3> SUFFICES ASSUME j > e
                 PROVE  FALSE
      OBVIOUS
    <3>1. e + 1 \in (d + 1)..j /\ e # n
      BY <1>1, <1>2, <1>3, <2>3
    <3> QED
      BY <1>3, <2>2, <3>1
  <2> QED
    BY <1>1, <1>2, <1>3, <2>2, <2>3, <2>4
<1>6. ASSUME NEW j \in DOMAIN m, j \in (f + 1)..e
      PROVE  ParentOf[m[j].path] = ParentOf[p]
  <2>1. PICK d \in 1..(j - 1) :
                 /\ m[d].path = ParentOf[m[j].path] /\ ~IsPartition(m[d].path) /\ d \in 1..n
                 /\ \A k \in (d + 1)..j : IsPartition(m[k].path)
    BY <1>3, <1>4, <1>6
  <2>2. ~(d < f)
    BY <1>1, <1>2, <1>3, <1>6, <2>1
  <2>3. ~(d > f)
    BY <1>1, <1>2, <1>3, <1>6, <2>1
  <2>4. d = f
    BY <1>1, <1>2, <2>1, <2>2, <2>3
  <2> QED
    BY <1>2, <2>1, <2>4
<1> QED
  BY <1>2, <1>5, <1>6 DEF f, e

\* remove_media leaves the nodes but one subtree, and a tree.
LEMMA RemoveFacts ==
    ASSUME NEW m, Sequence(m), NEW p, find_media(m, p) # 0,
           \A i \in DOMAIN m : m[i].path \in Paths, Tree(m)
    PROVE  LET r == remove_media(m, p)
           IN  /\ Sequence(r)
               /\ \A k \in DOMAIN r : \E j \in DOMAIN m : r[k] = m[j]
               /\ Distinct(m) => Distinct(r)
               /\ \A j \in DOMAIN m : m[j].path # p /\ ParentOf[m[j].path] # p =>
                     \E k \in DOMAIN r : r[k] = m[j]
               /\ Tree(r)
               /\ Ordered(m) => Ordered(r)
               /\ Distinct(m) => \A k \in DOMAIN r : r[k].path # p /\ ParentOf[r[k].path] # p
               /\ \A q : Once(m, q) => Once(r, q)
               /\ Once(m, p) => \A k \in DOMAIN r : r[k].path # p
<1> DEFINE i == find_media(m, p)
           e == SubtreeEnd(m, i)
           g == e - i + 1
           n == Len(m)
           r == remove_media(m, p)
           At(k) == IF k < i THEN k ELSE k + g
<1>1. n \in Nat /\ DOMAIN m = 1..n /\ i \in 1..n /\ m[i].path = p
  BY SequenceFacts, FindFacts
<1>2. /\ e \in i..n
      /\ IsPartition(p) => e = i
      /\ ~IsPartition(p) =>
            /\ \A k \in (i + 1)..e : IsPartition(m[k].path)
            /\ e = n \/ ~IsPartition(m[e + 1].path)
  BY <1>1, SubtreeEndFacts
<1>3. /\ Sequence(r) /\ Len(r) = n - g /\ DOMAIN r = 1..Len(r)
      /\ \A k \in DOMAIN r : k < i => k \in DOMAIN m /\ r[k] = m[k]
      /\ \A k \in DOMAIN r : k >= i => k + g \in DOMAIN m /\ r[k] = m[k + g]
  <2>1. r = SubSeq(m, 1, i - 1) \o SubSeq(m, e + 1, Len(m))
    BY DEF remove_media
  <2>2. i \in DOMAIN m /\ e \in i..Len(m)
    BY <1>1, <1>2
  <2> HIDE DEF i, e, r
  <2> QED
    BY <2>1, <2>2, CutFacts
<1> HIDE DEF i, e, n, r
<1>4. ASSUME NEW k \in DOMAIN r
      PROVE  /\ k \in Nat /\ k >= 1 /\ At(k) \in 1..n /\ r[k] = m[At(k)]
             /\ k < i => At(k) = k
             /\ k >= i => At(k) = k + g /\ At(k) > e
  BY <1>1, <1>2, <1>3
<1>5. ASSUME NEW q \in 1..n, q < i \/ q > e
      PROVE  LET k == IF q < i THEN q ELSE q - g
             IN  k \in DOMAIN r /\ At(k) = q /\ r[k] = m[q]
  <2> DEFINE k == IF q < i THEN q ELSE q - g
  <2>1. k \in DOMAIN r /\ At(k) = q
    BY <1>1, <1>2, <1>3, <1>5
  <2> QED
    BY <1>4, <2>1
<1>6. \A k \in DOMAIN r : \E j \in DOMAIN m : r[k] = m[j]
  BY <1>1, <1>4
<1>7. Distinct(m) => Distinct(r)
  <2> SUFFICES ASSUME Distinct(m), NEW k \in DOMAIN r, NEW l \in DOMAIN r, r[k].path = r[l].path
               PROVE  k = l
    BY DEF Distinct
  <2>1. At(k) = At(l)
    BY <1>1, <1>4 DEF Distinct
  <2> QED
    BY <1>1, <1>2, <1>4, <2>1
<1>8. ASSUME NEW j \in DOMAIN m, m[j].path # p, ParentOf[m[j].path] # p
      PROVE  \E k \in DOMAIN r : r[k] = m[j]
  <2>1. ~(j \in i..e)
    <3> SUFFICES ASSUME j \in i..e
                 PROVE  FALSE
      OBVIOUS
    <3>1. ~IsPartition(p) /\ j \in (i + 1)..e /\ IsPartition(m[j].path)
      BY <1>1, <1>2, <1>8
    <3>2. PICK h \in 1..(j - 1) : m[h].path = ParentOf[m[j].path] /\ \A k \in (h + 1)..j : IsPartition(m[k].path)
      BY <3>1 DEF Tree
    <3>3. ~IsPartition(m[h].path)
      BY <1>1, <3>1, <3>2, DiskFacts
    <3>4. h = i
      <4>1. ~(h > i)
        BY <1>1, <1>2, <3>1, <3>2, <3>3
      <4>2. ~(h < i)
        BY <1>1, <1>2, <3>1, <3>2
      <4> QED
        BY <1>1, <4>1, <4>2
    <3> QED
      BY <1>1, <1>8, <3>2, <3>4
  <2>2. j \in 1..n /\ (j < i \/ j > e)
    BY <1>1, <1>2, <2>1
  <2> QED
    BY <1>5, <2>2
<1>9. Tree(r)
  <2> SUFFICES ASSUME NEW k \in DOMAIN r, IsPartition(r[k].path)
               PROVE  \E j \in 1..(k - 1) :
                         /\ r[j].path = ParentOf[r[k].path]
                         /\ \A l \in (j + 1)..k : IsPartition(r[l].path)
                         /\ \A l \in 1..(j - 1) : r[l].path # r[j].path
    BY DEF Tree
  <2> DEFINE q == At(k)
  <2>1. q \in 1..n /\ r[k] = m[q] /\ k \in Nat /\ k >= 1
    BY <1>4
  <2>2. PICK j \in 1..(q - 1) :
            /\ m[j].path = ParentOf[m[q].path]
            /\ \A l \in (j + 1)..q : IsPartition(m[l].path)
            /\ \A l \in 1..(j - 1) : m[l].path # m[j].path
    BY <1>1, <2>1 DEF Tree
  <2>3. ~IsPartition(m[j].path) /\ j \in 1..n
    BY <1>1, <2>1, <2>2, DiskFacts
  <2>4. j < i \/ j > e
    <3>1. CASE IsPartition(p)
      BY <1>1, <1>2, <2>3, <3>1
    <3>2. CASE ~IsPartition(p)
      <4>1. CASE k < i
        BY <1>1, <1>2, <1>4, <2>2, <4>1
      <4>2. CASE k >= i
        <5>1. q > e /\ e + 1 \in 1..n /\ e # n
          BY <1>1, <1>2, <1>4, <2>1, <4>2
        <5>2. ~IsPartition(m[e + 1].path)
          BY <1>2, <3>2, <5>1
        <5> QED
          BY <1>1, <1>2, <2>1, <2>2, <5>1, <5>2
      <4> QED
        BY <1>1, <2>1, <4>1, <4>2
    <3> QED
      BY <3>1, <3>2
  <2> DEFINE h == IF j < i THEN j ELSE j - g
  <2>5. h \in DOMAIN r /\ At(h) = j /\ r[h] = m[j]
    BY <1>5, <2>3, <2>4
  <2>6. h \in 1..(k - 1)
    BY <1>1, <1>2, <1>4, <2>2, <2>3, <2>4, <2>5
  <2>7. ASSUME NEW l \in (h + 1)..k
        PROVE  IsPartition(r[l].path)
    <3>1. l \in DOMAIN r
      BY <1>3, <2>1, <2>5
    <3>2. At(l) \in (j + 1)..q
      <4>1. g \in Nat /\ g >= 1 /\ i \in Nat /\ j \in Nat /\ l \in Nat /\ k \in Nat /\ l <= k
        BY <1>1, <1>2, <2>1, <2>3, <2>5
      <4>2. CASE l < i
        BY <1>1, <1>2, <2>3, <2>4, <4>1, <4>2
      <4>3. CASE l >= i
        BY <1>1, <1>2, <2>3, <2>4, <4>1, <4>3
      <4> QED
        BY <4>1, <4>2, <4>3
    <3> QED
      BY <1>4, <2>2, <3>1, <3>2
  <2>8. ASSUME NEW l \in 1..(h - 1)
        PROVE  r[l].path # r[h].path
    <3>1. l \in DOMAIN r
      BY <1>3, <2>1, <2>5
    <3>2. At(l) \in 1..(j - 1)
      BY <1>1, <1>2, <1>4, <2>3, <2>4, <2>5, <3>1
    <3> QED
      BY <1>4, <2>2, <2>5, <3>1, <3>2
  <2> QED
    BY <2>1, <2>2, <2>5, <2>6, <2>7, <2>8
<1>10. ASSUME Ordered(m)
       PROVE  Ordered(r)
  <2> SUFFICES ASSUME NEW k \in DOMAIN r, NEW l \in 1..(k - 1), ParentOf[r[l].path] = ParentOf[r[k].path]
               PROVE  Rank[r[l].path] <= Rank[r[k].path]
    BY DEF Ordered
  <2>1. l \in DOMAIN r
    BY <1>3, <1>4
  <2>2. At(k) \in DOMAIN m /\ At(l) \in 1..(At(k) - 1)
    BY <1>1, <1>2, <1>4, <2>1
  <2> QED
    BY <1>4, <1>10, <2>1, <2>2 DEF Ordered
<1>11. ASSUME Distinct(m), NEW k \in DOMAIN r
       PROVE  r[k].path # p /\ ParentOf[r[k].path] # p
  <2>1. At(k) \in 1..n /\ r[k] = m[At(k)] /\ ~(At(k) \in i..e)
    BY <1>1, <1>2, <1>4
  <2>2. At(k) # i
    BY <1>1, <1>2, <2>1
  <2>3. m[At(k)].path # p
    BY <1>1, <1>11, <2>1, <2>2 DEF Distinct
  <2>4. ParentOf[m[At(k)].path] # p
    <3> SUFFICES ASSUME ParentOf[m[At(k)].path] = p
                 PROVE  FALSE
      OBVIOUS
    <3>1. m[At(k)].path \in Paths /\ IsPartition(m[At(k)].path)
      BY <1>1, <2>1, PathAssumption DEF IsPartition
    <3> DEFINE x == m[At(k)].path
    <3>2. x \in Paths /\ IsPartition(x) /\ ParentOf[x] = p
      BY <3>1
    <3> HIDE DEF x
    <3>3. find_media(m, ParentOf[x]) # 0 /\ i = find_media(m, ParentOf[x])
      BY <3>2 DEF i
    <3>4. \A j \in DOMAIN m : ParentOf[m[j].path] = ParentOf[x] <=> j \in (i + 1)..SubtreeEnd(m, i)
      BY <3>2, <3>3, PartitionFacts
    <3>5. At(k) \in (i + 1)..e
      BY <1>1, <2>1, <3>2, <3>4 DEF e, x
    <3> QED
      BY <1>1, <1>2, <2>1, <3>5
  <2> QED
    BY <2>1, <2>3, <2>4
<1>12. ASSUME NEW q, Once(m, q)
       PROVE  Once(r, q)
  <2> SUFFICES ASSUME NEW k \in DOMAIN r, NEW l \in DOMAIN r, r[k].path = q, r[l].path = q
               PROVE  k = l
    BY DEF Once
  <2>1. At(k) = At(l)
    BY <1>1, <1>4, <1>12 DEF Once
  <2> QED
    BY <1>1, <1>2, <1>4, <2>1
<1>13. ASSUME Once(m, p), NEW k \in DOMAIN r
       PROVE  r[k].path # p
  <2>1. At(k) \in 1..n /\ r[k] = m[At(k)] /\ ~(At(k) \in i..e)
    BY <1>1, <1>2, <1>4
  <2>2. At(k) # i
    BY <1>1, <1>2, <2>1
  <2> QED
    BY <1>1, <1>13, <2>1, <2>2 DEF Once
<1> QED
  BY <1>3, <1>6, <1>7, <1>8, <1>9, <1>10, <1>11, <1>12, <1>13 DEF r

\* A sequence with a new element at a place.
LEMMA InsertFacts ==
    ASSUME NEW s, Sequence(s), NEW i \in 1..(Len(s) + 1), NEW e
    PROVE  LET t == InsertAt(s, i, e)
           IN  /\ Sequence(t) /\ DOMAIN t = 1..(Len(s) + 1) /\ t[i] = e
               /\ \A k \in DOMAIN t : k < i => k \in DOMAIN s /\ t[k] = s[k]
               /\ \A k \in DOMAIN t : k > i => k - 1 \in DOMAIN s /\ t[k] = s[k - 1]
<1> DEFINE a == SubSeq(s, 1, i - 1)
           b == SubSeq(s, i, Len(s))
           c == a \o <<e>>
           t == c \o b
           n == Len(s)
           S == ToSet(s) \cup {e}
<1>1. n \in Nat /\ DOMAIN s = 1..n /\ i \in 1..(n + 1) /\ s \in Seq(S) /\ e \in S
  BY SequenceFacts DEF Sequence
<1> HIDE DEF S
<1>2. a \in Seq(S) /\ Len(a) = i - 1 /\ \A k \in 1..(i - 1) : a[k] = s[k]
  <2>1. \A k \in 1..(i - 1) : s[k] \in S
    BY <1>1
  <2> QED
    BY <1>1, <2>1, SubSeqProperties
<1>3. b \in Seq(S) /\ Len(b) = n - (i - 1) /\ \A k \in 1..(n - (i - 1)) : b[k] = s[(i - 1) + k]
  <2>1. \A k \in i..n : s[k] \in S
    BY <1>1
  <2>2. b \in Seq(S) /\ Len(b) = (IF i <= n THEN (n - i) + 1 ELSE 0) /\ \A k \in 1..((n - i) + 1) : b[k] = s[(i + k) - 1]
    BY <1>1, <2>1, SubSeqProperties
  <2> HIDE DEF b, n
  <2>3. Len(b) = n - (i - 1) /\ (n - i) + 1 = n - (i - 1)
    BY <1>1, <2>2
  <2>4. \A k \in 1..(n - (i - 1)) : (i + k) - 1 = (i - 1) + k
    BY <1>1
  <2> QED
    BY <2>2, <2>3, <2>4
<1> HIDE DEF a, b
<1>4. /\ c \in Seq(S) /\ Len(c) = i /\ c[i] = e
      /\ \A k \in 1..(i - 1) : c[k] = s[k]
  <2>1. <<e>> \in Seq(S) /\ Len(<<e>>) = 1 /\ <<e>>[1] = e
    BY <1>1
  <2>2. /\ c \in Seq(S) /\ Len(c) = Len(a) + Len(<<e>>)
        /\ \A k \in 1..(Len(a) + Len(<<e>>)) : c[k] = IF k <= Len(a) THEN a[k] ELSE <<e>>[k - Len(a)]
    BY <1>2, <2>1, ConcatProperties
  <2> HIDE DEF c
  <2>3. Len(c) = i
    BY <1>1, <1>2, <2>1, <2>2
  <2>4. c[i] = <<e>>[1]
    <3>1. i \in 1..(Len(a) + Len(<<e>>)) /\ ~(i <= Len(a)) /\ i - Len(a) = 1
      BY <1>1, <1>2, <2>1
    <3> QED
      BY <2>2, <3>1
  <2>5. ASSUME NEW k \in 1..(i - 1)
        PROVE  c[k] = s[k]
    <3>1. k \in 1..(Len(a) + Len(<<e>>)) /\ k <= Len(a)
      BY <1>1, <1>2, <2>1
    <3> QED
      BY <1>2, <2>2, <3>1
  <2> QED
    BY <2>1, <2>2, <2>3, <2>4, <2>5
<1> HIDE DEF c
<1>5. /\ t \in Seq(S) /\ Len(t) = Len(c) + Len(b)
      /\ \A k \in 1..(Len(c) + Len(b)) : t[k] = IF k <= Len(c) THEN c[k] ELSE b[k - Len(c)]
  BY <1>3, <1>4, ConcatProperties
<1> HIDE DEF t, n
<1>6. Len(t) = n + 1 /\ DOMAIN t = 1..(n + 1)
  <2>1. Len(t) = n + 1
    BY <1>1, <1>3, <1>4, <1>5
  <2> QED
    BY <1>5, <2>1, LenProperties
<1>7. \A k \in 1..(n + 1) : t[k] = IF k <= i THEN c[k] ELSE b[k - i]
  BY <1>1, <1>3, <1>4, <1>5
<1>8. t[i] = e /\ \A k \in DOMAIN t : k < i => k \in DOMAIN s /\ t[k] = s[k]
  BY <1>1, <1>4, <1>6, <1>7
<1>9. ASSUME NEW k \in DOMAIN t, k > i
      PROVE  k - 1 \in DOMAIN s /\ t[k] = s[k - 1]
  <2>1. k - i \in 1..(n - (i - 1)) /\ (i - 1) + (k - i) = k - 1 /\ k - 1 \in 1..n /\ ~(k <= i)
    BY <1>1, <1>6, <1>9
  <2> QED
    BY <1>1, <1>3, <1>6, <1>7, <2>1
<1>10. Sequence(t)
  BY <1>5, SequenceOf
<1>11. t = InsertAt(s, i, e) /\ n = Len(s)
  BY DEF t, c, a, b, n, InsertAt
<1> QED
  BY <1>6, <1>8, <1>9, <1>10, <1>11

\* A new node comes after those of its siblings that are not greater, and before
\* the greater ones.
LEMMA PointFacts ==
    ASSUME NEW m, Sequence(m), \A i \in DOMAIN m : m[i].path \in Paths, Tree(m), Ordered(m),
           NEW p \in Paths, HasParent(m, p)
    PROVE  LET i == InsertionPoint(m, p)
           IN  /\ i \in 1..(Len(m) + 1)
               /\ ~IsPartition(p) /\ i # Len(m) + 1 => ~IsPartition(m[i].path)
               /\ IsPartition(p) =>
                     \E f \in 1..(i - 1) :
                         /\ m[f].path = ParentOf[p]
                         /\ \A k \in (f + 1)..(i - 1) : IsPartition(m[k].path)
                         /\ \A k \in 1..(f - 1) : m[k].path # m[f].path
               /\ \A j \in DOMAIN m : ParentOf[m[j].path] = ParentOf[p] =>
                     /\ j < i => Rank[m[j].path] <= Rank[p]
                     /\ j >= i => Rank[p] < Rank[m[j].path]
<1> DEFINE n == Len(m)
           f == IF IsPartition(p) THEN find_media(m, ParentOf[p]) ELSE 0
           e == IF IsPartition(p) THEN SubtreeEnd(m, f) ELSE n
           G == {i \in (f + 1)..e : (IsPartition(m[i].path) <=> IsPartition(p)) /\ Rank[m[i].path] > Rank[p]}
           i == InsertionPoint(m, p)
<1>1. n \in Nat /\ DOMAIN m = 1..n
  BY SequenceFacts
<1>2. i = IF G = {} THEN e + 1 ELSE Min(G)
  BY DEF InsertionPoint
<1>3. \A j \in DOMAIN m : Rank[m[j].path] \in Nat
  BY PathAssumption
<1>4. Rank[p] \in Nat
  BY PathAssumption
<1>5. /\ f \in 0..n /\ e \in f..n
      /\ \A j \in DOMAIN m : ParentOf[m[j].path] = ParentOf[p] <=>
            j \in (f + 1)..e /\ (IsPartition(m[j].path) <=> IsPartition(p))
      /\ IsPartition(p) =>
            /\ f # 0 /\ m[f].path = ParentOf[p] /\ \A k \in 1..(f - 1) : m[k].path # m[f].path
            /\ \A k \in (f + 1)..e : IsPartition(m[k].path)
  <2>1. CASE IsPartition(p)
    <3>1. f = find_media(m, ParentOf[p]) /\ e = SubtreeEnd(m, f) /\ f # 0
      BY <2>1 DEF HasParent
    <3>2. /\ f \in 1..n /\ m[f].path = ParentOf[p]
          /\ \A k \in 1..n : m[k].path = ParentOf[p] => f <= k
      BY <1>1, <3>1, FindFacts
    <3>3. ~IsPartition(m[f].path) /\ \A j \in DOMAIN m : ParentOf[m[j].path] = ParentOf[p] <=> j \in (f + 1)..e
      BY <2>1, <3>1, PartitionFacts
    <3>4. e \in f..n /\ \A k \in (f + 1)..e : IsPartition(m[k].path)
      BY <1>1, <3>1, <3>2, <3>3, SubtreeEndFacts
    <3> HIDE DEF f, e, n
    <3>5. \A k \in 1..(f - 1) : k \in 1..n /\ ~(f <= k)
      BY <1>1, <3>2
    <3> QED
      BY <1>1, <2>1, <3>1, <3>2, <3>3, <3>4, <3>5
  <2>2. CASE ~IsPartition(p)
    <3>1. f = 0 /\ e = n /\ ParentOf[p] = Root
      BY <2>2 DEF IsPartition
    <3>2. \A j \in DOMAIN m : j \in (f + 1)..e
      BY <1>1, <3>1
    <3>3. f \in 0..n /\ e \in f..n
      BY <1>1, <3>1
    <3> HIDE DEF f, e, n
    <3> QED
      BY <2>2, <3>1, <3>2, <3>3 DEF IsPartition
  <2> QED
    BY <2>1, <2>2
<1> HIDE DEF f, e, n, i
<1>6. CASE G = {}
  <2>2. i = e + 1 /\ i \in 1..(n + 1)
    BY <1>1, <1>2, <1>5, <1>6
  <2>3. ASSUME NEW j \in DOMAIN m, ParentOf[m[j].path] = ParentOf[p]
        PROVE  j < i /\ Rank[m[j].path] <= Rank[p]
    <3>1. j \in (f + 1)..e /\ j \notin G /\ (IsPartition(m[j].path) <=> IsPartition(p))
      BY <1>5, <1>6, <2>3
    <3>2. ~(Rank[m[j].path] > Rank[p])
      BY <3>1
    <3> QED
      BY <1>1, <1>3, <1>4, <1>5, <2>2, <3>1, <3>2
  <2>4. ASSUME ~IsPartition(p), i # n + 1
        PROVE  FALSE
    BY <1>1, <2>2, <2>4 DEF e
  <2>5. \A j \in DOMAIN m : j < i => ~(j >= i)
    BY <1>1, <2>2
  <2>6. IsPartition(p) => f \in 1..(i - 1) /\ (f + 1)..(i - 1) = (f + 1)..e
    BY <1>1, <1>5, <2>2
  <2> QED
    BY <1>5, <2>2, <2>3, <2>4, <2>5, <2>6 DEF i, n
<1>7. CASE G # {}
  <2>1. i \in G /\ \A y \in G : i <= y
    <3>1. G \in SUBSET Nat
      BY <1>1, <1>5
    <3> HIDE DEF G
    <3> QED
      BY <1>2, <1>7, <3>1, MinFacts
  <2>2. i \in (f + 1)..e /\ (IsPartition(m[i].path) <=> IsPartition(p)) /\ Rank[m[i].path] > Rank[p]
    BY <2>1
  <2>3. i \in DOMAIN m /\ i \in 1..(n + 1) /\ i \in 1..n
    BY <1>1, <1>5, <2>2
  <2>4. ParentOf[m[i].path] = ParentOf[p]
    BY <1>5, <2>2, <2>3
  <2>5. ASSUME NEW j \in DOMAIN m, ParentOf[m[j].path] = ParentOf[p], j < i
        PROVE  Rank[m[j].path] <= Rank[p]
    <3>1. j \in (f + 1)..e /\ j \notin G /\ (IsPartition(m[j].path) <=> IsPartition(p))
      BY <1>1, <1>5, <2>1, <2>3, <2>5
    <3>2. ~(Rank[m[j].path] > Rank[p])
      BY <3>1
    <3> QED
      BY <1>3, <1>4, <3>2
  <2>6. ASSUME NEW j \in DOMAIN m, ParentOf[m[j].path] = ParentOf[p], j >= i
        PROVE  Rank[p] < Rank[m[j].path]
    <3>1. Rank[m[i].path] <= Rank[m[j].path]
      <4>1. CASE j = i
        BY <1>3, <4>1
      <4>2. CASE j # i
        <5>1. i \in 1..(j - 1)
          BY <1>1, <2>3, <2>6, <4>2
        <5> QED
          BY <2>4, <2>6, <5>1 DEF Ordered
      <4> QED
        BY <4>1, <4>2
    <3> QED
      BY <1>3, <1>4, <2>2, <2>3, <3>1
  <2>7. IsPartition(p) => f \in 1..(i - 1) /\ \A k \in (f + 1)..(i - 1) : k \in (f + 1)..e
    BY <1>1, <1>5, <2>2
  <2> QED
    BY <1>5, <2>2, <2>3, <2>5, <2>6, <2>7 DEF i, n
<1> QED
  BY <1>6, <1>7

\* add_media keeps the nodes there are, in their order, and leaves an ordered tree.
LEMMA AddFacts ==
    ASSUME NEW m, Sequence(m), \A i \in DOMAIN m : m[i].path \in Paths, Tree(m), Ordered(m),
           NEW p \in Paths, HasParent(m, p), NEW kind, NEW content
    PROVE  LET r == add_media(m, p, kind, content)
               new == Node(p, kind, content)
           IN  /\ Sequence(r)
               /\ \A k \in DOMAIN r : r[k] = new \/ \E j \in DOMAIN m : r[k] = m[j]
               /\ \A j \in DOMAIN m : \E k \in DOMAIN r : r[k] = m[j]
               /\ \E k \in DOMAIN r : r[k] = new
               /\ Distinct(m) /\ find_media(m, p) = 0 => Distinct(r)
               /\ Tree(r) /\ Ordered(r)
               /\ \A q : Once(m, q) /\ (q = p => find_media(m, p) = 0) => Once(r, q)
<1> DEFINE i == InsertionPoint(m, p)
           n == Len(m)
           new == Node(p, kind, content)
           r == add_media(m, p, kind, content)
           Old(k) == IF k < i THEN k ELSE k - 1
           At(j) == IF j < i THEN j ELSE j + 1
<1>1. n \in Nat /\ DOMAIN m = 1..n
  BY SequenceFacts
<1>2. /\ i \in 1..(n + 1)
      /\ ~IsPartition(p) /\ i # n + 1 => ~IsPartition(m[i].path)
      /\ IsPartition(p) =>
            \E f \in 1..(i - 1) :
                /\ m[f].path = ParentOf[p]
                /\ \A k \in (f + 1)..(i - 1) : IsPartition(m[k].path)
                /\ \A k \in 1..(f - 1) : m[k].path # m[f].path
      /\ \A j \in DOMAIN m : ParentOf[m[j].path] = ParentOf[p] =>
            /\ j < i => Rank[m[j].path] <= Rank[p]
            /\ j >= i => Rank[p] < Rank[m[j].path]
  BY PointFacts
<1>3. /\ Sequence(r) /\ DOMAIN r = 1..(n + 1) /\ r[i] = new
      /\ \A k \in DOMAIN r : k < i => k \in DOMAIN m /\ r[k] = m[k]
      /\ \A k \in DOMAIN r : k > i => k - 1 \in DOMAIN m /\ r[k] = m[k - 1]
  <2>1. r = InsertAt(m, i, new)
    BY DEF add_media
  <2> HIDE DEF i, new, r
  <2> QED
    BY <1>2, <2>1, InsertFacts
<1>4. new.path = p
  BY DEF Node
<1> HIDE DEF i, n, new, r
<1>5. ASSUME NEW k \in DOMAIN r, k # i
      PROVE  /\ k \in 1..(n + 1) /\ Old(k) \in DOMAIN m /\ r[k] = m[Old(k)] /\ At(Old(k)) = k
             /\ k < i <=> Old(k) < i
  BY <1>1, <1>2, <1>3, <1>5
<1>6. ASSUME NEW j \in DOMAIN m
      PROVE  At(j) \in DOMAIN r /\ At(j) # i /\ Old(At(j)) = j /\ r[At(j)] = m[j] /\ At(j) \in 1..(n + 1) /\ j \in 1..n
  <2>1. At(j) \in DOMAIN r /\ At(j) # i /\ Old(At(j)) = j
    BY <1>1, <1>2, <1>3
  <2> HIDE DEF Old, At
  <2> QED
    BY <1>1, <1>3, <1>5, <2>1
<1>7. \A k \in DOMAIN r : r[k] = new \/ \E j \in DOMAIN m : r[k] = m[j]
  BY <1>3, <1>5
<1>8. \A j \in DOMAIN m : \E k \in DOMAIN r : r[k] = m[j]
  BY <1>6
<1>9. i \in DOMAIN r
  BY <1>2, <1>3
<1>10. ASSUME Distinct(m), find_media(m, p) = 0
       PROVE  Distinct(r)
  <2>1. \A j \in DOMAIN m : m[j].path # p
    BY <1>1, <1>10, FindFacts
  <2> SUFFICES ASSUME NEW k \in DOMAIN r, NEW l \in DOMAIN r, r[k].path = r[l].path
               PROVE  k = l
    BY DEF Distinct
  <2>2. CASE k # i /\ l # i
    <3>1. Old(k) = Old(l)
      BY <1>5, <1>10, <2>2 DEF Distinct
    <3> HIDE DEF Old
    <3> QED
      BY <1>5, <2>2, <3>1
  <2>3. CASE k = i \/ l = i
    <3> HIDE DEF Old
    <3> QED
      BY <1>3, <1>4, <1>5, <2>1, <2>3
  <2> QED
    BY <2>2, <2>3
<1>11. Ordered(r)
  <2> SUFFICES ASSUME NEW k \in DOMAIN r, NEW l \in 1..(k - 1), ParentOf[r[l].path] = ParentOf[r[k].path]
               PROVE  Rank[r[l].path] <= Rank[r[k].path]
    BY DEF Ordered
  <2>0. l \in DOMAIN r /\ l < k /\ k \in 1..(n + 1) /\ l \in 1..(n + 1)
    BY <1>1, <1>3
  <2>a. \A j \in DOMAIN m : Rank[m[j].path] \in Nat
    BY PathAssumption
  <2>b. Rank[p] \in Nat
    BY PathAssumption
  <2>1. CASE k = i
    <3>1. l # i /\ Old(l) < i /\ Old(l) \in DOMAIN m /\ r[l] = m[Old(l)]
      BY <1>2, <1>5, <2>0, <2>1
    <3> QED
      BY <1>2, <1>3, <1>4, <2>1, <3>1
  <2>2. CASE l = i
    <3>1. k # i /\ Old(k) \in DOMAIN m /\ r[k] = m[Old(k)] /\ Old(k) >= i
      BY <1>2, <1>5, <2>0, <2>2
    <3>2. Rank[p] < Rank[m[Old(k)].path]
      BY <1>2, <1>3, <1>4, <2>2, <3>1
    <3>3. Rank[m[Old(k)].path] \in Nat
      BY <2>a, <3>1
    <3> HIDE DEF Old
    <3> QED
      BY <1>3, <1>4, <2>2, <2>b, <3>1, <3>2, <3>3
  <2>3. CASE k # i /\ l # i
    <3>1. Old(k) \in DOMAIN m /\ Old(l) \in 1..(Old(k) - 1) /\ r[k] = m[Old(k)] /\ r[l] = m[Old(l)]
      BY <1>1, <1>2, <1>5, <2>0, <2>3
    <3> HIDE DEF Old
    <3> QED
      BY <3>1 DEF Ordered
  <2> QED
    BY <2>1, <2>2, <2>3
<1>12. Tree(r)
  <2> SUFFICES ASSUME NEW k \in DOMAIN r, IsPartition(r[k].path)
               PROVE  \E d \in 1..(k - 1) :
                         /\ r[d].path = ParentOf[r[k].path]
                         /\ \A l \in (d + 1)..k : IsPartition(r[l].path)
                         /\ \A l \in 1..(d - 1) : r[l].path # r[d].path
    BY DEF Tree
  <2>1. CASE k = i
    <3>1. IsPartition(p) /\ r[k].path = p
      BY <1>3, <1>4, <2>1
    <3>2. PICK f \in 1..(i - 1) :
                /\ m[f].path = ParentOf[p]
                /\ \A l \in (f + 1)..(i - 1) : IsPartition(m[l].path)
                /\ \A l \in 1..(f - 1) : m[l].path # m[f].path
      BY <1>2, <3>1
    <3>3. \A l \in 1..(i - 1) : l \in DOMAIN r /\ r[l] = m[l]
      BY <1>1, <1>2, <1>3
    <3>4. \A l \in (f + 1)..i : l = i \/ l \in (f + 1)..(i - 1)
      BY <1>2, <3>2
    <3>5. \A l \in (f + 1)..(i - 1) : l \in 1..(i - 1)
      BY <1>2, <3>2
    <3>6. \A l \in 1..(f - 1) : l \in 1..(i - 1)
      BY <1>2, <3>2
    <3>7. r[f] = m[f]
      BY <3>2, <3>3
    <3> QED
      BY <2>1, <3>1, <3>2, <3>3, <3>4, <3>5, <3>6, <3>7
  <2>2. CASE k # i
    <3> DEFINE q == Old(k)
    <3>1. q \in DOMAIN m /\ r[k] = m[q] /\ q \in 1..n /\ At(q) = k /\ k \in 1..(n + 1)
      BY <1>1, <1>5, <2>2
    <3>2. PICK j \in 1..(q - 1) :
                /\ m[j].path = ParentOf[m[q].path]
                /\ \A l \in (j + 1)..q : IsPartition(m[l].path)
                /\ \A l \in 1..(j - 1) : m[l].path # m[j].path
      BY <3>1 DEF Tree
    <3>3. j \in DOMAIN m /\ ~IsPartition(m[j].path)
      BY <1>1, <3>1, <3>2, DiskFacts
    <3> DEFINE d == At(j)
    <3> HIDE DEF q
    <3>4. d \in DOMAIN r /\ r[d] = m[j] /\ d \in 1..(k - 1) /\ d # i /\ d \in 1..(n + 1)
      <4>1. d < k
        BY <1>1, <1>2, <3>1, <3>2
      <4> QED
        BY <1>6, <3>1, <3>3, <4>1
    <3>5. ASSUME NEW l \in (d + 1)..k
          PROVE  IsPartition(r[l].path)
      <4>1. l \in DOMAIN r
        BY <1>1, <1>3, <3>1, <3>4
      <4>2. CASE l # i
        <5>0. r[l] = m[Old(l)]
          BY <1>5, <4>1, <4>2
        <5>9. Old(l) \in (j + 1)..q
          BY <1>1, <1>2, <3>1, <3>2, <3>3, <3>4, <4>1, <4>2 DEF q
        <5>1. Old(l) \in (j + 1)..q /\ r[l] = m[Old(l)]
          BY <5>0, <5>9
        <5> HIDE DEF Old
        <5> QED
          BY <3>2, <5>1
      <4>3. CASE l = i
        <5>1. i \in (j + 1)..q /\ i # n + 1
          BY <1>1, <1>2, <2>2, <3>1, <3>2, <3>3, <3>4, <4>3
        <5>2. IsPartition(p)
          BY <1>2, <3>2, <5>1
        <5> QED
          BY <1>3, <1>4, <4>3, <5>2
      <4> QED
        BY <4>2, <4>3
    <3>6. ASSUME NEW l \in 1..(d - 1)
          PROVE  r[l].path # r[d].path
      <4>1. l \in DOMAIN r
        BY <1>1, <1>3, <3>1, <3>4
      <4>2. CASE l # i
        <5>1. Old(l) \in 1..(j - 1) /\ r[l] = m[Old(l)]
          BY <1>1, <1>2, <1>5, <3>1, <3>2, <3>3, <3>4, <4>1, <4>2
        <5> HIDE DEF Old
        <5> QED
          BY <3>2, <3>4, <5>1
      <4>3. CASE l = i
        <5>1. j >= i /\ j \in DOMAIN m
          BY <1>1, <1>2, <3>2, <3>3, <3>4, <4>3
        <5>2. CASE IsPartition(p)
          BY <1>3, <1>4, <3>3, <3>4, <4>3, <5>2
        <5>3. CASE ~IsPartition(p)
          <6>1. ParentOf[m[j].path] = ParentOf[p]
            BY <3>3, <5>3 DEF IsPartition
          <6>2. Rank[p] < Rank[m[j].path]
            BY <1>2, <5>1, <6>1
          <6>3. Rank[p] \in Nat
            BY PathAssumption
          <6>4. p # m[j].path
            BY <6>2, <6>3
          <6> QED
            BY <1>3, <1>4, <3>4, <4>3, <6>4
        <5> QED
          BY <5>2, <5>3
      <4> QED
        BY <4>2, <4>3
    <3> QED
      BY <3>1, <3>2, <3>4, <3>5, <3>6
  <2> QED
    BY <2>1, <2>2
<1>13. ASSUME NEW q, Once(m, q), q = p => find_media(m, p) = 0
       PROVE  Once(r, q)
  <2>1. q = p => \A j \in DOMAIN m : m[j].path # p
    BY <1>1, <1>13, FindFacts
  <2> SUFFICES ASSUME NEW k \in DOMAIN r, NEW l \in DOMAIN r, r[k].path = q, r[l].path = q
               PROVE  k = l
    BY DEF Once
  <2>2. CASE k # i /\ l # i
    <3>1. Old(k) = Old(l)
      BY <1>5, <1>13, <2>2 DEF Once
    <3> HIDE DEF Old
    <3> QED
      BY <1>5, <2>2, <3>1
  <2>3. CASE k = i \/ l = i
    <3> HIDE DEF Old
    <3> QED
      BY <1>3, <1>4, <1>5, <2>1, <2>3
  <2> QED
    BY <2>2, <2>3
<1> QED
  BY <1>3, <1>7, <1>8, <1>9, <1>10, <1>11, <1>12, <1>13 DEF r, new

\* A list with the same paths at the same places is as well formed.
LEMMA SamePaths ==
    ASSUME NEW m, Sequence(m), NEW r, DOMAIN r = DOMAIN m,
           \A i \in DOMAIN m : r[i].path = m[i].path
    PROVE  (Tree(m) => Tree(r)) /\ (Distinct(m) => Distinct(r)) /\ (Ordered(m) => Ordered(r))
<1>1. Len(m) \in Nat /\ DOMAIN m = 1..Len(m)
  BY SequenceFacts
<1>2. Distinct(m) => Distinct(r)
  BY DEF Distinct
<1>3. ASSUME Tree(m), NEW i \in DOMAIN r, IsPartition(r[i].path)
      PROVE  \E j \in 1..(i - 1) :
                 /\ r[j].path = ParentOf[r[i].path]
                 /\ \A k \in (j + 1)..i : IsPartition(r[k].path)
                 /\ \A k \in 1..(j - 1) : r[k].path # r[j].path
  <2>1. PICK j \in 1..(i - 1) :
                 /\ m[j].path = ParentOf[m[i].path]
                 /\ \A k \in (j + 1)..i : IsPartition(m[k].path)
                 /\ \A k \in 1..(j - 1) : m[k].path # m[j].path
    BY <1>3 DEF Tree
  <2>2. /\ j \in DOMAIN m /\ \A k \in (j + 1)..i : k \in DOMAIN m
        /\ \A k \in 1..(j - 1) : k \in DOMAIN m
    BY <1>1, <1>3, <2>1
  <2> QED
    BY <1>3, <2>1, <2>2
<1>4. Ordered(m) => Ordered(r)
  <2>1. \A i \in DOMAIN m : \A j \in 1..(i - 1) : j \in DOMAIN m
    BY <1>1
  <2> QED
    BY <2>1 DEF Ordered
<1> QED
  BY <1>2, <1>3, <1>4 DEF Tree

\* mount_counter tells whether there is a mount point.
Counted(n) == n.mount_counter \in {0, 1} /\ (n.mount_counter = 1 <=> n.mnt_point # NULL)

\* check_mount_changes gives every node the mount point of its entry.
LEMMA CheckFacts ==
    ASSUME NEW m, Sequence(m), \A i \in DOMAIN m : IsNode(m[i]) /\ Counted(m[i]),
           NEW mounts, Sequence(mounts), \A k \in DOMAIN mounts : mounts[k].dir # NULL
    PROVE  LET r == check_mount_changes(m, mounts)
           IN  /\ Sequence(r) /\ DOMAIN r = DOMAIN m
               /\ \A i \in DOMAIN m :
                     LET e == EntryOf(m, mounts, i)
                     IN  /\ IsNode(r[i]) /\ Counted(r[i]) /\ (e = 0 \/ e \in DOMAIN mounts)
                         /\ r[i].path = m[i].path /\ r[i].kind = m[i].kind
                         /\ r[i].content = m[i].content
                         /\ r[i].mnt_point = IF e = 0 THEN NULL ELSE mounts[e].dir
                         /\ r[i].mnt_opts = IF e = 0 /\ m[i].mnt_point = NULL THEN m[i].mnt_opts
                                            ELSE IF e = 0 THEN NULL ELSE mounts[e].opts
<1> DEFINE r == check_mount_changes(m, mounts)
<1>1. DOMAIN r = DOMAIN m
  BY DEF check_mount_changes
<1>2. Sequence(r)
  <2>1. Len(m) \in Nat /\ DOMAIN m = 1..Len(m)
    BY SequenceFacts
  <2>2. r \in [1..Len(m) -> {r[i] : i \in DOMAIN m}]
    BY <2>1 DEF check_mount_changes
  <2> HIDE DEF r
  <2> QED
    BY <2>1, <2>2, FunctionIsSeq
<1>3. ASSUME NEW i \in DOMAIN m
      PROVE  LET e == EntryOf(m, mounts, i)
             IN  /\ IsNode(r[i]) /\ Counted(r[i]) /\ (e = 0 \/ e \in DOMAIN mounts)
                 /\ r[i].path = m[i].path /\ r[i].kind = m[i].kind
                 /\ r[i].content = m[i].content
                 /\ r[i].mnt_point = IF e = 0 THEN NULL ELSE mounts[e].dir
                 /\ r[i].mnt_opts = IF e = 0 /\ m[i].mnt_point = NULL THEN m[i].mnt_opts
                                    ELSE IF e = 0 THEN NULL ELSE mounts[e].opts
  <2> DEFINE e == EntryOf(m, mounts, i)
  <2>1. r[i] = CheckedNode(m[i], e, mounts)
    BY DEF check_mount_changes
  <2>2. e = 0 \/ e \in DOMAIN mounts
    BY EntryFacts DEF EntryOf
  <2> HIDE DEF r, e
  <2>3. IsNode(m[i]) /\ Counted(m[i]) /\ (e # 0 => mounts[e].dir # NULL)
    BY <2>2
  <2>4. IsNode(r[i]) /\ r[i].path = m[i].path /\ r[i].kind = m[i].kind /\ r[i].content = m[i].content
    BY <2>1, <2>3 DEF CheckedNode, IsNode
  <2>5. /\ Counted(r[i]) /\ r[i].mnt_point = (IF e = 0 THEN NULL ELSE mounts[e].dir)
        /\ r[i].mnt_opts = IF e = 0 /\ m[i].mnt_point = NULL THEN m[i].mnt_opts
                           ELSE IF e = 0 THEN NULL ELSE mounts[e].opts
    BY <2>1, <2>3 DEF CheckedNode, IsNode, Counted
  <2> QED
    BY <2>2, <2>4, <2>5 DEF e, r
<1> QED
  BY <1>1, <1>2, <1>3

\* change_media changes the content of one node, which is then not mounted.
LEMMA ChangeFacts ==
    ASSUME NEW m, Sequence(m), \A i \in DOMAIN m : IsNode(m[i]) /\ Counted(m[i]),
           NEW p, NEW kind, NEW content
    PROVE  LET r == change_media(m, p, kind, content)
           IN  /\ Sequence(r) /\ DOMAIN r = DOMAIN m
               /\ \A i \in DOMAIN m :
                     /\ IsNode(r[i]) /\ Counted(r[i])
                     /\ r[i].path = m[i].path /\ r[i].kind = m[i].kind
                     /\ r[i].content = IF i = find_media(m, p) THEN content ELSE m[i].content
                     /\ r[i].mnt_point = IF i = find_media(m, p) THEN NULL ELSE m[i].mnt_point
                     /\ r[i].mnt_opts = IF i = find_media(m, p) THEN NULL ELSE m[i].mnt_opts
<1> DEFINE f == find_media(m, p)
           r == change_media(m, p, kind, content)
<1>1. f = 0 \/ f \in DOMAIN m
  BY FindFacts
<1>2. r = IF f = 0 \/ NothingChanged(m[f], kind, content) THEN m
          ELSE [m EXCEPT ![f] = ChangedNode(m[f], content)]
  BY DEF change_media
<1>3. \A i \in DOMAIN m : i # 0
  BY SequenceFacts
<1> HIDE DEF f, r
<1>4. CASE f = 0
  BY <1>2, <1>3, <1>4 DEF r, f
<1>5. CASE f # 0 /\ NothingChanged(m[f], kind, content)
  BY <1>1, <1>2, <1>5 DEF r, f, NothingChanged
<1>6. CASE f # 0 /\ ~NothingChanged(m[f], kind, content)
  <2>1. f \in DOMAIN m /\ r = [m EXCEPT ![f] = ChangedNode(m[f], content)]
    BY <1>1, <1>2, <1>6
  <2>2. DOMAIN r = DOMAIN m /\ r[f] = ChangedNode(m[f], content) /\ \A i \in DOMAIN m : i # f => r[i] = m[i]
    BY <2>1
  <2>3. Sequence(r)
    <3>1. Len(m) \in Nat /\ DOMAIN m = 1..Len(m)
      BY SequenceFacts
    <3>2. r \in [1..Len(m) -> {r[i] : i \in DOMAIN m}]
      BY <2>1, <3>1
    <3> QED
      BY <3>1, <3>2, FunctionIsSeq
  <2>4. IsNode(m[f]) /\ Counted(m[f])
    BY <2>1
  <2>5. /\ IsNode(r[f]) /\ Counted(r[f]) /\ r[f].path = m[f].path /\ r[f].kind = m[f].kind
        /\ r[f].content = content /\ r[f].mnt_point = NULL /\ r[f].mnt_opts = NULL
    <3>1. r[f] = [m[f] EXCEPT !.content = content, !.mnt_point = NULL, !.mnt_opts = NULL, !.mount_counter = 0]
      BY <2>2, <2>4 DEF ChangedNode, IsNode, Counted
    <3>2. r[f] = [path |-> m[f].path, kind |-> m[f].kind, content |-> content,
                  mnt_point |-> NULL, mnt_opts |-> NULL, mount_counter |-> 0]
      BY <2>4, <3>1 DEF IsNode
    <3> QED
      BY <3>2 DEF IsNode, Counted
  <2> QED
    BY <2>2, <2>3, <2>5 DEF r, f
<1> QED
  BY <1>4, <1>5, <1>6

\* As many different elements as a set has are all of them.
LEMMA OntoFacts ==
    ASSUME NEW S, IsFiniteSet(S), NEW s \in [1..Cardinality(S) -> S],
           \A i, j \in 1..Cardinality(S) : i < j => s[i] # s[j]
    PROVE  /\ Cardinality(S) \in Nat /\ s \in Seq(S) /\ DOMAIN s = 1..Cardinality(S)
           /\ \A x \in S : \E i \in DOMAIN s : s[i] = x
<1> DEFINE n == Cardinality(S)
<1>1. n \in Nat
  BY FS_CardinalityType
<1> HIDE DEF n
<1>2. IsFiniteSet(1..n) /\ Cardinality(1..n) = n
  BY <1>1, FS_Interval
<1>3. \A i, j \in 1..n : s[i] = s[j] => i = j
  BY <1>1 DEF n
<1>4. s \in Injection(1..n, S)
  BY <1>3 DEF Injection, IsInjective, n
<1>5. s \in Surjection(1..n, S)
  BY <1>2, <1>4, FS_Injection DEF n
<1> QED
  BY <1>1, <1>5 DEF Surjection, n

(***************************************************************************)
(* Views of the list and the notifications about it.                       *)
(***************************************************************************)
\* f[k] is the view after k of the notifications.
Course(f, v, notes) ==
    f = [k \in 0..Len(notes) |-> IF k = 0 THEN v ELSE processCommand(f[k - 1], notes[k])]

\* The notifications take the view v to the view w, each telling of a change.
Applies(v, notes, w) ==
    /\ Sequence(notes)
    /\ \E f : /\ Course(f, v, notes) /\ f[Len(notes)] = w
              /\ \A k \in 1..Len(notes) : Fits(f[k - 1], notes[k])

\* A view can follow any number of notifications: otherwise there would be a
\* least number that it cannot follow.
LEMMA CourseExists ==
    ASSUME NEW v, NEW notes, Sequence(notes)
    PROVE  \E f : Course(f, v, notes)
<1> DEFINE C(f, n) == f = [k \in 0..n |-> IF k = 0 THEN v ELSE processCommand(f[k - 1], notes[k])]
           B == {n \in Nat : ~\E f : C(f, n)}
<1>1. Len(notes) \in Nat
  BY SequenceFacts
<1>2. ASSUME B # {}
      PROVE  FALSE
  <2>1. PICK n \in B : \A y \in B : n <= y
    BY <1>2, MinFacts
  <2>2. n \in Nat /\ ~\E f : C(f, n)
    OBVIOUS
  <2>3. CASE n = 0
    <3>1. C([k \in 0..0 |-> v], 0)
      OBVIOUS
    <3> QED
      BY <2>2, <2>3, <3>1
  <2>4. CASE n # 0
    <3>0. n - 1 \in Nat /\ ~(n <= n - 1)
      BY <2>2, <2>4
    <3>1. n - 1 \in Nat /\ n - 1 \notin B
      <4> HIDE DEF B
      <4> QED
        BY <2>1, <3>0
    <3>2. PICK f : C(f, n - 1)
      BY <3>1
    <3> DEFINE g == [k \in 0..n |-> IF k = n THEN processCommand(f[n - 1], notes[n]) ELSE f[k]]
    <3>3. ASSUME NEW k \in 0..n
          PROVE  g[k] = IF k = 0 THEN v ELSE processCommand(g[k - 1], notes[k])
      <4>1. CASE k = n
        <5>1. n - 1 \in 0..n /\ n - 1 # n
          BY <2>2, <2>4
        <5> QED
          BY <2>4, <4>1, <5>1
      <4>2. CASE k # n
        <5>1. k \in 0..(n - 1) /\ (k # 0 => k - 1 \in 0..n /\ k - 1 # n)
          BY <2>2, <4>2
        <5>2. f[k] = IF k = 0 THEN v ELSE processCommand(f[k - 1], notes[k])
          BY <3>2, <5>1
        <5> QED
          BY <4>2, <5>1, <5>2
      <4> QED
        BY <4>1, <4>2
    <3>4. C(g, n)
      BY <3>3
    <3> QED
      BY <2>2, <3>4
  <2> QED
    BY <2>3, <2>4
<1>3. \E f : C(f, Len(notes))
  BY <1>1, <1>2
<1> QED
  BY <1>3 DEF Course

\* There is only one way to follow them.
LEMMA CourseUnique ==
    ASSUME NEW v, NEW s, Sequence(s), NEW t, Sequence(t), Len(s) <= Len(t),
           \A k \in 1..Len(s) : s[k] = t[k],
           NEW f, Course(f, v, s), NEW g, Course(g, v, t)
    PROVE  \A k \in 0..Len(s) : f[k] = g[k]
<1> DEFINE B == {k \in 0..Len(s) : f[k] # g[k]}
<1>1. Len(s) \in Nat /\ Len(t) \in Nat
  BY SequenceFacts
<1>2. ASSUME B # {}
      PROVE  FALSE
  <2>0. B \in SUBSET Nat
    BY <1>1
  <2>1. PICK n \in B : \A y \in B : n <= y
    BY <1>2, <2>0, MinFacts
  <2>2. n \in 0..Len(s) /\ n \in 0..Len(t) /\ f[n] # g[n]
    BY <1>1, <2>1
  <2>3. n # 0
    BY <2>2 DEF Course
  <2>4. n - 1 \in 0..Len(s) /\ n \in 1..Len(s) /\ ~(n <= n - 1)
    BY <1>1, <2>2, <2>3
  <2>5. f[n - 1] = g[n - 1]
    BY <2>1, <2>4
  <2>6. f[n] = processCommand(f[n - 1], s[n]) /\ g[n] = processCommand(g[n - 1], t[n])
    BY <2>2, <2>3 DEF Course
  <2> QED
    BY <2>2, <2>4, <2>5, <2>6
<1> QED
  BY <1>2

LEMMA FollowIsCourse ==
    ASSUME NEW v, NEW notes, Sequence(notes)
    PROVE  \E f : Course(f, v, notes) /\ Follow(v, notes) = f[Len(notes)]
<1>1. PICK f : f = CHOOSE g : g = [k \in 0..Len(notes) |->
                                     IF k = 0 THEN v ELSE processCommand(g[k - 1], notes[k])]
  OBVIOUS
<1>2. Course(f, v, notes)
  <2>1. \E g : g = [k \in 0..Len(notes) |->
                      IF k = 0 THEN v ELSE processCommand(g[k - 1], notes[k])]
    <3>1. PICK g : Course(g, v, notes)
      BY CourseExists
    <3>2. g = [k \in 0..Len(notes) |->
                 IF k = 0 THEN v ELSE processCommand(g[k - 1], notes[k])]
      BY ONLY <3>1 DEF Course
    <3> QED
      BY <3>2
  <2>2. f = [k \in 0..Len(notes) |->
               IF k = 0 THEN v ELSE processCommand(f[k - 1], notes[k])]
    BY ONLY <1>1, <2>1
  <2> QED
    BY <2>2 DEF Course
<1>3. Follow(v, notes) = f[Len(notes)]
  BY <1>1 DEF Follow
<1> QED
  BY <1>2, <1>3

LEMMA AppliesFacts ==
    ASSUME NEW v, NEW notes, NEW w, Applies(v, notes, w)
    PROVE  Follow(v, notes) = w /\ AllFit(v, notes)
<1>1. PICK f : /\ Course(f, v, notes) /\ f[Len(notes)] = w
               /\ \A k \in 1..Len(notes) : Fits(f[k - 1], notes[k])
  BY DEF Applies
<1>2. Sequence(notes) /\ Len(notes) \in Nat /\ DOMAIN notes = 1..Len(notes)
  BY SequenceFacts DEF Applies
<1>3. ASSUME NEW t, Sequence(t), Len(t) <= Len(notes), \A k \in 1..Len(t) : t[k] = notes[k]
      PROVE  Follow(v, t) = f[Len(t)]
  <2>1. PICK g : Course(g, v, t) /\ Follow(v, t) = g[Len(t)]
    BY <1>3, FollowIsCourse
  <2>2. \A k \in 0..Len(t) : g[k] = f[k]
    BY <1>1, <1>2, <1>3, <2>1, CourseUnique
  <2>3. Len(t) \in 0..Len(t)
    BY <1>3, SequenceFacts
  <2> QED
    BY <2>1, <2>2, <2>3
<1>4. Follow(v, notes) = w
  BY <1>1, <1>2, <1>3
<1>5. ASSUME NEW k \in DOMAIN notes
      PROVE  Fits(Follow(v, SubSeq(notes, 1, k - 1)), notes[k])
  <2> DEFINE t == SubSeq(notes, 1, k - 1)
             S == ToSet(notes)
  <2>1. notes \in Seq(S) /\ k \in 1..Len(notes) /\ k - 1 \in 0..Len(notes)
    BY <1>2 DEF Sequence
  <2> HIDE DEF S
  <2>2. t \in Seq(S) /\ Len(t) = k - 1 /\ \A i \in 1..(k - 1) : t[i] = notes[i]
    BY <1>2, <2>1, SubSeqProperties
  <2>3. Sequence(t)
    BY <2>2, SequenceOf
  <2> HIDE DEF t
  <2>4. Follow(v, t) = f[k - 1]
    BY <1>2, <1>3, <2>1, <2>2, <2>3
  <2> QED
    BY <1>1, <2>1, <2>4 DEF t
<1> QED
  BY <1>4, <1>5 DEF AllFit

LEMMA AppliesNone ==
    ASSUME NEW v
    PROVE  Applies(v, <<>>, v)
<1> DEFINE f == [k \in 0..0 |-> v]
<1>1. Sequence(<<>>) /\ Len(<<>>) = 0
  BY DEF Sequence
<1>2. Course(f, v, <<>>) /\ f[0] = v
  BY <1>1 DEF Course
<1> QED
  BY <1>1, <1>2 DEF Applies

LEMMA AppliesOne ==
    ASSUME NEW v, NEW note, Fits(v, note)
    PROVE  Applies(v, <<note>>, processCommand(v, note))
<1> DEFINE f == [k \in 0..1 |-> IF k = 0 THEN v ELSE processCommand(v, note)]
           s == <<note>>
<1>1. s \in Seq({note}) /\ Len(s) = 1 /\ s[1] = note
  OBVIOUS
<1>2. Sequence(s)
  BY <1>1, SequenceOf
<1> HIDE DEF s
<1>3. \A k \in 0..1 : k = 0 \/ k = 1
  OBVIOUS
<1>4. Course(f, v, s)
  BY <1>1, <1>3 DEF Course
<1>5. f[0] = v /\ f[1] = processCommand(v, note)
  OBVIOUS
<1>6. \A k \in 1..1 : Fits(f[k - 1], s[k])
  BY <1>1, <1>5
<1> HIDE DEF f
<1>7. Applies(v, s, processCommand(v, note))
  BY <1>1, <1>2, <1>4, <1>5, <1>6 DEF Applies
<1> QED
  BY <1>7 DEF s

LEMMA ConcatFacts ==
    ASSUME NEW s, Sequence(s), NEW t, Sequence(t)
    PROVE  /\ Sequence(s \o t) /\ Len(s \o t) = Len(s) + Len(t)
           /\ \A k \in 1..Len(s) : (s \o t)[k] = s[k]
           /\ \A k \in 1..Len(t) : (s \o t)[Len(s) + k] = t[k]
<1> DEFINE S == ToSet(s) \cup ToSet(t)
<1>1. s \in Seq(S) /\ t \in Seq(S)
  BY DEF Sequence
<1> HIDE DEF S
<1>2. s \o t \in Seq(S)
  BY <1>1
<1>3. Len(s) \in Nat /\ Len(t) \in Nat /\ Len(s \o t) = Len(s) + Len(t)
  BY <1>1
<1>4. \A k \in 1..(Len(s) + Len(t)) : (s \o t)[k] = IF k <= Len(s) THEN s[k] ELSE t[k - Len(s)]
  BY <1>1, ConcatProperties
<1>5. \A k \in 1..Len(s) : k \in 1..(Len(s) + Len(t)) /\ k <= Len(s)
  BY <1>3
<1>6. \A k \in 1..Len(t) : Len(s) + k \in 1..(Len(s) + Len(t)) /\ ~(Len(s) + k <= Len(s)) /\ (Len(s) + k) - Len(s) = k
  BY <1>3
<1> QED
  BY <1>2, <1>3, <1>4, <1>5, <1>6, SequenceOf

LEMMA AppliesConcat ==
    ASSUME NEW u, NEW v, NEW w, NEW s, NEW t, Applies(u, s, v), Applies(v, t, w)
    PROVE  Applies(u, s \o t, w)
<1> DEFINE m == Len(s)
           n == Len(t)
           r == s \o t
<1>1. Sequence(s) /\ Sequence(t) /\ m \in Nat /\ n \in Nat
  BY SequenceFacts DEF Applies
<1>2. /\ Sequence(r) /\ Len(r) = m + n
      /\ \A k \in 1..m : r[k] = s[k]
      /\ \A k \in 1..n : r[m + k] = t[k]
  BY <1>1, ConcatFacts
<1>3. PICK f : Course(f, u, s) /\ f[m] = v /\ \A k \in 1..m : Fits(f[k - 1], s[k])
  BY DEF Applies
<1>4. PICK g : Course(g, v, t) /\ g[n] = w /\ \A k \in 1..n : Fits(g[k - 1], t[k])
  BY DEF Applies
<1> HIDE DEF r
<1>5. /\ f[0] = u /\ \A k \in 1..m : f[k] = processCommand(f[k - 1], s[k])
      /\ g[0] = v /\ \A k \in 1..n : g[k] = processCommand(g[k - 1], t[k])
  <2>1. \A k \in 1..m : k \in 0..m /\ k # 0
    BY <1>1
  <2>2. \A k \in 1..n : k \in 0..n /\ k # 0
    BY <1>1
  <2>3. 0 \in 0..m /\ 0 \in 0..n
    BY <1>1
  <2> HIDE DEF m, n
  <2>4. /\ f = [k \in 0..m |-> IF k = 0 THEN u ELSE processCommand(f[k - 1], s[k])]
        /\ g = [k \in 0..n |-> IF k = 0 THEN v ELSE processCommand(g[k - 1], t[k])]
    BY <1>3, <1>4 DEF Course, m, n
  <2>5. \A k \in 0..m : f[k] = IF k = 0 THEN u ELSE processCommand(f[k - 1], s[k])
    BY <2>4
  <2>6. \A k \in 0..n : g[k] = IF k = 0 THEN v ELSE processCommand(g[k - 1], t[k])
    BY <2>4
  <2> QED
    BY <2>1, <2>2, <2>3, <2>5, <2>6
<1> DEFINE h == [k \in 0..(m + n) |-> IF k <= m THEN f[k] ELSE g[k - m]]
<1> HIDE DEF m, n
<1>6. ASSUME NEW k \in 1..(m + n)
      PROVE  h[k] = processCommand(h[k - 1], r[k]) /\ Fits(h[k - 1], r[k])
  <2>1. CASE k <= m
    <3>1. k \in 1..m /\ k \in 0..(m + n) /\ k - 1 \in 0..(m + n) /\ k - 1 <= m
      BY <1>1, <2>1
    <3>2. h[k] = f[k] /\ h[k - 1] = f[k - 1] /\ r[k] = s[k]
      BY <1>2, <2>1, <3>1
    <3> QED
      BY <1>3, <1>5, <3>1, <3>2
  <2>2. CASE ~(k <= m)
    <3>1. PICK j \in 1..n : k = m + j
      <4>1. k - m \in 1..n /\ k = m + (k - m)
        BY <1>1, <2>2
      <4> QED
        BY <4>1
    <3>2. k \in 0..(m + n) /\ k - 1 \in 0..(m + n) /\ k - m = j
      BY <1>1, <3>1
    <3>3. h[k] = g[j] /\ r[k] = t[j]
      BY <1>2, <2>2, <3>1, <3>2
    <3>4. h[k - 1] = g[j - 1]
      <4>1. CASE j = 1
        <5>1. k - 1 = m /\ k - 1 <= m /\ j - 1 = 0
          BY <1>1, <3>1, <4>1
        <5>2. h[k - 1] = f[m]
          BY <3>2, <5>1
        <5> QED
          BY <1>3, <1>5, <5>1, <5>2
      <4>2. CASE j # 1
        <5>1. ~(k - 1 <= m) /\ k - 1 - m = j - 1
          BY <1>1, <3>1, <4>2
        <5> QED
          BY <3>2, <5>1
      <4> QED
        BY <4>1, <4>2
    <3> QED
      BY <1>4, <1>5, <3>1, <3>3, <3>4
  <2> QED
    BY <2>1, <2>2
<1>7. h[0] = u
  BY <1>1, <1>5
<1>8. h[m + n] = w
  <2>1. m + n \in 0..(m + n) /\ (m + n <= m <=> n = 0) /\ (m + n) - m = n
    BY <1>1
  <2>2. CASE n = 0
    BY <1>1, <1>3, <1>4, <1>5, <2>1, <2>2
  <2>3. CASE n # 0
    <3>1. h[m + n] = g[(m + n) - m]
      BY <2>1, <2>3
    <3> QED
      BY <1>4, <2>1, <3>1
  <2> QED
    BY <2>2, <2>3
<1>9. Course(h, u, r)
  <2>1. \A k \in 0..(m + n) : k = 0 \/ k \in 1..(m + n)
    BY <1>1
  <2>2. \A k \in 0..(m + n) : h[k] = IF k = 0 THEN u ELSE processCommand(h[k - 1], r[k])
    <3> TAKE k \in 0..(m + n)
    <3>1. CASE k = 0
      BY <1>7, <3>1
    <3>2. CASE k # 0
      BY <1>6, <2>1, <3>2
    <3> QED
      BY <3>1, <3>2
  <2>3. h = [k \in 0..(m + n) |-> h[k]]
    OBVIOUS
  <2> HIDE DEF h
  <2>4. h = [k \in 0..(m + n) |-> IF k = 0 THEN u ELSE processCommand(h[k - 1], r[k])]
    BY <2>2, <2>3
  <2> QED
    BY <1>2, <2>4 DEF Course
<1> HIDE DEF h
<1>10. Applies(u, r, w)
  BY <1>2, <1>6, <1>8, <1>9 DEF Applies
<1> QED
  BY <1>10 DEF r

\* The parts of a sequence are put together one after the other.
LEMMA FlattenFacts ==
    ASSUME NEW ss, Sequence(ss)
    PROVE  IF Len(ss) = 0 THEN FlattenSeq(ss) = <<>>
           ELSE \E g : /\ \A i \in 1..Len(ss) : g[i] = IF i = 1 THEN ss[i] ELSE g[i - 1] \o ss[i]
                       /\ FlattenSeq(ss) = g[Len(ss)]
<1> DEFINE n == Len(ss)
           F(g, i) == IF i = 1 THEN ss[i] ELSE g[i - 1] \o ss[i]
<1>1. n \in Nat /\ DOMAIN ss = 1..n
  BY SequenceFacts
<1>2. \E g : g = [i \in 1..n |-> F(g, i)]
  <2> DEFINE B == {j \in Nat : ~\E g : g = [i \in 1..j |-> F(g, i)]}
  <2>1. ASSUME B # {}
        PROVE  FALSE
    <3>1. PICK j \in B : \A y \in B : j <= y
      BY <2>1, MinFacts
    <3>2. j \in Nat /\ ~\E g : g = [i \in 1..j |-> F(g, i)]
      OBVIOUS
    <3>3. j # 0
      <4>1. 1..0 = {}
        OBVIOUS
      <4>2. \E g : g = [i \in 1..0 |-> F(g, i)]
        <5> WITNESS [i \in 1..0 |-> 0]
        <5> QED
          BY <4>1
      <4> QED
        BY <3>2, <4>2
    <3>4. j - 1 \in Nat /\ ~(j <= j - 1)
      BY <3>2, <3>3
    <3>5. j - 1 \notin B
      <4> HIDE DEF B
      <4> QED
        BY <3>1, <3>4
    <3>6. PICK g : g = [i \in 1..(j - 1) |-> F(g, i)]
      BY <3>4, <3>5
    <3> DEFINE h == [i \in 1..j |-> IF i = j THEN F(g, j) ELSE g[i]]
    <3>7. ASSUME NEW i \in 1..j
          PROVE  h[i] = F(h, i)
      <4>1. i # 1 => i - 1 \in 1..j /\ i - 1 # j
        BY <3>2
      <4>2. CASE i = j
        BY <4>1, <4>2
      <4>3. CASE i # j
        <5>1. i \in 1..(j - 1)
          BY <3>2, <4>3
        <5>2. g[i] = F(g, i)
          BY <3>6, <5>1
        <5> QED
          BY <4>1, <4>3, <5>2
      <4> QED
        BY <4>2, <4>3
    <3>8. h = [i \in 1..j |-> h[i]]
      OBVIOUS
    <3> HIDE DEF h
    <3>9. h = [i \in 1..j |-> F(h, i)]
      BY <3>7, <3>8
    <3> QED
      BY <3>2, <3>9
  <2> QED
    BY <1>1, <2>1
<1>3. CASE n = 0
  <2>1. ss = <<>>
    BY <1>3 DEF Sequence
  <2>2. FlattenSeq(ss) = ss
    BY <1>3 DEF FlattenSeq
  <2> QED
    BY <1>3, <2>1, <2>2
<1>4. CASE n # 0
  <2>1. PICK g : g = CHOOSE f : f = [i \in 1..n |-> F(f, i)]
    OBVIOUS
  <2>2. g = [i \in 1..n |-> F(g, i)]
    BY <1>2, <2>1
  <2>3. FlattenSeq(ss) = g[n]
    BY <1>4, <2>1 DEF FlattenSeq
  <2>4. \A i \in 1..n : g[i] = F(g, i)
    BY <2>2
  <2> QED
    BY <1>4, <2>3, <2>4
<1> QED
  BY <1>3, <1>4

\* Parts of the notifications one after the other: W[k] is the view after k parts.
LEMMA AppliesFlatten ==
    ASSUME NEW ss, Sequence(ss), NEW W, \A k \in 1..Len(ss) : Applies(W[k - 1], ss[k], W[k])
    PROVE  Applies(W[0], FlattenSeq(ss), W[Len(ss)])
<1> DEFINE n == Len(ss)
<1>1. n \in Nat
  BY SequenceFacts
<1>2. CASE n = 0
  <2>1. FlattenSeq(ss) = <<>>
    BY <1>2, FlattenFacts
  <2> QED
    BY <1>2, <2>1, AppliesNone
<1>3. CASE n # 0
  <2>4. PICK g : /\ \A i \in 1..n : g[i] = IF i = 1 THEN ss[i] ELSE g[i - 1] \o ss[i]
                 /\ FlattenSeq(ss) = g[n]
    BY <1>3, FlattenFacts
  <2> DEFINE D == {i \in 1..n : ~Applies(W[0], g[i], W[i])}
  <2>6. ASSUME D # {}
        PROVE  FALSE
    <3>0. D \in SUBSET Nat
      BY <1>1
    <3>1. PICK i \in D : \A y \in D : i <= y
      BY <2>6, <3>0, MinFacts
    <3>2. i \in 1..n /\ ~Applies(W[0], g[i], W[i])
      OBVIOUS
    <3>3. i # 1
      <4>1. g[1] = ss[1] /\ Applies(W[1 - 1], ss[1], W[1]) /\ 1 - 1 = 0
        BY <1>1, <2>4, <3>2
      <4> QED
        BY <3>2, <4>1
    <3>4. i - 1 \in 1..n /\ ~(i <= i - 1)
      BY <1>1, <3>2, <3>3
    <3>5. Applies(W[0], g[i - 1], W[i - 1])
      <4>1. i - 1 \notin D
        <5> HIDE DEF D
        <5> QED
          BY <3>1, <3>4
      <4> QED
        BY <3>4, <4>1
    <3>6. g[i] = g[i - 1] \o ss[i] /\ Applies(W[i - 1], ss[i], W[i])
      BY <2>4, <3>2, <3>3
    <3> QED
      BY <3>2, <3>5, <3>6, AppliesConcat
  <2>7. n \in 1..n
    BY <1>1, <1>3
  <2> QED
    BY <2>4, <2>6, <2>7
<1> QED
  BY <1>2, <1>3

\* The parts have the elements of the whole.
LEMMA FlattenIn ==
    ASSUME NEW N, NEW ss, Sequence(ss), \A k \in DOMAIN ss : ss[k] \in Seq(N)
    PROVE  FlattenSeq(ss) \in Seq(N)
<1> DEFINE n == Len(ss)
<1>1. n \in Nat /\ DOMAIN ss = 1..n
  BY SequenceFacts
<1>2. CASE n = 0
  <2>1. FlattenSeq(ss) = <<>>
    BY <1>2, FlattenFacts
  <2> QED
    BY <2>1
<1>3. CASE n # 0
  <2>1. PICK g : /\ \A i \in 1..n : g[i] = IF i = 1 THEN ss[i] ELSE g[i - 1] \o ss[i]
                 /\ FlattenSeq(ss) = g[n]
    BY <1>3, FlattenFacts
  <2> DEFINE D == {i \in 1..n : g[i] \notin Seq(N)}
  <2>2. ASSUME D # {}
        PROVE  FALSE
    <3>0. D \in SUBSET Nat
      BY <1>1
    <3>1. PICK i \in D : \A y \in D : i <= y
      BY <2>2, <3>0, MinFacts
    <3>2. i \in 1..n /\ g[i] \notin Seq(N)
      OBVIOUS
    <3>3. i # 1
      BY <1>1, <2>1, <3>2
    <3>4. i - 1 \in 1..n /\ ~(i <= i - 1)
      BY <1>1, <3>2, <3>3
    <3>5. g[i - 1] \in Seq(N)
      <4>1. i - 1 \notin D
        <5> HIDE DEF D
        <5> QED
          BY <3>1, <3>4
      <4> QED
        BY <3>4, <4>1
    <3>6. g[i] = g[i - 1] \o ss[i] /\ ss[i] \in Seq(N)
      BY <1>1, <2>1, <3>2, <3>3
    <3>7. \A a, b \in Seq(N) : a \o b \in Seq(N)
      OBVIOUS
    <3> QED
      BY <3>2, <3>5, <3>6, <3>7
  <2>3. n \in 1..n
    BY <1>1, <1>3
  <2> QED
    BY <2>1, <2>2, <2>3
<1> QED
  BY <1>2, <1>3

\* Views stay in a set that no notification leads out of.
LEMMA FollowIn ==
    ASSUME NEW T, NEW N, NEW v \in T, NEW notes \in Seq(N),
           \A w \in T : \A note \in N : processCommand(w, note) \in T
    PROVE  Follow(v, notes) \in T
<1> DEFINE n == Len(notes)
<1>1. Sequence(notes) /\ n \in Nat /\ \A k \in 1..n : notes[k] \in N
  BY SequenceOf
<1>2. PICK f : Course(f, v, notes) /\ Follow(v, notes) = f[n]
  BY <1>1, FollowIsCourse
<1>3. \A k \in 0..n : f[k] = IF k = 0 THEN v ELSE processCommand(f[k - 1], notes[k])
  <2>1. f = [k \in 0..n |-> IF k = 0 THEN v ELSE processCommand(f[k - 1], notes[k])]
    BY <1>2 DEF Course
  <2> QED
    BY <2>1
<1> DEFINE D == {k \in 0..n : f[k] \notin T}
<1>4. ASSUME D # {}
      PROVE  FALSE
  <2>0. D \in SUBSET Nat
    BY <1>1
  <2>1. PICK k \in D : \A y \in D : k <= y
    BY <1>4, <2>0, MinFacts
  <2>2. k \in 0..n /\ f[k] \notin T
    OBVIOUS
  <2>3. k # 0
    BY <1>3, <2>2
  <2>4. k - 1 \in 0..n /\ k \in 1..n /\ ~(k <= k - 1)
    BY <1>1, <2>2, <2>3
  <2>5. f[k - 1] \in T
    <3>1. k - 1 \notin D
      <4> HIDE DEF D
      <4> QED
        BY <2>1, <2>4
    <3> QED
      BY <2>4, <3>1
  <2>6. f[k] = processCommand(f[k - 1], notes[k]) /\ notes[k] \in N
    BY <1>1, <1>3, <2>2, <2>3, <2>4
  <2> QED
    BY <2>2, <2>5, <2>6
<1>5. n \in 0..n
  BY <1>1
<1> QED
  BY <1>2, <1>4, <1>5
=============================================================================
