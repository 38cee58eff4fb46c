----------------------------- MODULE QueueProof -----------------------------
(***************************************************************************)
(* What insertion at the tail and removal do to a list without duplicates. *)
(***************************************************************************)
EXTENDS Queue, FiniteSetTheorems, TLAPS

\* The sizes of the sets up[x] number the elements of S.
Numbers(up, S) ==
  /\ Cardinality(S) \in Nat
  /\ \A x \in S : Cardinality(up[x]) \in 1..Cardinality(S)
  /\ \A x, y \in S : Cardinality(up[x]) = Cardinality(up[y]) => x = y
  /\ \A k \in 1..Cardinality(S) : \E x \in S : Cardinality(up[x]) = k

\* They do so if x is in up[x] and the sets form a chain.
LEMMA Numbering ==
  ASSUME NEW S, IsFiniteSet(S), NEW up \in [S -> SUBSET S],
         \A x \in S : x \in up[x],
         \A x, y \in S : x # y => \/ up[x] \subseteq up[y] /\ y \notin up[x]
                                  \/ up[y] \subseteq up[x] /\ x \notin up[y]
  PROVE  Numbers(up, S)
<1> DEFINE rank == [x \in S |-> Cardinality(up[x])]
           N == Cardinality(S)
<1>1. N \in Nat
  BY FS_CardinalityType
<1>2. ASSUME NEW x \in S
      PROVE  IsFiniteSet(up[x]) /\ Cardinality(up[x]) \in 1..N
  <2>1. up[x] \in SUBSET S /\ up[x] # {}
    OBVIOUS
  <2>2. IsFiniteSet(up[x]) /\ Cardinality(up[x]) <= N
    BY <2>1, FS_Subset
  <2>3. Cardinality(up[x]) \in Nat /\ Cardinality(up[x]) # 0
    BY <2>1, <2>2, FS_CardinalityType, FS_EmptySet
  <2> HIDE DEF N
  <2> QED BY <1>1, <2>2, <2>3
<1>3. ASSUME NEW x \in S, NEW y \in S, up[x] \subseteq up[y], y \notin up[x]
      PROVE  Cardinality(up[x]) # Cardinality(up[y])
  <2>1. IsFiniteSet(up[y]) /\ up[x] \in SUBSET up[y] /\ up[x] # up[y]
    BY <1>2, <1>3
  <2> QED BY <2>1, FS_Subset
<1>4. \A x, y \in S : Cardinality(up[x]) = Cardinality(up[y]) => x = y
  BY <1>3
<1> HIDE DEF N
<1>5. rank \in Injection(S, 1..N)
  <2>1. rank \in [S -> 1..N]
    BY <1>2
  <2>2. IsInjective(rank)
    BY <1>4 DEF IsInjective
  <2> QED BY <2>1, <2>2 DEF Injection
<1>6. IsFiniteSet(1..N) /\ Cardinality(1..N) = N
  BY <1>1, FS_Interval
<1>7. rank \in Surjection(S, 1..N)
  BY <1>5, <1>6, FS_Injection DEF N
<1>8. \A k \in 1..N : \E x \in S : Cardinality(up[x]) = k
  BY <1>7 DEF Surjection
<1> QED BY <1>1, <1>2, <1>4, <1>8 DEF Numbers, N

\* The elements of a finite set of numbers are numbered by their ranks.
LEMMA Ranks ==
  ASSUME NEW n \in Nat, NEW I \in SUBSET (1..n)
  PROVE  /\ IsFiniteSet(I) /\ Cardinality(I) \in Nat
         /\ \A i \in I : Cardinality({j \in I : j <= i}) \in 1..Cardinality(I)
         /\ \A i, k \in I : Cardinality({j \in I : j <= i}) = Cardinality({j \in I : j <= k}) => i = k
         /\ \A k \in 1..Cardinality(I) : \E i \in I : Cardinality({j \in I : j <= i}) = k
<1> DEFINE up == [i \in I |-> {j \in I : j <= i}]
<1>1. IsFiniteSet(I)
  <2>1. IsFiniteSet(1..n)
    BY FS_Interval
  <2> QED BY <2>1, FS_Subset
<1>2. \A i \in I : i \in Int
  OBVIOUS
<1>3. up \in [I -> SUBSET I] /\ \A i \in I : i \in up[i]
  BY <1>2
<1>4. ASSUME NEW i \in I, NEW k \in I, i < k
      PROVE  up[i] \subseteq up[k] /\ k \notin up[i]
  <2>1. ASSUME NEW j \in I, j <= i PROVE j <= k
    BY <1>2, <1>4, <2>1
  <2>2. ~(k <= i)
    BY <1>2, <1>4
  <2> QED BY <2>1, <2>2
<1>5. \A i, k \in I : i # k => i < k \/ k < i
  BY <1>2
<1>6. \A i \in I : up[i] = {j \in I : j <= i}
  OBVIOUS
<1> HIDE DEF up
<1>7. \A i, k \in I : i # k => \/ up[i] \subseteq up[k] /\ k \notin up[i]
                               \/ up[k] \subseteq up[i] /\ i \notin up[k]
  BY <1>4, <1>5
<1>8. Numbers(up, I)
  <2>1. PICK S : S = I
    OBVIOUS
  <2>2. /\ IsFiniteSet(S) /\ up \in [S -> SUBSET S] /\ \A x \in S : x \in up[x]
        /\ \A x, y \in S : x # y => \/ up[x] \subseteq up[y] /\ y \notin up[x]
                                    \/ up[y] \subseteq up[x] /\ x \notin up[y]
    BY <1>1, <1>3, <1>7, <2>1
  <2>3. Numbers(up, S)
    BY <2>2, Numbering
  <2> QED BY <2>1, <2>3
<1> QED BY <1>1, <1>6, <1>8, ZenonT(40) DEF Numbers

\* Removal keeps a list a list without duplicates, and leaves the others on it.
LEMMA WithoutProperties ==
  ASSUME NEW T, NEW s \in Seq(T), NEW X
  PROVE  /\ Without(s, X) \in Seq(T)
         /\ ToSet(Without(s, X)) = ToSet(s) \ X
         /\ IsInjective(s) => IsInjective(Without(s, X))
<1> DEFINE Stay == {i \in DOMAIN s : s[i] \notin X}
           N == Cardinality(Stay)
           Rank(i) == Cardinality({j \in Stay : j <= i})
           At(k) == CHOOSE i \in Stay : Rank(i) = k
           w == [k \in 1..N |-> s[At(k)]]
<1>1. Without(s, X) = w
  BY DEF Without
<1>2. Len(s) \in Nat /\ DOMAIN s = 1..Len(s)
  OBVIOUS
<1>3. Stay \in SUBSET (1..Len(s))
  BY <1>2
<1>4. /\ N \in Nat
      /\ \A i \in Stay : Rank(i) \in 1..N
      /\ \A i, k \in Stay : Rank(i) = Rank(k) => i = k
      /\ \A k \in 1..N : \E i \in Stay : Rank(i) = k
  <2> HIDE DEF Stay
  <2> QED BY <1>2, <1>3, Ranks
<1> HIDE DEF N, Rank
<1>5. \A k \in 1..N : At(k) \in Stay /\ Rank(At(k)) = k
  <2> HIDE DEF Stay
  <2> QED BY <1>4
<1>6. \A i \in Stay : \E k \in 1..N : At(k) = i
  <2> TAKE i \in Stay
  <2> HIDE DEF Stay, At
  <2> QED BY <1>4, <1>5
<1>7. \A i \in Stay : i \in DOMAIN s /\ s[i] \in T /\ s[i] \notin X
  BY <1>2
<1>8. \A i \in DOMAIN s : s[i] \notin X => i \in Stay
  OBVIOUS
<1> HIDE DEF At, Stay
<1>9. w \in Seq(T) /\ DOMAIN w = 1..N
  BY <1>4, <1>5, <1>7
<1>10. ToSet(w) = ToSet(s) \ X
  BY <1>5, <1>6, <1>7, <1>8, <1>9 DEF ToSet
<1>11. IsInjective(s) => IsInjective(w)
  BY <1>5, <1>7, <1>9 DEF IsInjective
<1> QED BY <1>1, <1>9, <1>10, <1>11

\* Insertion at the tail of what is not on the list.
LEMMA AppendOnce ==
  ASSUME NEW T, NEW s \in Seq(T), NEW x \in T
  PROVE  /\ Append(s, x) \in Seq(T)
         /\ ToSet(Append(s, x)) = ToSet(s) \cup {x}
         /\ IsInjective(s) /\ x \notin ToSet(s) => IsInjective(Append(s, x))
<1> DEFINE a == Append(s, x)
<1>1. /\ a \in Seq(T) /\ DOMAIN a = 1..(Len(s) + 1) /\ Len(s) \in Nat /\ DOMAIN s = 1..Len(s)
      /\ \A i \in 1..Len(s) : a[i] = s[i]
      /\ a[Len(s) + 1] = x
  OBVIOUS
<1>2. \A i \in DOMAIN a : i \in DOMAIN s \/ i = Len(s) + 1
  BY <1>1
<1>3. Len(s) + 1 \in DOMAIN a /\ Len(s) + 1 \notin DOMAIN s /\ DOMAIN s \subseteq DOMAIN a
  BY <1>1
<1>4. \A i \in DOMAIN s : a[i] = s[i]
  BY <1>1
<1> HIDE DEF a
<1>5. ToSet(a) = ToSet(s) \cup {x}
  BY <1>1, <1>2, <1>3, <1>4 DEF ToSet
<1>6. IsInjective(s) /\ x \notin ToSet(s) => IsInjective(a)
  BY <1>1, <1>2, <1>3, <1>4 DEF ToSet, IsInjective
<1> QED BY <1>1, <1>5, <1>6 DEF a

\* Removal of the head.
LEMMA TailOnce ==
  ASSUME NEW T, NEW s \in Seq(T), s # <<>>, IsInjective(s)
  PROVE  /\ Head(s) \in T /\ Head(s) \in ToSet(s)
         /\ Tail(s) \in Seq(T)
         /\ ToSet(Tail(s)) = ToSet(s) \ {Head(s)}
         /\ IsInjective(Tail(s))
<1> DEFINE a == Tail(s)
<1>1. /\ a \in Seq(T) /\ DOMAIN a = 1..(Len(s) - 1) /\ Len(s) \in Nat \ {0}
      /\ DOMAIN s = 1..Len(s)
      /\ \A i \in 1..(Len(s) - 1) : a[i] = s[i + 1]
      /\ Head(s) = s[1] /\ s[1] \in T
  OBVIOUS
<1> HIDE DEF a
<1>2. \A i \in DOMAIN a : i + 1 \in DOMAIN s /\ a[i] = s[i + 1] /\ i + 1 # 1 /\ i \in Int
  BY <1>1
<1>3. \A i \in DOMAIN s : i # 1 => i - 1 \in DOMAIN a /\ a[i - 1] = s[i]
  BY <1>1
<1>4. 1 \in DOMAIN s
  BY <1>1
<1>5. ToSet(a) = ToSet(s) \ {s[1]}
  BY <1>2, <1>3, <1>4 DEF ToSet, IsInjective
<1>6. IsInjective(a)
  <2> SUFFICES ASSUME NEW i \in DOMAIN a, NEW k \in DOMAIN a, a[i] = a[k] PROVE i = k
    BY DEF IsInjective
  <2>1. i + 1 = k + 1
    BY <1>2 DEF IsInjective
  <2> QED BY <1>2, <2>1
<1>7. s[1] \in ToSet(s)
  BY <1>4 DEF ToSet
<1> QED BY <1>1, <1>5, <1>6, <1>7 DEF a

\* w is made of the lists q[0], ..., q[n - 1] one after another: w[k] is the
\* element col[k] of the list row[k], in this order, and each is there.
PlacedBy(w, q, n, row, col) ==
  /\ row \in [DOMAIN w -> 0..(n - 1)] /\ col \in [DOMAIN w -> Nat]
  /\ \A k \in DOMAIN w : col[k] \in DOMAIN q[row[k]] /\ w[k] = q[row[k]][col[k]]
  /\ \A k, l \in DOMAIN w : k < l => row[k] < row[l] \/ (row[k] = row[l] /\ col[k] < col[l])
  /\ \A b \in 0..(n - 1) : \A i \in DOMAIN q[b] : \E k \in DOMAIN w : row[k] = b /\ col[k] = i

\* Joined() puts the lists one after another.
LEMMA JoinedPlaces ==
  ASSUME NEW T, NEW n \in Nat, NEW q, \A b \in 0..(n - 1) : q[b] \in Seq(T)
  PROVE  /\ Joined(q, n) \in Seq(T)
         /\ \E row, col : PlacedBy(Joined(q, n), q, n, row, col)
<1> DEFINE B == 0..(n - 1)
           Row == [b \in B |-> {b} \X DOMAIN q[b]]
           Places == UNION {{b} \X DOMAIN q[b] : b \in B}
           Upto(p) == {r \in Places : r[1] < p[1] \/ (r[1] = p[1] /\ r[2] <= p[2])}
           N == Cardinality(Places)
           At(k) == CHOOSE p \in Places : Cardinality(Upto(p)) = k
           w == [k \in 1..N |-> q[At(k)[1]][At(k)[2]]]
           up == [p \in Places |-> Upto(p)]
<1>1. Joined(q, n) = w
  BY DEF Joined
<1>2. \A b \in B : Len(q[b]) \in Nat /\ DOMAIN q[b] = 1..Len(q[b]) /\ \A i \in DOMAIN q[b] : q[b][i] \in T
  OBVIOUS
<1>3. IsFiniteSet(Places)
  <2>1. ASSUME NEW b \in B PROVE IsFiniteSet({b} \X DOMAIN q[b])
    <3>1. IsFiniteSet(1..Len(q[b]))
      BY <1>2, FS_Interval
    <3>2. IsFiniteSet({b}) /\ IsFiniteSet(DOMAIN q[b])
      BY <1>2, <3>1, FS_Singleton
    <3> QED BY <3>2, FS_Product
  <2>2. IsFiniteSet(B)
    BY FS_Interval
  <2> DEFINE Rows == {{b} \X DOMAIN q[b] : b \in B}
  <2>3. Row \in Surjection(B, Rows)
    BY DEF Surjection
  <2>4. IsFiniteSet(Rows)
    BY <2>2, <2>3, FS_Surjection
  <2>5. \A R \in Rows : IsFiniteSet(R)
    BY <2>1
  <2> HIDE DEF Rows
  <2>6. IsFiniteSet(UNION Rows)
    BY <2>4, <2>5, FS_UNION
  <2> QED BY <2>6 DEF Rows
<1>4. \A p : p \in Places <=> \E b \in B : \E i \in DOMAIN q[b] : p = <<b, i>>
  OBVIOUS
<1>5. \A p \in Places : /\ p[1] \in B /\ p[2] \in DOMAIN q[p[1]] /\ p = <<p[1], p[2]>>
                        /\ p[1] \in Int /\ p[2] \in Int
  BY <1>2, <1>4
<1> HIDE DEF Places
<1>6. up \in [Places -> SUBSET Places] /\ \A p \in Places : p \in up[p] /\ up[p] = Upto(p)
  BY <1>5
<1>7. ASSUME NEW p \in Places, NEW r \in Places, p[1] < r[1] \/ (p[1] = r[1] /\ p[2] < r[2])
      PROVE  up[p] \subseteq up[r] /\ r \notin up[p]
  <2>1. ASSUME NEW x \in Places, x[1] < p[1] \/ (x[1] = p[1] /\ x[2] <= p[2])
        PROVE  x[1] < r[1] \/ (x[1] = r[1] /\ x[2] <= r[2])
    BY <1>5, <1>7, <2>1
  <2>2. ~ (r[1] < p[1] \/ (r[1] = p[1] /\ r[2] <= p[2]))
    BY <1>5, <1>7
  <2> QED BY <2>1, <2>2
<1>8. ASSUME NEW p \in Places, NEW r \in Places, p # r
      PROVE  \/ p[1] < r[1] \/ (p[1] = r[1] /\ p[2] < r[2])
             \/ r[1] < p[1] \/ (r[1] = p[1] /\ r[2] < p[2])
  BY <1>5, <1>8
<1> HIDE DEF up, Upto, N
<1>9. \A p, r \in Places : p # r => \/ up[p] \subseteq up[r] /\ r \notin up[p]
                                    \/ up[r] \subseteq up[p] /\ p \notin up[r]
  BY <1>7, <1>8
<1>10. /\ N \in Nat
       /\ \A p \in Places : Cardinality(up[p]) \in 1..N
       /\ \A p, r \in Places : Cardinality(up[p]) = Cardinality(up[r]) => p = r
       /\ \A k \in 1..N : \E p \in Places : Cardinality(up[p]) = k
  <2>1. Numbers(up, Places)
    BY <1>3, <1>6, <1>9, Numbering
  <2> QED BY <2>1 DEF Numbers, N
<1>11. \A k \in 1..N : At(k) \in Places /\ Cardinality(Upto(At(k))) = k
  BY <1>6, <1>10
<1> HIDE DEF At
<1>12. \A p \in Places : \E k \in 1..N : At(k) = p
  BY <1>6, <1>10, <1>11
<1>13. w \in Seq(T) /\ DOMAIN w = 1..N /\ \A k \in 1..N : w[k] = q[At(k)[1]][At(k)[2]]
  <2>1. \A k \in 1..N : q[At(k)[1]][At(k)[2]] \in T
    BY <1>2, <1>5, <1>11
  <2> QED BY <1>10, <2>1
<1> HIDE DEF w
<1>14. ASSUME NEW k \in 1..N, NEW l \in 1..N, k < l
       PROVE  \/ At(k)[1] < At(l)[1]
              \/ At(k)[1] = At(l)[1] /\ At(k)[2] < At(l)[2]
  <2>1. PICK p \in Places, r \in Places : p = At(k) /\ r = At(l)
    BY <1>11
  <2>2. Cardinality(up[p]) = k /\ Cardinality(up[r]) = l
    BY <1>6, <1>11, <2>1
  <2>3. p # r
    BY <1>14, <2>2
  <2>4. ~ (r[1] < p[1] \/ (r[1] = p[1] /\ r[2] < p[2]))
    <3> SUFFICES ASSUME r[1] < p[1] \/ (r[1] = p[1] /\ r[2] < p[2]) PROVE FALSE
      OBVIOUS
    <3>1. up[r] \in SUBSET up[p]
      BY <1>7
    <3>2. up[p] \in SUBSET Places
      BY <1>6
    <3>3. IsFiniteSet(up[p])
      BY <1>3, <3>2, FS_Subset
    <3>4. Cardinality(up[r]) <= Cardinality(up[p])
      BY <3>1, <3>3, FS_Subset
    <3> QED BY <1>14, <2>2, <3>4
  <2> QED BY <1>8, <2>1, <2>3, <2>4
<1>15. \A p \in Places : p[2] \in Nat
  BY <1>2, <1>5
<1> DEFINE row == [k \in DOMAIN w |-> At(k)[1]]
           col == [k \in DOMAIN w |-> At(k)[2]]
<1>16. row \in [DOMAIN w -> B] /\ col \in [DOMAIN w -> Nat]
  BY <1>5, <1>11, <1>13, <1>15
<1>17. \A k \in DOMAIN w : col[k] \in DOMAIN q[row[k]] /\ w[k] = q[row[k]][col[k]]
  BY <1>5, <1>11, <1>13
<1>18. \A k, l \in DOMAIN w : k < l => row[k] < row[l] \/ (row[k] = row[l] /\ col[k] < col[l])
  BY <1>13, <1>14
<1>19. \A b \in B : \A i \in DOMAIN q[b] : \E k \in DOMAIN w : row[k] = b /\ col[k] = i
  <2> SUFFICES ASSUME NEW b \in B, NEW i \in DOMAIN q[b]
               PROVE  \E k \in DOMAIN w : row[k] = b /\ col[k] = i
    OBVIOUS
  <2>1. PICK p \in Places : p = <<b, i>>
    BY <1>4
  <2>2. PICK k \in 1..N : At(k) = p
    BY <1>12
  <2> QED BY <1>13, <2>1, <2>2
<1>20. PlacedBy(w, q, n, row, col)
  BY <1>16, <1>17, <1>18, <1>19 DEF PlacedBy
<1> QED BY <1>1, <1>13, <1>20

\* Lists one after another have the elements of all of them, and none twice if
\* no two of them do.
LEMMA JoinedProperties ==
  ASSUME NEW T, NEW n \in Nat, NEW q, \A b \in 0..(n - 1) : q[b] \in Seq(T)
  PROVE  /\ Joined(q, n) \in Seq(T)
         /\ \A t : t \in ToSet(Joined(q, n)) <=> \E b \in 0..(n - 1) : t \in ToSet(q[b])
         /\ (\A b \in 0..(n - 1) : IsInjective(q[b]))
            /\ (\A a, b \in 0..(n - 1) : a # b => ToSet(q[a]) \cap ToSet(q[b]) = {})
              => IsInjective(Joined(q, n))
<1> DEFINE B == 0..(n - 1)
           w == Joined(q, n)
<1>1. w \in Seq(T)
  BY JoinedPlaces
<1>2. PICK row, col : PlacedBy(w, q, n, row, col)
  BY JoinedPlaces
<1>3. DOMAIN w = 1..Len(w) /\ Len(w) \in Nat
  BY <1>1
<1>4. \A k \in DOMAIN w : row[k] \in B /\ col[k] \in DOMAIN q[row[k]] /\ w[k] = q[row[k]][col[k]]
  BY <1>2 DEF PlacedBy
<1>5. \A k, l \in DOMAIN w : row[k] = row[l] /\ col[k] = col[l] => k = l
  <2> SUFFICES ASSUME NEW k \in DOMAIN w, NEW l \in DOMAIN w, row[k] = row[l], col[k] = col[l], k # l
               PROVE  FALSE
    OBVIOUS
  <2>1. k < l \/ l < k
    BY <1>3
  <2>2. row[k] \in Int /\ row[l] \in Int /\ col[k] \in Int /\ col[l] \in Int
    BY <1>2 DEF PlacedBy
  <2> HIDE DEF w
  <2> QED BY <1>2, <2>1, <2>2 DEF PlacedBy
<1>6. \A b \in B : \A i \in DOMAIN q[b] : \E k \in DOMAIN w : row[k] = b /\ col[k] = i
  BY <1>2 DEF PlacedBy
<1> HIDE DEF w
<1>7. ASSUME NEW t
      PROVE  t \in ToSet(w) <=> \E b \in B : t \in ToSet(q[b])
  <2>1. ASSUME t \in ToSet(w) PROVE \E b \in B : t \in ToSet(q[b])
    <3>1. PICK k \in DOMAIN w : t = w[k]
      BY <2>1 DEF ToSet
    <3> QED BY <1>4, <3>1 DEF ToSet
  <2>2. ASSUME NEW b \in B, t \in ToSet(q[b]) PROVE t \in ToSet(w)
    <3>1. PICK i \in DOMAIN q[b] : t = q[b][i]
      BY <2>2 DEF ToSet
    <3>2. PICK k \in DOMAIN w : row[k] = b /\ col[k] = i
      BY <1>6
    <3>3. w[k] = t
      BY <1>4, <3>1, <3>2
    <3> QED BY <3>3 DEF ToSet
  <2> QED BY <2>1, <2>2
<1>8. ASSUME \A b \in B : IsInjective(q[b]),
             \A a, b \in B : a # b => ToSet(q[a]) \cap ToSet(q[b]) = {}
      PROVE  IsInjective(w)
  <2> SUFFICES ASSUME NEW k \in DOMAIN w, NEW l \in DOMAIN w, w[k] = w[l] PROVE k = l
    BY DEF IsInjective
  <2>1. q[row[k]][col[k]] = q[row[l]][col[l]]
    BY <1>4
  <2>2. row[k] = row[l]
    <3>1. q[row[k]][col[k]] \in ToSet(q[row[k]]) /\ q[row[l]][col[l]] \in ToSet(q[row[l]])
      BY <1>4 DEF ToSet
    <3> QED BY <1>4, <1>8, <2>1, <3>1
  <2>3. col[k] = col[l]
    BY <1>4, <1>8, <2>1, <2>2 DEF IsInjective
  <2> QED BY <1>5, <2>2, <2>3
<1> QED BY <1>1, <1>7, <1>8 DEF w
=============================================================================
