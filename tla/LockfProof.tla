----------------------------- MODULE LockfProof -----------------------------
(***************************************************************************)
(* Proofs about Lockf, for any set of threads, any requests and any limit. *)
(***************************************************************************)
EXTENDS Lockf, QueueProof

\* Short sequences.
LEMMA One ==
  ASSUME NEW S, NEW x \in S
  PROVE  <<x>> \in Seq(S) /\ DOMAIN <<x>> = {1} /\ <<x>>[1] = x
OBVIOUS

LEMMA Two ==
  ASSUME NEW S, NEW x \in S, NEW y \in S, NEW P, P = <<x>> \o <<y>>
  PROVE  P \in Seq(S) /\ DOMAIN P = {1, 2} /\ P[1] = x /\ P[2] = y
<1>1. <<x>> \in Seq(S) /\ <<y>> \in Seq(S) /\ Len(<<x>>) = 1 /\ Len(<<y>>) = 1
  OBVIOUS
<1>2. P \in Seq(S) /\ Len(P) = 2 /\ P[1] = x /\ P[2] = y
  BY <1>1
<1>3. DOMAIN P = 1 .. 2
  BY <1>2
<1> QED BY <1>2, <1>3

LEMMA Three ==
  ASSUME NEW S, NEW x \in S, NEW y \in S, NEW z \in S, NEW P, P = (<<x>> \o <<y>>) \o <<z>>
  PROVE  P \in Seq(S) /\ DOMAIN P = {1, 2, 3} /\ P[1] = x /\ P[2] = y /\ P[3] = z
<1>1. <<x>> \in Seq(S) /\ <<y>> \in Seq(S) /\ <<z>> \in Seq(S)
      /\ Len(<<x>>) = 1 /\ Len(<<y>>) = 1 /\ Len(<<z>>) = 1
  OBVIOUS
<1>2. PICK Q : Q = <<x>> \o <<y>>
  OBVIOUS
<1>3. Q \in Seq(S) /\ Len(Q) = 2 /\ Q[1] = x /\ Q[2] = y
  BY ONLY <1>1, <1>2
<1>4. P = Q \o <<z>>
  BY <1>2
<1>5. P \in Seq(S) /\ Len(P) = 3 /\ P[1] = x /\ P[2] = y /\ P[3] = z
  BY <1>1, <1>3, <1>4
<1>6. DOMAIN P = 1 .. 3 /\ 1 .. 3 = {1, 2, 3}
  BY <1>5
<1> QED BY <1>5, <1>6

\* List b of a row of lists is for lock b + 1.
LEMMA RowOfLock ==
  ASSUME NEW S, NEW s \in Seq(S), NEW b
  PROVE  /\ b \in 0 .. (Len(s) - 1) <=> b \in 0 .. Len(s) /\ b # Len(s)
         /\ b \in 0 .. (Len(s) - 1) => b + 1 \in DOMAIN s
<1>1. PICK n \in Nat : n = Len(s) /\ DOMAIN s = 1 .. n
  OBVIOUS
<1> QED BY <1>1

\* A set of numbers has a least one.
LEMMA LeastNat ==
  ASSUME NEW S, S \subseteq Nat, S # {}
  PROVE  \E i \in S : \A j \in S : i <= j
<1>1. PICK i \in S : \A j \in S : ~ (<<j, i>> \in OpToRel(<, Nat))
  BY NatLessThanWellFounded, WFMin
<1>2. ASSUME NEW j \in S
      PROVE  ~ (j < i)
  BY <1>1 DEF OpToRel
<1>3. \A j \in S : i <= j
  BY <1>2
<1> QED BY <1>3

-----------------------------------------------------------------------------
(* Ranges. *)

\* A lock of the list, or a request made into one.
Lock == [id : Owners, type : {"F_RDLCK", "F_WRLCK"}, start : Nat, end : Nat \cup {EOF_},
         blk : SUBSET Threads]

\* Its range is not empty.
Proper(f) == f \in Lock /\ (f.end = EOF_ \/ f.start <= f.end)

\* Byte b is in the range of f.
Covers(f, b) == f.start <= b /\ (f.end = EOF_ \/ b <= f.end)

\* All of f is before g.
Before(f, g) == f.end # EOF_ /\ f.end < g.start

\* The parts of f in front of lock and behind it.
FrontOf(f, lock) == [id |-> f.id, type |-> f.type, start |-> f.start, end |-> lock.start - 1, blk |-> {}]
BackOf(f, lock) == [id |-> f.id, type |-> f.type, start |-> lock.end + 1, end |-> f.end, blk |-> {}]

\* f goes on in front of lock, or behind it.
Sticks(f, lock) == f.start < lock.start
Goeson(f, lock) == lock.end # EOF_ /\ (f.end = EOF_ \/ f.end > lock.end)

\* Two ranges that overlap are not one before the other.
LEMMA OverlapOrBefore ==
  ASSUME NEW f, NEW lock, Proper(f), Proper(lock)
  PROVE  /\ Overlap(f, lock) <=> ~ Before(f, lock) /\ ~ Before(lock, f)
         /\ beyond(f, lock) <=> Before(lock, f)
<1>1. /\ f.start \in Nat /\ f.end \in Nat \cup {-1} /\ lock.start \in Nat /\ lock.end \in Nat \cup {-1}
      /\ f.end = -1 \/ f.start <= f.end
      /\ lock.end = -1 \/ lock.start <= lock.end
  BY DEF Proper, Lock, EOF_
<1> QED BY <1>1 DEF Overlap, reaches, beyond, Before, EOF_

\* The cases of lf_findoverlap() by what sticks out of the range.
LEMMA CasesOfOverlap ==
  ASSUME NEW f, NEW lock, Proper(f), Proper(lock), Overlap(f, lock)
  PROVE  /\ ovcase(f, lock) \in 1 .. 5
         /\ ovcase(f, lock) = 1 <=> f.start = lock.start /\ f.end = lock.end
         /\ ovcase(f, lock) = 2 => /\ (f.start = lock.start /\ Goeson(f, lock)) \/ Sticks(f, lock)
                                   /\ f.end = lock.end \/ Goeson(f, lock)
         /\ ovcase(f, lock) = 3 => ~ Sticks(f, lock) /\ ~ Goeson(f, lock)
         /\ ovcase(f, lock) = 4 => Sticks(f, lock) /\ ~ Goeson(f, lock) /\ f.end # lock.end
         /\ ovcase(f, lock) = 5 => ~ Sticks(f, lock) /\ Goeson(f, lock) /\ f.start # lock.start
<1>1. /\ f.start \in Nat /\ f.end \in Nat \cup {-1} /\ lock.start \in Nat /\ lock.end \in Nat \cup {-1}
      /\ f.end = -1 \/ f.start <= f.end
      /\ lock.end = -1 \/ lock.start <= lock.end
  BY DEF Proper, Lock, EOF_
<1> QED BY <1>1 DEF Overlap, reaches, ovcase, Sticks, Goeson, EOF_

\* What lf_split() makes of a lock that is woken.
LEMMA SplitParts ==
  ASSUME NEW f, NEW lock, Proper(f), Proper(lock)
  PROVE  /\ left(wake(f), lock) = IF f.start = lock.start THEN << >> ELSE <<FrontOf(f, lock)>>
         /\ right(wake(f), lock) = IF f.end = lock.end THEN << >> ELSE <<BackOf(f, lock)>>
<1>1. f \in Lock
  BY DEF Proper
<1>2. wake(f) = [id |-> f.id, type |-> f.type, start |-> f.start, end |-> f.end, blk |-> {}]
  BY <1>1 DEF wake, Lock
<1>3. /\ wake(f).start = f.start /\ wake(f).end = f.end
      /\ [wake(f) EXCEPT !.end = lock.start - 1] = FrontOf(f, lock)
      /\ [wake(f) EXCEPT !.start = lock.end + 1] = BackOf(f, lock)
  BY <1>2 DEF FrontOf, BackOf
<1> QED BY <1>3 DEF left, right

\* What is left of f on either side of lock.
InFront(f, lock) == IF Sticks(f, lock) THEN <<FrontOf(f, lock)>> ELSE << >>
Behind(f, lock) == IF Goeson(f, lock) THEN <<BackOf(f, lock)>> ELSE << >>

\* What lf_clearlock() leaves of one lock: what sticks out on either side.
LEMMA ClearOneParts ==
  ASSUME NEW f, NEW lock, Proper(f), Proper(lock)
  PROVE  ClearOne(f, lock) =
           IF Overlap(f, lock) THEN InFront(f, lock) \o Behind(f, lock) ELSE <<f>>
<1>1. CASE ~ Overlap(f, lock)
  BY <1>1 DEF ClearOne
<1>2. CASE Overlap(f, lock)
  <2> DEFINE c == ovcase(f, lock)
             F == <<FrontOf(f, lock)>>
             G == <<BackOf(f, lock)>>
  <2>1. /\ c \in 1 .. 5
        /\ c = 1 <=> f.start = lock.start /\ f.end = lock.end
        /\ c = 2 => /\ (f.start = lock.start /\ Goeson(f, lock)) \/ Sticks(f, lock)
                    /\ f.end = lock.end \/ Goeson(f, lock)
        /\ c = 3 => ~ Sticks(f, lock) /\ ~ Goeson(f, lock)
        /\ c = 4 => Sticks(f, lock) /\ ~ Goeson(f, lock) /\ f.end # lock.end
        /\ c = 5 => ~ Sticks(f, lock) /\ Goeson(f, lock) /\ f.start # lock.start
    BY <1>2, CasesOfOverlap
  <2>2. /\ Sticks(f, lock) => f.start # lock.start
        /\ Goeson(f, lock) => f.end # lock.end
        /\ f.start = lock.start /\ f.end = lock.end => ~ Sticks(f, lock) /\ ~ Goeson(f, lock)
    <3>1. /\ f.start \in Nat /\ f.end \in Nat \cup {-1} /\ lock.start \in Nat /\ lock.end \in Nat \cup {-1}
      BY DEF Proper, Lock, EOF_
    <3> QED BY <3>1 DEF Sticks, Goeson, EOF_
  <2>3. ClearOne(f, lock) = CASE c \in {1, 3} -> << >>
                              [] c = 2 -> left(wake(f), lock) \o right(wake(f), lock)
                              [] c = 4 -> left(wake(f), lock)
                              [] c = 5 -> right(wake(f), lock)
    BY <1>2, <2>1 DEF ClearOne
  <2>4. /\ left(wake(f), lock) = IF f.start = lock.start THEN << >> ELSE F
        /\ right(wake(f), lock) = IF f.end = lock.end THEN << >> ELSE G
    BY SplitParts
  <2>5. F \o << >> = F /\ << >> \o G = G /\ << >> \o << >> = << >>
    OBVIOUS
  <2> HIDE DEF c, F, G
  <2>6. CASE c = 1
    BY <1>2, <2>1, <2>2, <2>3, <2>5, <2>6 DEF InFront, Behind
  <2>7. CASE c = 2
    BY <1>2, <2>1, <2>2, <2>3, <2>4, <2>5, <2>7 DEF F, G, InFront, Behind
  <2>8. CASE c = 3
    BY <1>2, <2>1, <2>2, <2>3, <2>5, <2>8 DEF InFront, Behind
  <2>9. CASE c = 4
    BY <1>2, <2>1, <2>2, <2>3, <2>4, <2>5, <2>9 DEF F, G, InFront, Behind
  <2>10. CASE c = 5
    BY <1>2, <2>1, <2>2, <2>3, <2>4, <2>5, <2>10 DEF F, G, InFront, Behind
  <2> QED BY <2>1, <2>6, <2>7, <2>8, <2>9, <2>10
<1> QED BY <1>1, <1>2

\* p is in the range of f, for the same owner; it is a part of f.
Inside(p, f) ==
  /\ Proper(p) /\ p.id = f.id
  /\ f.start <= p.start /\ (f.end = EOF_ \/ (p.end # EOF_ /\ p.end <= f.end))
PartOf(p, f) == Inside(p, f) /\ p.type = f.type

\* P is what is left of f: parts of it, in order; nobody waits for a part that
\* is not all of it.
PartsOf(P, f) ==
  /\ P \in Seq(Lock)
  /\ \A m \in DOMAIN P : PartOf(P[m], f) /\ (P[m].blk = {} \/ P = <<f>>)
  /\ \A l, m \in DOMAIN P : l < m => Before(P[l], P[m])

\* FrontOf() and BackOf() are parts, on the two sides of lock.
LEMMA FrontAndBack ==
  ASSUME NEW f, NEW lock, Proper(f), Proper(lock), Overlap(f, lock)
  PROVE  /\ Sticks(f, lock) => /\ PartOf(FrontOf(f, lock), f) /\ Before(FrontOf(f, lock), lock)
                               /\ FrontOf(f, lock).blk = {}
         /\ Goeson(f, lock) => /\ PartOf(BackOf(f, lock), f) /\ Before(lock, BackOf(f, lock))
                               /\ BackOf(f, lock).blk = {}
         /\ Sticks(f, lock) /\ Goeson(f, lock) => Before(FrontOf(f, lock), BackOf(f, lock))
         /\ \A b \in Nat : /\ Sticks(f, lock) =>
                                (Covers(FrontOf(f, lock), b) <=> Covers(f, b) /\ b < lock.start)
                           /\ Goeson(f, lock) =>
                                (Covers(BackOf(f, lock), b) <=> Covers(f, b) /\ b > lock.end)
<1>1. /\ f.start \in Nat /\ f.end \in Nat \cup {-1} /\ lock.start \in Nat /\ lock.end \in Nat \cup {-1}
      /\ f.end = -1 \/ f.start <= f.end
      /\ lock.end = -1 \/ lock.start <= lock.end
      /\ f.id \in Owners /\ f.type \in {"F_RDLCK", "F_WRLCK"}
  BY DEF Proper, Lock, EOF_
<1>2. /\ f.end = -1 \/ lock.start <= f.end
      /\ lock.end = -1 \/ f.start <= lock.end
  BY <1>1 DEF Overlap, reaches, EOF_
<1> DEFINE F == FrontOf(f, lock)
           G == BackOf(f, lock)
<1>3. /\ F.id = f.id /\ F.type = f.type /\ F.start = f.start /\ F.end = lock.start - 1 /\ F.blk = {}
      /\ G.id = f.id /\ G.type = f.type /\ G.start = lock.end + 1 /\ G.end = f.end /\ G.blk = {}
  BY DEF FrontOf, BackOf
<1>4. Sticks(f, lock) => F \in Lock
  <2>1. Sticks(f, lock) => lock.start - 1 \in Nat
    BY <1>1 DEF Sticks
  <2> QED BY <1>1, <2>1 DEF FrontOf, Lock
<1>5. Goeson(f, lock) => G \in Lock
  <2>1. Goeson(f, lock) => lock.end + 1 \in Nat
    BY <1>1 DEF Goeson, EOF_
  <2> QED BY <1>1, <2>1 DEF BackOf, Lock, EOF_
<1> HIDE DEF F, G
<1>6. Sticks(f, lock) => PartOf(F, f) /\ Before(F, lock)
  BY <1>1, <1>2, <1>3, <1>4 DEF PartOf, Inside, Before, Proper, Sticks, EOF_
<1>7. Goeson(f, lock) => PartOf(G, f) /\ Before(lock, G)
  BY <1>1, <1>2, <1>3, <1>5 DEF PartOf, Inside, Before, Proper, Goeson, EOF_
<1>8. Sticks(f, lock) /\ Goeson(f, lock) => Before(F, G)
  BY <1>1, <1>2, <1>3 DEF Before, Sticks, Goeson, EOF_
<1>9. ASSUME NEW b \in Nat
      PROVE  /\ Sticks(f, lock) => (Covers(F, b) <=> Covers(f, b) /\ b < lock.start)
             /\ Goeson(f, lock) => (Covers(G, b) <=> Covers(f, b) /\ b > lock.end)
  BY <1>1, <1>2, <1>3 DEF Covers, Sticks, Goeson, EOF_
<1> QED BY <1>3, <1>6, <1>7, <1>8, <1>9 DEF F, G

\* lf_clearlock() leaves parts of a lock, on the two sides of the range, which
\* have all of its bytes that are outside the range.
LEMMA ClearOneLeaves ==
  ASSUME NEW f, NEW lock, Proper(f), Proper(lock), NEW P, P = ClearOne(f, lock)
  PROVE  /\ PartsOf(P, f)
         /\ \A m \in DOMAIN P : Before(P[m], lock) \/ Before(lock, P[m])
         /\ \A b \in Nat : (\E m \in DOMAIN P : Covers(P[m], b)) <=> Covers(f, b) /\ ~ Covers(lock, b)
<1> DEFINE F == FrontOf(f, lock)
           G == BackOf(f, lock)
<1>1. /\ f.start \in Nat /\ f.end \in Nat \cup {-1} /\ lock.start \in Nat /\ lock.end \in Nat \cup {-1}
      /\ f.end = -1 \/ f.start <= f.end
      /\ lock.end = -1 \/ lock.start <= lock.end
      /\ f \in Lock
  BY DEF Proper, Lock, EOF_
<1>2. CASE ~ Overlap(f, lock)
  <2>0. P = <<f>>
    BY <1>2, ClearOneParts
  <2>1. P = <<f>> /\ DOMAIN P = {1} /\ P[1] = f /\ P \in Seq(Lock)
    BY <1>1, <2>0
  <2>2. Before(f, lock) \/ Before(lock, f)
    BY <1>2, OverlapOrBefore
  <2>3. PartOf(f, f)
    BY <1>1 DEF PartOf, Inside, EOF_
  <2>4. PartsOf(P, f)
    BY <2>1, <2>3 DEF PartsOf
  <2>5. \A b \in Nat : Covers(f, b) => ~ Covers(lock, b)
    BY <1>1, <2>2 DEF Covers, Before, EOF_
  <2> QED BY <2>1, <2>2, <2>4, <2>5
<1>3. CASE Overlap(f, lock)
  <2>1. /\ Sticks(f, lock) => PartOf(F, f) /\ Before(F, lock) /\ F.blk = {}
        /\ Goeson(f, lock) => PartOf(G, f) /\ Before(lock, G) /\ G.blk = {}
        /\ Sticks(f, lock) /\ Goeson(f, lock) => Before(F, G)
        /\ \A b \in Nat : /\ Sticks(f, lock) => (Covers(F, b) <=> Covers(f, b) /\ b < lock.start)
                          /\ Goeson(f, lock) => (Covers(G, b) <=> Covers(f, b) /\ b > lock.end)
    BY <1>3, FrontAndBack
  <2>2. P = (IF Sticks(f, lock) THEN <<F>> ELSE << >>) \o (IF Goeson(f, lock) THEN <<G>> ELSE << >>)
    BY <1>3, ClearOneParts DEF InFront, Behind
  <2>3. /\ ~ Sticks(f, lock) => f.start >= lock.start
        /\ ~ Goeson(f, lock) => lock.end = -1 \/ (f.end # -1 /\ f.end <= lock.end)
        /\ Goeson(f, lock) => lock.end # -1
    BY <1>1 DEF Sticks, Goeson, EOF_
  <2> HIDE DEF F, G
  <2>4. \A b \in Nat : Covers(f, b) /\ ~ Covers(lock, b)
                         <=> \/ Sticks(f, lock) /\ Covers(F, b)
                             \/ Goeson(f, lock) /\ Covers(G, b)
    <3> SUFFICES ASSUME NEW b \in Nat
                 PROVE  Covers(f, b) /\ ~ Covers(lock, b)
                         <=> \/ Sticks(f, lock) /\ Covers(f, b) /\ b < lock.start
                             \/ Goeson(f, lock) /\ Covers(f, b) /\ b > lock.end
      BY <2>1
    <3> QED BY <1>1, <2>3 DEF Covers, EOF_
  <2>5. PartOf(F, f) => F \in Lock
    BY DEF PartOf, Inside, Proper
  <2>6. PartOf(G, f) => G \in Lock
    BY DEF PartOf, Inside, Proper
  <2>7. CASE Sticks(f, lock) /\ Goeson(f, lock)
    <3>0. P = <<F>> \o <<G>>
      BY <2>2, <2>7
    <3>1. F \in Lock /\ G \in Lock
      BY <2>1, <2>5, <2>6, <2>7
    <3>2. DOMAIN P = {1, 2} /\ P[1] = F /\ P[2] = G /\ P \in Seq(Lock)
      BY <3>0, <3>1, Two
    <3>3. PartsOf(P, f)
      BY <2>1, <2>7, <3>2 DEF PartsOf
    <3> QED BY <2>1, <2>4, <2>7, <3>2, <3>3
  <2>8. CASE Sticks(f, lock) /\ ~ Goeson(f, lock)
    <3>1. P = <<F>> /\ DOMAIN P = {1} /\ P[1] = F /\ P \in Seq(Lock)
      BY <2>1, <2>2, <2>5, <2>8
    <3>2. PartsOf(P, f)
      BY <2>1, <2>8, <3>1 DEF PartsOf
    <3> QED BY <2>1, <2>4, <2>8, <3>1, <3>2
  <2>9. CASE ~ Sticks(f, lock) /\ Goeson(f, lock)
    <3>1. P = <<G>> /\ DOMAIN P = {1} /\ P[1] = G /\ P \in Seq(Lock)
      BY <2>1, <2>2, <2>6, <2>9
    <3>2. PartsOf(P, f)
      BY <2>1, <2>9, <3>1 DEF PartsOf
    <3> QED BY <2>1, <2>4, <2>9, <3>1, <3>2
  <2>10. CASE ~ Sticks(f, lock) /\ ~ Goeson(f, lock)
    <3>1. P = << >> /\ DOMAIN P = {} /\ P \in Seq(Lock)
      BY <2>2, <2>10
    <3>2. PartsOf(P, f)
      BY <3>1 DEF PartsOf
    <3> QED BY <2>4, <2>10, <3>1, <3>2
  <2> QED BY <2>7, <2>8, <2>9, <2>10
<1> QED BY <1>2, <1>3

-----------------------------------------------------------------------------
(* Lists. *)

\* ListSound of any list, with the types it needs.
Sound(list) ==
  /\ list \in Seq(Lock)
  /\ \A i \in DOMAIN list : Proper(list[i])
  /\ \A i, j \in DOMAIN list : i < j /\ list[i].id = list[j].id => Before(list[i], list[j])

\* Owner o holds byte b in mode m.
Has(list, o, b, m) == \E i \in DOMAIN list : list[i].id = o /\ list[i].type = m /\ Covers(list[i], b)

\* Lists one after another are sound if the locks of each owner are in order.
LEMMA JoinedSound ==
  ASSUME NEW n \in Nat, NEW q,
         \A b \in 0 .. (n - 1) : q[b] \in Seq(Lock) /\ \A m \in DOMAIN q[b] : Proper(q[b][m]),
         \A b \in 0 .. (n - 1) : \A l, m \in DOMAIN q[b] :
           l < m /\ q[b][l].id = q[b][m].id => Before(q[b][l], q[b][m]),
         \A a, b \in 0 .. (n - 1) : a < b => \A l \in DOMAIN q[a], m \in DOMAIN q[b] :
           q[a][l].id = q[b][m].id => Before(q[a][l], q[b][m])
  PROVE  Sound(Joined(q, n))
<1>1. PICK w : w = Joined(q, n)
  OBVIOUS
<1>2. w \in Seq(Lock) /\ \E row, col : PlacedBy(w, q, n, row, col)
  BY <1>1, JoinedPlaces
<1>3. PICK row, col : PlacedBy(w, q, n, row, col)
  BY <1>2
<1>4. \A k \in DOMAIN w : row[k] \in 0 .. (n - 1) /\ col[k] \in DOMAIN q[row[k]] /\ w[k] = q[row[k]][col[k]]
  BY <1>3 DEF PlacedBy
<1>5. \A k, l \in DOMAIN w : k < l => row[k] < row[l] \/ (row[k] = row[l] /\ col[k] < col[l])
  BY <1>3 DEF PlacedBy
<1>6. \A k \in DOMAIN w : Proper(w[k])
  BY <1>4
<1>7. ASSUME NEW k \in DOMAIN w, NEW l \in DOMAIN w, k < l, w[k].id = w[l].id
      PROVE  Before(w[k], w[l])
  <2>1. PICK a, b, i, j : a = row[k] /\ b = row[l] /\ i = col[k] /\ j = col[l]
    OBVIOUS
  <2>2. /\ a \in 0 .. (n - 1) /\ i \in DOMAIN q[a] /\ w[k] = q[a][i]
        /\ b \in 0 .. (n - 1) /\ j \in DOMAIN q[b] /\ w[l] = q[b][j]
    BY <1>4, <2>1
  <2>3. a < b \/ (a = b /\ i < j)
    BY <1>5, <1>7, <2>1
  <2> QED BY <1>7, <2>2, <2>3
<1> QED BY <1>1, <1>2, <1>6, <1>7 DEF Sound

\* What they hold is what one of the lists holds.
LEMMA JoinedHas ==
  ASSUME NEW n \in Nat, NEW q, \A b \in 0 .. (n - 1) : q[b] \in Seq(Lock), NEW o, NEW x, NEW m
  PROVE  Has(Joined(q, n), o, x, m) <=> \E b \in 0 .. (n - 1) : Has(q[b], o, x, m)
<1>1. PICK w : w = Joined(q, n)
  OBVIOUS
<1>2. \E row, col : PlacedBy(w, q, n, row, col)
  BY <1>1, JoinedPlaces
<1>3. PICK row, col : PlacedBy(w, q, n, row, col)
  BY <1>2
<1>4. \A k \in DOMAIN w : row[k] \in 0 .. (n - 1) /\ col[k] \in DOMAIN q[row[k]] /\ w[k] = q[row[k]][col[k]]
  BY <1>3 DEF PlacedBy
<1>5. \A b \in 0 .. (n - 1) : \A i \in DOMAIN q[b] : \E k \in DOMAIN w : row[k] = b /\ col[k] = i
  BY <1>3 DEF PlacedBy
<1>6. ASSUME Has(w, o, x, m)
      PROVE  \E b \in 0 .. (n - 1) : Has(q[b], o, x, m)
  BY <1>4, <1>6 DEF Has
<1>7. ASSUME NEW b \in 0 .. (n - 1), Has(q[b], o, x, m)
      PROVE  Has(w, o, x, m)
  <2>1. PICK i \in DOMAIN q[b] : q[b][i].id = o /\ q[b][i].type = m /\ Covers(q[b][i], x)
    BY <1>7 DEF Has
  <2>2. PICK k \in DOMAIN w : row[k] = b /\ col[k] = i
    BY <1>5
  <2>3. w[k] = q[b][i]
    BY <1>4, <2>2
  <2> QED BY <2>1, <2>3 DEF Has
<1> QED BY <1>1, <1>6, <1>7

\* NobodySleepsFree of any list: the threads in blocked lists are of D, and
\* thread t, which wants the lock want[t], is in one that conflicts with it.
Waits(list, want, D) ==
  \A t \in Threads : \A i \in BlockedAt(list, t) :
    t \in D /\ Conflict(list[i], want[t]) /\ BlockedAt(list, t) = {i}

\* Nobody sleeps for nothing on lists one after another.
LEMMA JoinedWaits ==
  ASSUME NEW n \in Nat, NEW q, \A b \in 0 .. (n - 1) : q[b] \in Seq(Lock), NEW want, NEW D,
         \A t \in Threads : \A b \in 0 .. (n - 1) : \A m \in DOMAIN q[b] :
           t \in q[b][m].blk => t \in D /\ Conflict(q[b][m], want[t]),
         \A t \in Threads : \A a, b \in 0 .. (n - 1) : \A l \in DOMAIN q[a], m \in DOMAIN q[b] :
           t \in q[a][l].blk /\ t \in q[b][m].blk => a = b /\ l = m
  PROVE  Waits(Joined(q, n), want, D)
<1>1. PICK w : w = Joined(q, n)
  OBVIOUS
<1>2. w \in Seq(Lock) /\ \E row, col : PlacedBy(w, q, n, row, col)
  BY <1>1, JoinedPlaces
<1>3. PICK row, col : PlacedBy(w, q, n, row, col)
  BY <1>2
<1>4. \A k \in DOMAIN w : row[k] \in 0 .. (n - 1) /\ col[k] \in DOMAIN q[row[k]] /\ w[k] = q[row[k]][col[k]]
  BY <1>3 DEF PlacedBy
<1>5. \A k, l \in DOMAIN w : k < l => row[k] < row[l] \/ (row[k] = row[l] /\ col[k] < col[l])
  BY <1>3 DEF PlacedBy
<1>6. \A k \in DOMAIN w : k \in Int /\ row[k] \in Int /\ col[k] \in Int
  BY <1>2, <1>3 DEF PlacedBy
<1>7. ASSUME NEW t \in Threads, NEW k \in DOMAIN w, NEW l \in DOMAIN w, t \in w[k].blk, t \in w[l].blk
      PROVE  k = l
  <2>1. PICK a, b, i, j : a = row[k] /\ b = row[l] /\ i = col[k] /\ j = col[l]
    OBVIOUS
  <2>2. /\ a \in 0 .. (n - 1) /\ i \in DOMAIN q[a] /\ w[k] = q[a][i]
        /\ b \in 0 .. (n - 1) /\ j \in DOMAIN q[b] /\ w[l] = q[b][j]
    BY <1>4, <2>1
  <2>3. a = b /\ i = j
    BY <1>7, <2>2
  <2>4. /\ k < l => a < b \/ (a = b /\ i < j)
        /\ l < k => b < a \/ (b = a /\ j < i)
    BY <1>5, <2>1
  <2>5. a \in Int /\ i \in Int /\ k \in Int /\ l \in Int
    BY <1>6, <2>1
  <2> QED BY <2>3, <2>4, <2>5
<1>8. ASSUME NEW t \in Threads, NEW k \in DOMAIN w, t \in w[k].blk
      PROVE  t \in D /\ Conflict(w[k], want[t])
  <2>1. PICK a, i : a = row[k] /\ i = col[k]
    OBVIOUS
  <2>2. a \in 0 .. (n - 1) /\ i \in DOMAIN q[a] /\ w[k] = q[a][i]
    BY <1>4, <2>1
  <2> QED BY <1>8, <2>2
<1>9. \A t \in Threads : \A k \in BlockedAt(w, t) : k \in DOMAIN w /\ t \in w[k].blk
  BY DEF BlockedAt
<1>10. ASSUME NEW t \in Threads, NEW k \in BlockedAt(w, t)
       PROVE  BlockedAt(w, t) = {k}
  BY <1>7, <1>9, <1>10
<1> QED BY <1>1, <1>8, <1>9, <1>10 DEF Waits

\* The early end of the loops misses nothing: what they do not look at is
\* behind the range.
LEMMA UnseenIsBehind ==
  ASSUME NEW list, Sound(list), NEW lock, Proper(lock), NEW i \in DOMAIN list,
         list[i].id = lock.id, ~ seen(list, lock, i)
  PROVE  Before(lock, list[i])
<1>1. PICK j \in DOMAIN list : j < i /\ list[j].id = lock.id /\ last(list[j], lock)
  BY DEF seen
<1>2. PICK f, g : f = list[j] /\ g = list[i]
  OBVIOUS
<1>3. Proper(f) /\ Proper(g) /\ Before(f, g) /\ last(f, lock)
  BY <1>1, <1>2 DEF Sound
<1>4. /\ f.start \in Nat /\ f.end \in Nat \cup {-1} /\ lock.start \in Nat /\ lock.end \in Nat \cup {-1}
      /\ f.end = -1 \/ f.start <= f.end
      /\ g.start \in Nat
  BY <1>3 DEF Proper, Lock, EOF_
<1>5. CASE Overlap(f, lock)
  <2>1. f.end = lock.end \/ Goeson(f, lock)
    BY <1>3, <1>5, CasesOfOverlap DEF last
  <2> QED BY <1>2, <1>3, <1>4, <2>1 DEF Before, Goeson, EOF_
<1>6. CASE ~ Overlap(f, lock)
  <2>1. beyond(f, lock)
    BY <1>3, <1>6 DEF last
  <2> QED BY <1>2, <1>3, <1>4, <2>1 DEF Before, beyond, EOF_
<1> QED BY <1>5, <1>6

\* So lf_clearlock() changes each lock of the owner as if it looked at all.
Cleared(list, lock) ==
  [b \in 0 .. Len(list) - 1 |->
     IF list[b + 1].id = lock.id THEN ClearOne(list[b + 1], lock) ELSE <<list[b + 1]>>]

LEMMA ClearIs ==
  ASSUME NEW list, Sound(list), NEW lock, Proper(lock)
  PROVE  lf_clearlock(list, lock) = Joined(Cleared(list, lock), Len(list))
<1> DEFINE Q == [b \in 0 .. Len(list) - 1 |->
                   IF seen(list, lock, b + 1) THEN ClearOne(list[b + 1], lock) ELSE <<list[b + 1]>>]
<1>1. list \in Seq(Lock) /\ DOMAIN list = 1 .. Len(list) /\ Len(list) \in Nat
  BY DEF Sound
<1>2. ASSUME NEW b \in 0 .. Len(list) - 1
      PROVE  Q[b] = Cleared(list, lock)[b]
  <2>1. b + 1 \in DOMAIN list
    BY <1>1
  <2>2. CASE seen(list, lock, b + 1)
    BY <2>2 DEF Cleared, seen
  <2>3. CASE list[b + 1].id # lock.id
    BY <2>3 DEF Cleared, seen
  <2>4. CASE list[b + 1].id = lock.id /\ ~ seen(list, lock, b + 1)
    <3>1. PICK f : f = list[b + 1]
      OBVIOUS
    <3>2. Proper(f) /\ Before(lock, f)
      BY <2>1, <2>4, <3>1, UnseenIsBehind DEF Sound
    <3>3. ~ Overlap(f, lock)
      BY <3>2, OverlapOrBefore
    <3>4. ClearOne(f, lock) = <<f>>
      BY <3>3 DEF ClearOne
    <3> QED BY <2>4, <3>1, <3>4 DEF Cleared
  <2> QED BY <2>2, <2>3, <2>4
<1>3. Q = Cleared(list, lock)
  <2>1. /\ Q = [b \in 0 .. Len(list) - 1 |-> Q[b]]
        /\ Cleared(list, lock) = [b \in 0 .. Len(list) - 1 |-> Cleared(list, lock)[b]]
    BY DEF Cleared
  <2> HIDE DEF Q
  <2> QED BY <1>2, <2>1
<1> QED BY <1>3 DEF lf_clearlock

\* Each list of Cleared() is made of parts of one lock.
LEMMA ClearedParts ==
  ASSUME NEW list, Sound(list), NEW lock, Proper(lock), NEW b \in 0 .. (Len(list) - 1)
  PROVE  /\ b + 1 \in DOMAIN list
         /\ PartsOf(Cleared(list, lock)[b], list[b + 1])
         /\ list[b + 1].id # lock.id => Cleared(list, lock)[b] = <<list[b + 1]>>
         /\ list[b + 1].id = lock.id =>
              /\ \A m \in DOMAIN Cleared(list, lock)[b] :
                   \/ Before(Cleared(list, lock)[b][m], lock)
                   \/ Before(lock, Cleared(list, lock)[b][m])
              /\ \A x \in Nat : (\E m \in DOMAIN Cleared(list, lock)[b] : Covers(Cleared(list, lock)[b][m], x))
                                  <=> Covers(list[b + 1], x) /\ ~ Covers(lock, x)
<1>1. list \in Seq(Lock) /\ DOMAIN list = 1 .. Len(list) /\ Len(list) \in Nat
  BY DEF Sound
<1>2. b + 1 \in DOMAIN list
  BY <1>1
<1>3. PICK f, P : f = list[b + 1] /\ P = Cleared(list, lock)[b]
  OBVIOUS
<1>4. Proper(f) /\ f \in Lock
  BY <1>2, <1>3 DEF Sound, Proper
<1>5. CASE f.id = lock.id
  <2>1. P = ClearOne(f, lock)
    BY <1>3, <1>5 DEF Cleared
  <2>2. /\ PartsOf(P, f)
        /\ \A m \in DOMAIN P : Before(P[m], lock) \/ Before(lock, P[m])
        /\ \A x \in Nat : (\E m \in DOMAIN P : Covers(P[m], x)) <=> Covers(f, x) /\ ~ Covers(lock, x)
    BY <1>4, <2>1, ClearOneLeaves
  <2> QED BY <1>2, <1>3, <1>5, <2>2
<1>6. CASE f.id # lock.id
  <2>1. P = <<f>>
    BY <1>3, <1>6 DEF Cleared
  <2>2. P \in Seq(Lock) /\ DOMAIN P = {1} /\ P[1] = f
    BY <1>4, <2>1, One
  <2>3. f.start \in Nat /\ f.end \in Nat \cup {-1}
    BY <1>4 DEF Lock, EOF_
  <2>4. PartOf(f, f)
    BY <1>4, <2>3 DEF PartOf, Inside, EOF_
  <2>5. PartsOf(P, f)
    BY <2>1, <2>2, <2>4 DEF PartsOf
  <2> QED BY <1>2, <1>3, <1>6, <2>1, <2>5
<1> QED BY <1>5, <1>6

\* What is in two locks is in the order of the locks.
LEMMA PartsBefore ==
  ASSUME NEW f, NEW g, Proper(f), Proper(g), NEW p, NEW r, Inside(p, f), Inside(r, g), Before(f, g)
  PROVE  Before(p, r)
<1>1. /\ f.end \in Nat \cup {-1} /\ g.start \in Nat
      /\ p.end \in Nat \cup {-1} /\ r.start \in Nat
  BY DEF PartOf, Inside, Proper, Lock, EOF_
<1> QED BY <1>1 DEF PartOf, Inside, Before, EOF_

\* lf_clearlock() keeps the list sound.
LEMMA ClearSound ==
  ASSUME NEW list, Sound(list), NEW lock, Proper(lock)
  PROVE  Sound(lf_clearlock(list, lock))
<1>1. PICK n, q : n = Len(list) /\ q = Cleared(list, lock)
  OBVIOUS
<1>2. n \in Nat
  BY <1>1 DEF Sound
<1>3. \A b \in 0 .. (n - 1) : /\ b + 1 \in DOMAIN list /\ Proper(list[b + 1])
                              /\ PartsOf(q[b], list[b + 1])
  BY <1>1, ClearedParts DEF Sound
<1>4. \A b \in 0 .. (n - 1) : q[b] \in Seq(Lock) /\ \A m \in DOMAIN q[b] : Proper(q[b][m])
  BY <1>3 DEF PartsOf, PartOf, Inside
<1>5. \A b \in 0 .. (n - 1) : \A l, m \in DOMAIN q[b] :
         l < m /\ q[b][l].id = q[b][m].id => Before(q[b][l], q[b][m])
  BY <1>3 DEF PartsOf
<1>6. ASSUME NEW a \in 0 .. (n - 1), NEW b \in 0 .. (n - 1), a < b,
             NEW l \in DOMAIN q[a], NEW m \in DOMAIN q[b], q[a][l].id = q[b][m].id
      PROVE  Before(q[a][l], q[b][m])
  <2>1. PartOf(q[a][l], list[a + 1]) /\ PartOf(q[b][m], list[b + 1])
    BY <1>3 DEF PartsOf
  <2>2. list[a + 1].id = list[b + 1].id
    BY <1>6, <2>1 DEF PartOf, Inside
  <2>3. a + 1 < b + 1
    BY <1>2, <1>6
  <2>4. Before(list[a + 1], list[b + 1])
    BY <1>3, <2>2, <2>3 DEF Sound
  <2> QED BY <1>3, <2>1, <2>4, PartsBefore DEF PartOf
<1>7. Sound(Joined(q, n))
  BY <1>2, <1>4, <1>5, <1>6, JoinedSound
<1> QED BY <1>1, <1>7, ClearIs

\* What owner o keeps of byte x in lock i, in mode m.
Keeps(list, lock, i, o, x, m) ==
  /\ list[i].id = o /\ list[i].type = m
  /\ Covers(list[i], x) /\ ~ (o = lock.id /\ Covers(lock, x))

\* That is what it has in one list of Cleared().
LEMMA ClearedRowHas ==
  ASSUME NEW list, Sound(list), NEW lock, Proper(lock), NEW b \in 0 .. (Len(list) - 1),
         NEW o, NEW x \in Nat, NEW m
  PROVE  Has(Cleared(list, lock)[b], o, x, m) <=> Keeps(list, lock, b + 1, o, x, m)
<1> USE DEF Keeps
<1>1. PICK P : P = Cleared(list, lock)[b]
  OBVIOUS
<1>2. /\ PartsOf(P, list[b + 1])
      /\ list[b + 1].id # lock.id => P = <<list[b + 1]>>
      /\ list[b + 1].id = lock.id =>
           ((\E k \in DOMAIN P : Covers(P[k], x)) <=> Covers(list[b + 1], x) /\ ~ Covers(lock, x))
  BY <1>1, ClearedParts
<1>3. \A k \in DOMAIN P : P[k].id = list[b + 1].id /\ P[k].type = list[b + 1].type
  BY <1>2 DEF PartsOf, PartOf, Inside
<1>4. CASE list[b + 1].id = lock.id
  BY <1>1, <1>2, <1>3, <1>4 DEF Has
<1>5. CASE list[b + 1].id # lock.id
  <2>1. PICK f : f = list[b + 1]
    OBVIOUS
  <2>2. P = <<f>> /\ DOMAIN P = {1} /\ P[1] = f
    BY <1>2, <1>5, <2>1
  <2> QED BY <1>1, <1>5, <2>1, <2>2 DEF Has
<1> QED BY <1>4, <1>5

\* lf_clearlock() takes the range from the owner, and nothing else.
LEMMA ClearHas ==
  ASSUME NEW list, Sound(list), NEW lock, Proper(lock), NEW o, NEW x \in Nat, NEW m
  PROVE  Has(lf_clearlock(list, lock), o, x, m)
           <=> Has(list, o, x, m) /\ ~ (o = lock.id /\ Covers(lock, x))
<1>1. PICK n, q : n = Len(list) /\ q = Cleared(list, lock)
  OBVIOUS
<1>2. n \in Nat /\ DOMAIN list = 1 .. n
  BY <1>1 DEF Sound
<1>3. \A b \in 0 .. (n - 1) : q[b] \in Seq(Lock)
  BY <1>1, ClearedParts DEF PartsOf
<1>4. \A b \in 0 .. (n - 1) : Has(q[b], o, x, m) <=> Keeps(list, lock, b + 1, o, x, m)
  BY <1>1, ClearedRowHas
<1>5. Has(Joined(q, n), o, x, m) <=> \E b \in 0 .. (n - 1) : Has(q[b], o, x, m)
  BY <1>2, <1>3, JoinedHas
<1>6. Has(list, o, x, m)
        <=> \E b \in 0 .. (n - 1) : list[b + 1].id = o /\ list[b + 1].type = m /\ Covers(list[b + 1], x)
  <2>1. \A i \in DOMAIN list : i - 1 \in 0 .. (n - 1) /\ (i - 1) + 1 = i
    BY <1>2
  <2>2. \A b \in 0 .. (n - 1) : b + 1 \in DOMAIN list
    BY <1>2
  <2> QED BY <2>1, <2>2 DEF Has
<1>7. lf_clearlock(list, lock) = Joined(q, n)
  BY <1>1, ClearIs
<1> QED BY <1>4, <1>5, <1>6, <1>7 DEF Keeps

\* It wakes who waits for a lock that it changes, and nobody else is moved.
LEMMA ClearWaits ==
  ASSUME NEW list, Sound(list), NEW lock, Proper(lock), NEW want, NEW D, Waits(list, want, D)
  PROVE  Waits(lf_clearlock(list, lock), want, D)
<1>1. PICK n, q : n = Len(list) /\ q = Cleared(list, lock)
  OBVIOUS
<1>2. n \in Nat
  BY <1>1 DEF Sound
<1>3. \A b \in 0 .. (n - 1) : b + 1 \in DOMAIN list /\ PartsOf(q[b], list[b + 1])
  BY <1>1, ClearedParts
<1>4. \A b \in 0 .. (n - 1) : q[b] \in Seq(Lock)
  BY <1>3 DEF PartsOf
<1>5. ASSUME NEW t \in Threads, NEW b \in 0 .. (n - 1), NEW m \in DOMAIN q[b], t \in q[b][m].blk
      PROVE  m = 1 /\ q[b][m] = list[b + 1] /\ b + 1 \in BlockedAt(list, t)
  <2>1. q[b] = <<list[b + 1]>>
    BY <1>3, <1>5 DEF PartsOf
  <2>2. PICK f : f = list[b + 1]
    OBVIOUS
  <2>3. q[b] = <<f>> /\ DOMAIN q[b] = {1} /\ q[b][1] = f
    BY <2>1, <2>2
  <2> QED BY <1>3, <1>5, <2>2, <2>3 DEF BlockedAt
<1>6. \A t \in Threads : \A b \in 0 .. (n - 1) : \A m \in DOMAIN q[b] :
        t \in q[b][m].blk => t \in D /\ Conflict(q[b][m], want[t])
  BY <1>5 DEF Waits
<1>7. ASSUME NEW t \in Threads, NEW a \in 0 .. (n - 1), NEW b \in 0 .. (n - 1),
             NEW l \in DOMAIN q[a], NEW m \in DOMAIN q[b], t \in q[a][l].blk, t \in q[b][m].blk
      PROVE  a = b /\ l = m
  <2>1. l = 1 /\ m = 1 /\ a + 1 \in BlockedAt(list, t) /\ b + 1 \in BlockedAt(list, t)
    BY <1>5, <1>7
  <2>2. a + 1 = b + 1
    BY <2>1 DEF Waits
  <2> QED BY <1>2, <2>1, <2>2
<1>8. Waits(Joined(q, n), want, D)
  BY <1>2, <1>4, <1>6, <1>7, JoinedWaits
<1> QED BY <1>1, <1>8, ClearIs

-----------------------------------------------------------------------------
(* Adding a lock. *)

\* The lock found will do: it is freed, and not linked.
WillDo(f, lock) ==
  Overlap(f, lock) /\ (ovcase(f, lock) = 1 \/ (ovcase(f, lock) = 2 /\ f.type = lock.type))

\* What becomes of a lock in the range: what sticks out, and N between that.
LEMMA SetOneParts ==
  ASSUME NEW f, NEW lock, Proper(f), Proper(lock), NEW N \in Seq(Lock), Overlap(f, lock), ~ WillDo(f, lock)
  PROVE  SetOne(f, lock, N) = (InFront(f, lock) \o N) \o Behind(f, lock)
<1> DEFINE c == ovcase(f, lock)
           F == <<FrontOf(f, lock)>>
           G == <<BackOf(f, lock)>>
<1>1. /\ c \in 1 .. 5
      /\ c = 1 <=> f.start = lock.start /\ f.end = lock.end
      /\ c = 2 => /\ (f.start = lock.start /\ Goeson(f, lock)) \/ Sticks(f, lock)
                  /\ f.end = lock.end \/ Goeson(f, lock)
      /\ c = 3 => ~ Sticks(f, lock) /\ ~ Goeson(f, lock)
      /\ c = 4 => Sticks(f, lock) /\ ~ Goeson(f, lock) /\ f.end # lock.end
      /\ c = 5 => ~ Sticks(f, lock) /\ Goeson(f, lock) /\ f.start # lock.start
  BY CasesOfOverlap
<1>2. /\ Sticks(f, lock) => f.start # lock.start
      /\ Goeson(f, lock) => f.end # lock.end
  <2>1. /\ f.start \in Nat /\ f.end \in Nat \cup {-1} /\ lock.start \in Nat /\ lock.end \in Nat \cup {-1}
    BY DEF Proper, Lock, EOF_
  <2> QED BY <2>1 DEF Sticks, Goeson, EOF_
<1>3. c # 1 /\ (c = 2 => f.type # lock.type)
  BY DEF WillDo
<1>4. SetOne(f, lock, N) = CASE c = 2 -> (left(wake(f), lock) \o N) \o right(wake(f), lock)
                             [] c = 3 -> N
                             [] c = 4 -> left(wake(f), lock) \o N
                             [] c = 5 -> N \o right(wake(f), lock)
  <2> HIDE DEF c
  <2>1. SetOne(f, lock, N) =
          CASE c = 1 -> <<[(IF downgrade(f, lock) THEN wake(f) ELSE f) EXCEPT !.type = lock.type]>>
            [] c = 2 -> IF f.type = lock.type THEN <<f>> ELSE (left(wake(f), lock) \o N) \o right(wake(f), lock)
            [] c = 3 -> N
            [] c = 4 -> left(wake(f), lock) \o N
            [] c = 5 -> N \o right(wake(f), lock)
    BY <1>1 DEF SetOne, c
  <2> QED BY <1>1, <1>3, <2>1
<1>5. /\ left(wake(f), lock) = IF f.start = lock.start THEN << >> ELSE F
      /\ right(wake(f), lock) = IF f.end = lock.end THEN << >> ELSE G
  BY SplitParts
<1>6. PICK M : M = F \o N
  OBVIOUS
<1>7. << >> \o N = N /\ N \o << >> = N
  OBVIOUS
<1>8. Sticks(f, lock) => M \o << >> = M
  <2> SUFFICES ASSUME Sticks(f, lock) PROVE M \o << >> = M
    OBVIOUS
  <2>1. FrontOf(f, lock) \in Lock
    BY FrontAndBack DEF PartOf, Inside, Proper
  <2>2. F \in Seq(Lock)
    BY <2>1
  <2> HIDE DEF F
  <2>3. M \in Seq(Lock)
    BY <1>6, <2>2
  <2> QED BY <2>3
<1> HIDE DEF c, F, G
<1>9. CASE c = 2
  BY <1>1, <1>2, <1>3, <1>4, <1>5, <1>6, <1>7, <1>9 DEF F, G, InFront, Behind
<1>10. CASE c = 3
  BY <1>1, <1>4, <1>7, <1>10 DEF InFront, Behind
<1>11. CASE c = 4
  <2>1. SetOne(f, lock, N) = left(wake(f), lock) \o N
    BY <1>4, <1>11
  <2>2. Sticks(f, lock) /\ ~ Goeson(f, lock) /\ left(wake(f), lock) = F
    BY <1>1, <1>2, <1>5, <1>11
  <2>3. SetOne(f, lock, N) = M
    BY <1>6, <2>1, <2>2
  <2>4. SetOne(f, lock, N) = (F \o N) \o << >>
    BY <1>6, <1>8, <2>2, <2>3
  <2>5. InFront(f, lock) = F /\ Behind(f, lock) = << >>
    BY <2>2 DEF F, InFront, Behind
  <2> QED BY <2>4, <2>5
<1>12. CASE c = 5
  BY <1>1, <1>2, <1>4, <1>5, <1>7, <1>12 DEF F, G, InFront, Behind
<1>13. c = 2 \/ c = 3 \/ c = 4 \/ c = 5
  BY <1>1, <1>3
<1> QED BY <1>9, <1>10, <1>11, <1>12, <1>13, Zenon

\* A lock that will do stays, in the mode of the request, and keeps who waits
\* for it unless it is downgraded.
Retyped(f, lock) ==
  [id |-> f.id, type |-> lock.type, start |-> f.start, end |-> f.end,
   blk |-> IF ovcase(f, lock) = 1 /\ downgrade(f, lock) THEN {} ELSE f.blk]

LEMMA SetOneWillDo ==
  ASSUME NEW f, NEW lock, Proper(f), Proper(lock), NEW N, WillDo(f, lock)
  PROVE  SetOne(f, lock, N) = <<Retyped(f, lock)>>
<1>1. f \in Lock
  BY DEF Proper
<1>2. Overlap(f, lock)
  BY DEF WillDo
<1>3. CASE ovcase(f, lock) = 1
  <2>1. SetOne(f, lock, N) = <<[(IF downgrade(f, lock) THEN wake(f) ELSE f) EXCEPT !.type = lock.type]>>
    BY <1>2, <1>3 DEF SetOne
  <2>2. [(IF downgrade(f, lock) THEN wake(f) ELSE f) EXCEPT !.type = lock.type] = Retyped(f, lock)
    BY <1>1, <1>3 DEF Retyped, wake, Lock
  <2> QED BY <2>1, <2>2
<1>4. CASE ovcase(f, lock) = 2 /\ f.type = lock.type
  <2>1. SetOne(f, lock, N) = <<f>>
    BY <1>2, <1>4 DEF SetOne
  <2>2. f = Retyped(f, lock)
    BY <1>1, <1>4 DEF Retyped, Lock
  <2> QED BY <2>1, <2>2
<1> QED BY <1>3, <1>4 DEF WillDo

\* Where the new lock is linked.
Spot(list, lock) == IF links(list, lock) = {} THEN Len(list) + 1 ELSE Min(links(list, lock))

\* The locks of the owner up to there are in front of the range, the others
\* do not start in front of it.
LEMMA SpotIs ==
  ASSUME NEW list, Sound(list), NEW lock, Proper(lock), NEW at, at = Spot(list, lock)
  PROVE  /\ at \in 1 .. (Len(list) + 1)
         /\ at # Len(list) + 1 => /\ at \in DOMAIN list /\ list[at].id = lock.id
                                  /\ ~ Before(list[at], lock)
         /\ \A i \in DOMAIN list : list[i].id = lock.id =>
              /\ i < at => Before(list[i], lock)
              /\ i > at => list[at].id = lock.id /\ list[i].start > lock.start /\ at \in DOMAIN list
<1>1. list \in Seq(Lock) /\ DOMAIN list = 1 .. Len(list) /\ Len(list) \in Nat
  BY DEF Sound
<1>2. \A i \in DOMAIN list : Proper(list[i])
  BY DEF Sound
<1>3. \A i \in DOMAIN list : i \in links(list, lock) <=> list[i].id = lock.id /\ ~ Before(list[i], lock)
  <2> SUFFICES ASSUME NEW i \in DOMAIN list
               PROVE  (Overlap(list[i], lock) \/ beyond(list[i], lock)) <=> ~ Before(list[i], lock)
    BY DEF links
  <2>1. PICK f : f = list[i]
    OBVIOUS
  <2>2. Proper(f)
    BY <1>2, <2>1
  <2>3. /\ Overlap(f, lock) <=> ~ Before(f, lock) /\ ~ Before(lock, f)
        /\ beyond(f, lock) <=> Before(lock, f)
    BY <2>2, OverlapOrBefore
  <2>4. ~ (Before(f, lock) /\ Before(lock, f))
    <3>1. /\ f.start \in Nat /\ f.end \in Nat \cup {-1} /\ lock.start \in Nat /\ lock.end \in Nat \cup {-1}
          /\ f.end = -1 \/ f.start <= f.end
          /\ lock.end = -1 \/ lock.start <= lock.end
      BY <2>2 DEF Proper, Lock, EOF_
    <3> QED BY <3>1 DEF Before, EOF_
  <2> QED BY <2>1, <2>3, <2>4
<1>4. links(list, lock) \subseteq DOMAIN list
  BY DEF links
<1>5. CASE links(list, lock) = {}
  <2>1. at = Len(list) + 1
    BY <1>5 DEF Spot
  <2> QED BY <1>1, <1>3, <1>5, <2>1
<1>6. CASE links(list, lock) # {}
  <2>1. at \in links(list, lock) /\ \A i \in links(list, lock) : at <= i
    <3>1. PICK S : S = links(list, lock)
      OBVIOUS
    <3>2. S \subseteq Nat /\ S # {}
      BY <1>1, <1>4, <1>6, <3>1
    <3>3. \E i \in S : \A j \in S : i <= j
      BY <3>2, LeastNat
    <3>4. at = Min(S)
      BY <1>6, <3>1 DEF Spot
    <3> QED BY <3>1, <3>3, <3>4 DEF Min
  <2>2. at \in DOMAIN list /\ list[at].id = lock.id /\ ~ Before(list[at], lock)
    BY <1>3, <1>4, <2>1
  <2>3. ASSUME NEW i \in DOMAIN list, list[i].id = lock.id, i < at
        PROVE  Before(list[i], lock)
    BY <1>1, <1>3, <2>1, <2>2, <2>3
  <2>4. ASSUME NEW i \in DOMAIN list, list[i].id = lock.id, i > at
        PROVE  list[i].start > lock.start
    <3>1. Before(list[at], list[i])
      BY <1>1, <2>2, <2>4 DEF Sound
    <3>2. PICK f, g : f = list[at] /\ g = list[i]
      OBVIOUS
    <3>3. Proper(f) /\ Proper(g)
      BY <1>2, <2>2, <3>2
    <3>4. f.end \in Nat \cup {-1} /\ g.start \in Nat /\ lock.start \in Nat
      BY <3>3 DEF Proper, Lock, EOF_
    <3> QED BY <2>2, <3>1, <3>2, <3>4 DEF Before, EOF_
  <2> QED BY <1>1, <2>2, <2>3, <2>4
<1> QED BY <1>5, <1>6

\* The new lock, with the threads that waited for the locks that it replaces.
NewLock(list, lock) == [lock EXCEPT !.blk = waiters(list, lock)]

LEMMA NewLockIs ==
  ASSUME NEW list, Sound(list), NEW lock, Proper(lock), NEW n, n = NewLock(list, lock)
  PROVE  /\ n \in Lock /\ Proper(n) /\ n.blk = waiters(list, lock)
         /\ n.id = lock.id /\ n.type = lock.type /\ n.start = lock.start /\ n.end = lock.end
<1>1. lock \in Lock
  BY DEF Proper
<1>2. waiters(list, lock) \subseteq Threads
  <2>1. \A i \in DOMAIN list : list[i].blk \subseteq Threads
    BY DEF Sound, Proper, Lock
  <2> QED BY <2>1 DEF waiters
<1>3. /\ n \in Lock /\ n.blk = waiters(list, lock)
      /\ n.id = lock.id /\ n.type = lock.type /\ n.start = lock.start /\ n.end = lock.end
  BY <1>1, <1>2 DEF NewLock, Lock
<1> QED BY <1>3 DEF Proper

Here(list, lock, i) == IF i = Spot(list, lock) THEN <<NewLock(list, lock)>> ELSE << >>

\* addlock() changes each lock of the owner as if it looked at all.
Added(list, lock) ==
  [b \in 0 .. Len(list) |->
     IF b = Len(list) THEN Here(list, lock, b + 1)
     ELSE IF list[b + 1].id = lock.id THEN SetOne(list[b + 1], lock, Here(list, lock, b + 1))
     ELSE <<list[b + 1]>>]

LEMMA AddIs ==
  ASSUME NEW list, Sound(list), NEW lock, Proper(lock)
  PROVE  addlock(list, lock) = Joined(Added(list, lock), Len(list) + 1)
<1> DEFINE Q == [b \in 0 .. Len(list) |->
                   IF b = Len(list) THEN Here(list, lock, b + 1)
                   ELSE IF seen(list, lock, b + 1) THEN SetOne(list[b + 1], lock, Here(list, lock, b + 1))
                   ELSE <<list[b + 1]>>]
<1>1. list \in Seq(Lock) /\ DOMAIN list = 1 .. Len(list) /\ Len(list) \in Nat
  BY DEF Sound
<1>2. ASSUME NEW b \in 0 .. Len(list)
      PROVE  Q[b] = Added(list, lock)[b]
  <2>1. CASE b = Len(list)
    BY <2>1 DEF Added
  <2>2. CASE b # Len(list) /\ seen(list, lock, b + 1)
    BY <2>2 DEF Added, seen
  <2>3. CASE b # Len(list) /\ list[b + 1].id # lock.id
    BY <2>3 DEF Added, seen
  <2>4. CASE b # Len(list) /\ list[b + 1].id = lock.id /\ ~ seen(list, lock, b + 1)
    <3>1. b + 1 \in DOMAIN list
      BY <1>1, <2>4, RowOfLock
    <3>2. PICK f : f = list[b + 1]
      OBVIOUS
    <3>3. Proper(f) /\ Before(lock, f)
      BY <2>4, <3>1, <3>2, UnseenIsBehind DEF Sound
    <3>4. ~ Overlap(f, lock)
      BY <3>3, OverlapOrBefore
    <3>5. b + 1 # Spot(list, lock)
      <4>1. PICK j \in DOMAIN list : j < b + 1 /\ list[j].id = lock.id /\ last(list[j], lock)
        BY <2>4 DEF seen
      <4>2. j \in links(list, lock)
        BY <4>1 DEF links, last
      <4>3. Proper(list[j])
        BY DEF Sound
      <4>4. ~ Before(list[j], lock)
        <5>1. Overlap(list[j], lock) \/ beyond(list[j], lock)
          BY <4>2 DEF links
        <5>2. /\ Overlap(list[j], lock) => ~ Before(list[j], lock)
              /\ beyond(list[j], lock) => Before(lock, list[j])
          BY <4>3, OverlapOrBefore
        <5>3. ~ (Before(lock, list[j]) /\ Before(list[j], lock))
          <6>1. PICK g : g = list[j]
            OBVIOUS
          <6>2. /\ g.start \in Nat /\ g.end \in Nat \cup {-1} /\ lock.start \in Nat /\ lock.end \in Nat \cup {-1}
                /\ g.end = -1 \/ g.start <= g.end
                /\ lock.end = -1 \/ lock.start <= lock.end
            BY <4>3, <6>1 DEF Proper, Lock, EOF_
          <6> QED BY <6>1, <6>2 DEF Before, EOF_
        <5> QED BY <5>1, <5>2, <5>3
      <4>5. ~ (j < Spot(list, lock))
        BY <4>1, <4>4, SpotIs
      <4> QED BY <4>1, <4>5
    <3>6. SetOne(f, lock, << >>) = <<f>>
      BY <3>4 DEF SetOne
    <3> QED BY <2>4, <3>2, <3>5, <3>6 DEF Added, Here
  <2> QED BY <2>1, <2>2, <2>3, <2>4
<1>3. Q = Added(list, lock)
  <2>1. /\ Q = [b \in 0 .. Len(list) |-> Q[b]]
        /\ Added(list, lock) = [b \in 0 .. Len(list) |-> Added(list, lock)[b]]
    BY DEF Added
  <2> HIDE DEF Q
  <2> QED BY <1>2, <2>1
<1> QED BY <1>3 DEF addlock, Here, NewLock, Spot

\* Away from the spot, it leaves what lf_clearlock() leaves, on the side of
\* the range where the lock is.
LEMMA AddedElsewhere ==
  ASSUME NEW list, Sound(list), NEW lock, Proper(lock), NEW b \in 0 .. (Len(list) - 1),
         b + 1 # Spot(list, lock)
  PROVE  /\ Added(list, lock)[b] = Cleared(list, lock)[b]
         /\ list[b + 1].id = lock.id => \A m \in DOMAIN Added(list, lock)[b] :
              /\ b + 1 < Spot(list, lock) => Before(Added(list, lock)[b][m], lock)
              /\ b + 1 > Spot(list, lock) => Before(lock, Added(list, lock)[b][m])
<1>1. list \in Seq(Lock) /\ DOMAIN list = 1 .. Len(list) /\ Len(list) \in Nat
  BY DEF Sound
<1>2. b + 1 \in DOMAIN list /\ b # Len(list) /\ b \in 0 .. Len(list)
  BY <1>1, RowOfLock
<1>3. PICK f, at, P : f = list[b + 1] /\ at = Spot(list, lock) /\ P = Cleared(list, lock)[b]
  OBVIOUS
<1>4. Proper(f)
  BY <1>2, <1>3 DEF Sound
<1>5. CASE f.id # lock.id
  BY <1>2, <1>3, <1>5 DEF Added, Cleared
<1>6. CASE f.id = lock.id
  <2>1. Added(list, lock)[b] = SetOne(f, lock, << >>)
    BY <1>2, <1>3, <1>6 DEF Added, Here
  <2>2. P = ClearOne(f, lock)
    BY <1>3, <1>6 DEF Cleared
  <2>3. /\ PartsOf(P, f)
        /\ \A m \in DOMAIN P : Before(P[m], lock) \/ Before(lock, P[m])
    BY <1>4, <2>2, ClearOneLeaves
  <2>4. at \in Int /\ (b + 1 < at \/ b + 1 > at)
    <3>1. at \in 1 .. (Len(list) + 1)
      BY <1>3, SpotIs
    <3> QED BY <1>1, <1>3, <3>1
  <2>5. CASE b + 1 < at
    <3>1. Before(f, lock)
      BY <1>2, <1>3, <1>6, <2>5, SpotIs
    <3>2. ~ Overlap(f, lock)
      BY <1>4, <3>1, OverlapOrBefore
    <3>3. SetOne(f, lock, << >>) = <<f>> /\ P = <<f>>
      BY <2>2, <3>2 DEF SetOne, ClearOne
    <3>4. \A m \in DOMAIN P : P[m] = f
      BY <3>3
    <3> QED BY <1>3, <1>6, <2>1, <2>4, <2>5, <3>1, <3>3, <3>4
  <2>6. CASE b + 1 > at
    <3>1. f.start > lock.start
      BY <1>2, <1>3, <1>6, <2>6, SpotIs
    <3>2. f.start \in Nat /\ lock.start \in Nat
      BY <1>4 DEF Proper, Lock
    <3>3. SetOne(f, lock, << >>) = P
      <4>1. CASE ~ Overlap(f, lock)
        BY <2>2, <4>1 DEF SetOne, ClearOne
      <4>2. CASE Overlap(f, lock)
        <5>1. ~ Sticks(f, lock) /\ f.start # lock.start
          BY <3>1, <3>2 DEF Sticks
        <5>2. ~ WillDo(f, lock)
          BY <1>4, <4>2, <5>1, CasesOfOverlap DEF WillDo
        <5>3. PICK N : N = << >> /\ N \in Seq(Lock)
          <6>1. << >> \in Seq(Lock)
            OBVIOUS
          <6> QED BY <6>1, Zenon
        <5>4. SetOne(f, lock, N) = (InFront(f, lock) \o N) \o Behind(f, lock)
          BY <1>4, <4>2, <5>2, <5>3, SetOneParts
        <5>5. P = InFront(f, lock) \o Behind(f, lock)
          BY <1>4, <2>2, <4>2, ClearOneParts
        <5>6. InFront(f, lock) = << >>
          BY <5>1 DEF InFront
        <5>7. << >> \o << >> = << >>
          OBVIOUS
        <5> QED BY <5>3, <5>4, <5>5, <5>6, <5>7, Zenon
      <4> QED BY <4>1, <4>2
    <3>4. ASSUME NEW m \in DOMAIN P
          PROVE  Before(lock, P[m])
      <4>1. PICK p : p = P[m]
        OBVIOUS
      <4>2. PartOf(p, f) /\ (Before(p, lock) \/ Before(lock, p))
        BY <2>3, <4>1 DEF PartsOf
      <4>3. /\ p.start \in Nat /\ p.end \in Nat \cup {-1}
            /\ p.end = -1 \/ p.start <= p.end
            /\ f.start <= p.start
        BY <4>2 DEF PartOf, Inside, Proper, Lock, EOF_
      <4>4. ~ Before(p, lock)
        BY <3>1, <3>2, <4>3 DEF Before, EOF_
      <4> QED BY <4>1, <4>2, <4>4
    <3> QED BY <1>3, <2>1, <2>4, <2>6, <3>3, <3>4
  <2> QED BY <2>4, <2>5, <2>6
<1> QED BY <1>5, <1>6

\* P is what becomes of f when the new lock n is linked there, as P[d].
Linked(P, f, lock, n, d) ==
  /\ P \in Seq(Lock) /\ d \in DOMAIN P /\ P[d] = n
  /\ \A m \in DOMAIN P : m # d => /\ PartOf(P[m], f)
                                  /\ P[m].blk = {} \/ (P[m] = f /\ ~ Overlap(f, lock))
  /\ \A l, m \in DOMAIN P : l < m => Before(P[l], P[m])
  /\ \A x \in Nat : (\E m \in DOMAIN P : m # d /\ Covers(P[m], x)) <=> Covers(f, x) /\ ~ Covers(lock, x)

LEMMA LinkedAt ==
  ASSUME NEW f, NEW lock, NEW n, Proper(f), Proper(lock), Proper(n), n.start = lock.start, n.end = lock.end,
         ~ Before(f, lock), ~ WillDo(f, lock), NEW P, P = SetOne(f, lock, <<n>>)
  PROVE  \E d : Linked(P, f, lock, n, d)
<1> DEFINE F == FrontOf(f, lock)
           G == BackOf(f, lock)
<1>1. /\ f.start \in Nat /\ f.end \in Nat \cup {-1} /\ lock.start \in Nat /\ lock.end \in Nat \cup {-1}
      /\ f.end = -1 \/ f.start <= f.end
      /\ lock.end = -1 \/ lock.start <= lock.end
      /\ f \in Lock /\ n \in Lock
  BY DEF Proper, Lock, EOF_
<1>2. /\ \A p : Before(p, lock) => Before(p, n)
      /\ \A p : Before(lock, p) => Before(n, p)
  BY DEF Before
<1>3. CASE ~ Overlap(f, lock)
  <2>1. beyond(f, lock) /\ Before(lock, f)
    BY <1>3, OverlapOrBefore
  <2>2. P = <<n>> \o <<f>>
    BY <1>3, <2>1 DEF SetOne
  <2>3. P \in Seq(Lock) /\ DOMAIN P = {1, 2} /\ P[1] = n /\ P[2] = f
    BY ONLY <1>1, <2>2, Two
  <2>4. PartOf(f, f)
    BY <1>1 DEF PartOf, Inside, EOF_
  <2>5. \A x \in Nat : Covers(f, x) => ~ Covers(lock, x)
    BY <1>1, <2>1 DEF Covers, Before, EOF_
  <2>6. Before(P[1], P[2])
    BY <1>2, <2>1, <2>3
  <2>7. Linked(P, f, lock, n, 1)
    <3>1. \A l, m \in DOMAIN P : l < m => l = 1 /\ m = 2
      BY <2>3
    <3>2. \A m \in DOMAIN P : m # 1 <=> m = 2
      BY <2>3
    <3> QED BY <1>3, <2>3, <2>4, <2>5, <2>6, <3>1, <3>2 DEF Linked
  <2> QED BY <2>7
<1>4. CASE Overlap(f, lock)
  <2>1. /\ Sticks(f, lock) => PartOf(F, f) /\ Before(F, lock) /\ F.blk = {}
        /\ Goeson(f, lock) => PartOf(G, f) /\ Before(lock, G) /\ G.blk = {}
        /\ Sticks(f, lock) /\ Goeson(f, lock) => Before(F, G)
        /\ \A b \in Nat : /\ Sticks(f, lock) => (Covers(F, b) <=> Covers(f, b) /\ b < lock.start)
                          /\ Goeson(f, lock) => (Covers(G, b) <=> Covers(f, b) /\ b > lock.end)
    BY <1>4, FrontAndBack
  <2>2. P = (InFront(f, lock) \o <<n>>) \o Behind(f, lock)
    <3>1. <<n>> \in Seq(Lock)
      BY <1>1
    <3> QED BY <1>4, <3>1, SetOneParts
  <2>3. /\ ~ Sticks(f, lock) => f.start >= lock.start
        /\ ~ Goeson(f, lock) => lock.end = -1 \/ (f.end # -1 /\ f.end <= lock.end)
        /\ Goeson(f, lock) => lock.end # -1
    BY <1>1 DEF Sticks, Goeson, EOF_
  <2> HIDE DEF F, G
  <2>4. \A b \in Nat : Covers(f, b) /\ ~ Covers(lock, b)
                         <=> \/ Sticks(f, lock) /\ Covers(F, b)
                             \/ Goeson(f, lock) /\ Covers(G, b)
    <3> SUFFICES ASSUME NEW b \in Nat
                 PROVE  Covers(f, b) /\ ~ Covers(lock, b)
                         <=> \/ Sticks(f, lock) /\ Covers(f, b) /\ b < lock.start
                             \/ Goeson(f, lock) /\ Covers(f, b) /\ b > lock.end
      BY <2>1
    <3> QED BY <1>1, <2>3 DEF Covers, EOF_
  <2>5. /\ Sticks(f, lock) => F \in Lock /\ Before(F, n)
        /\ Goeson(f, lock) => G \in Lock /\ Before(n, G)
    BY <1>2, <2>1 DEF PartOf, Inside, Proper
  <2>6. CASE Sticks(f, lock) /\ Goeson(f, lock)
    <3>1. P = (<<F>> \o <<n>>) \o <<G>>
      BY <2>2, <2>6 DEF InFront, Behind, F, G
    <3>2. P \in Seq(Lock) /\ DOMAIN P = {1, 2, 3} /\ P[1] = F /\ P[2] = n /\ P[3] = G
      <4>1. F \in Lock /\ n \in Lock /\ G \in Lock
        BY <1>1, <2>5, <2>6
      <4> QED BY ONLY <3>1, <4>1, Three
    <3>3. Linked(P, f, lock, n, 2)
      <4>1. \A l, m \in DOMAIN P : l < m => (l = 1 /\ m = 2) \/ (l = 1 /\ m = 3) \/ (l = 2 /\ m = 3)
        BY <3>2
      <4>2. \A m \in DOMAIN P : m # 2 <=> m = 1 \/ m = 3
        BY <3>2
      <4> QED BY <2>1, <2>4, <2>5, <2>6, <3>2, <4>1, <4>2 DEF Linked
    <3> QED BY <3>3
  <2>7. CASE Sticks(f, lock) /\ ~ Goeson(f, lock)
    <3>1. P = (<<F>> \o <<n>>) \o << >>
      BY <2>2, <2>7 DEF InFront, Behind, F
    <3>2. PICK Q : Q = <<F>> \o <<n>>
      OBVIOUS
    <3>3. Q \in Seq(Lock) /\ DOMAIN Q = {1, 2} /\ Q[1] = F /\ Q[2] = n
      <4>1. F \in Lock /\ n \in Lock
        BY <1>1, <2>5, <2>7
      <4> QED BY ONLY <3>2, <4>1, Two
    <3>4. P = Q
      <4>1. Q \o << >> = Q
        BY ONLY <3>3
      <4> QED BY <3>1, <3>2, <4>1, Zenon
    <3>5. Linked(Q, f, lock, n, 2)
      <4>1. \A l, m \in DOMAIN Q : l < m => l = 1 /\ m = 2
        BY <3>3
      <4>2. \A m \in DOMAIN Q : m # 2 <=> m = 1
        BY <3>3
      <4> QED BY <2>1, <2>4, <2>5, <2>7, <3>3, <4>1, <4>2 DEF Linked
    <3> QED BY <3>4, <3>5
  <2>8. CASE ~ Sticks(f, lock) /\ Goeson(f, lock)
    <3>1. P = (<< >> \o <<n>>) \o <<G>>
      BY <2>2, <2>8 DEF InFront, Behind, G
    <3>2. P = <<n>> \o <<G>>
      <4>1. << >> \o <<n>> = <<n>>
        BY ONLY <1>1
      <4> QED BY <3>1, <4>1, Zenon
    <3>3. P \in Seq(Lock) /\ DOMAIN P = {1, 2} /\ P[1] = n /\ P[2] = G
      <4>1. n \in Lock /\ G \in Lock
        BY <1>1, <2>5, <2>8
      <4> QED BY ONLY <3>2, <4>1, Two
    <3>4. Linked(P, f, lock, n, 1)
      <4>1. \A l, m \in DOMAIN P : l < m => l = 1 /\ m = 2
        BY <3>3
      <4>2. \A m \in DOMAIN P : m # 1 <=> m = 2
        BY <3>3
      <4> QED BY <2>1, <2>4, <2>5, <2>8, <3>3, <4>1, <4>2 DEF Linked
    <3> QED BY <3>4
  <2>9. CASE ~ Sticks(f, lock) /\ ~ Goeson(f, lock)
    <3>1. P = (<< >> \o <<n>>) \o << >>
      BY <2>2, <2>9 DEF InFront, Behind
    <3>2. P = <<n>>
      <4>1. << >> \o <<n>> = <<n>> /\ <<n>> \o << >> = <<n>>
        BY ONLY <1>1
      <4> QED BY <3>1, <4>1, Zenon
    <3>3. P \in Seq(Lock) /\ DOMAIN P = {1} /\ P[1] = n
      BY ONLY <1>1, <3>2, One
    <3>4. Linked(P, f, lock, n, 1)
      <4>1. \A l, m \in DOMAIN P : ~ (l < m)
        BY <3>3
      <4> QED BY <2>4, <2>9, <3>3, <4>1 DEF Linked
    <3> QED BY <3>4
  <2> QED BY <2>6, <2>7, <2>8, <2>9
<1> QED BY <1>3, <1>4

\* The lock at the spot will do.
Freed(list, lock) ==
  Spot(list, lock) # Len(list) + 1 /\ WillDo(list[Spot(list, lock)], lock)

\* What addlock() leaves at the spot, P: n is the new lock.
SpotRow(list, lock, at, P, n) ==
  /\ at = Len(list) + 1 => P = <<n>>
  /\ at # Len(list) + 1 => /\ at \in DOMAIN list /\ Proper(list[at]) /\ list[at].id = lock.id
                           /\ Freed(list, lock) => P = <<Retyped(list[at], lock)>>
                           /\ ~ Freed(list, lock) => \E d : Linked(P, list[at], lock, n, d)

LEMMA AddedAtSpot ==
  ASSUME NEW list, Sound(list), NEW lock, Proper(lock)
  PROVE  SpotRow(list, lock, Spot(list, lock), Added(list, lock)[Spot(list, lock) - 1], NewLock(list, lock))
<1> SUFFICES ASSUME NEW at, at = Spot(list, lock), NEW P, P = Added(list, lock)[at - 1],
                    NEW n, n = NewLock(list, lock)
             PROVE  SpotRow(list, lock, at, P, n)
  OBVIOUS
<1>1. list \in Seq(Lock) /\ DOMAIN list = 1 .. Len(list) /\ Len(list) \in Nat
  BY DEF Sound
<1>2. /\ at \in 1 .. (Len(list) + 1)
      /\ at # Len(list) + 1 => at \in DOMAIN list /\ list[at].id = lock.id /\ ~ Before(list[at], lock)
  BY SpotIs
<1>3. at - 1 \in 0 .. Len(list) /\ (at - 1) + 1 = at /\ (at - 1 = Len(list) <=> at = Len(list) + 1)
  BY <1>1, <1>2
<1>4. Proper(n) /\ n.start = lock.start /\ n.end = lock.end
  BY NewLockIs
<1>5. Here(list, lock, at) = <<n>>
  BY DEF Here
<1>6. CASE at = Len(list) + 1
  BY <1>3, <1>5, <1>6 DEF Added, SpotRow
<1>7. CASE at # Len(list) + 1
  <2>1. PICK f : f = list[at]
    OBVIOUS
  <2>2. at \in DOMAIN list /\ Proper(f) /\ f.id = lock.id /\ ~ Before(f, lock)
    BY <1>2, <1>7, <2>1 DEF Sound
  <2>3. P = SetOne(f, lock, <<n>>)
    BY <1>3, <1>5, <1>7, <2>1, <2>2 DEF Added
  <2>4. CASE Freed(list, lock)
    <3>1. WillDo(f, lock)
      BY <2>1, <2>4 DEF Freed
    <3>2. P = <<Retyped(f, lock)>>
      BY <2>2, <2>3, <3>1, SetOneWillDo
    <3> QED BY <1>7, <2>1, <2>2, <2>4, <3>2 DEF SpotRow
  <2>5. CASE ~ Freed(list, lock)
    <3>1. ~ WillDo(f, lock)
      BY <1>7, <2>1, <2>5 DEF Freed
    <3>2. \E d : Linked(P, f, lock, n, d)
      BY <1>4, <2>2, <2>3, <3>1, LinkedAt
    <3> QED BY <1>7, <2>1, <2>2, <2>5, <3>2 DEF SpotRow
  <2> QED BY <2>4, <2>5
<1> QED BY <1>6, <1>7

LEMMA RetypedIs ==
  ASSUME NEW f, NEW lock, Proper(f), Proper(lock), NEW g, g = Retyped(f, lock)
  PROVE  /\ g \in Lock /\ Inside(g, f) /\ g.type = lock.type /\ g.start = f.start /\ g.end = f.end
         /\ g.blk = IF ovcase(f, lock) = 1 /\ downgrade(f, lock) THEN {} ELSE f.blk
<1>1. f \in Lock /\ lock \in Lock
  BY DEF Proper
<1>2. /\ g.id = f.id /\ g.type = lock.type /\ g.start = f.start /\ g.end = f.end
      /\ g.blk = IF ovcase(f, lock) = 1 /\ downgrade(f, lock) THEN {} ELSE f.blk
  BY DEF Retyped
<1>3. g \in Lock
  BY <1>1 DEF Retyped, Lock
<1>4. f.start \in Nat /\ f.end \in Nat \cup {-1}
  BY <1>1 DEF Lock, EOF_
<1>5. Inside(g, f)
  BY <1>2, <1>3, <1>4 DEF Inside, Proper, EOF_
<1> QED BY <1>2, <1>3, <1>5

\* Where a lock of the new list comes from, and on which side of the range it
\* is: P is list b, n the new lock.
RowFrom(list, lock, b, at, P, n) ==
  /\ P \in Seq(Lock)
  /\ \A m \in DOMAIN P :
       /\ Proper(P[m])
       /\ \/ /\ b # Len(list) /\ Inside(P[m], list[b + 1])
             /\ list[b + 1].id = lock.id => /\ b + 1 < at => Before(P[m], lock)
                                            /\ b + 1 > at => Before(lock, P[m])
          \/ P[m] = n /\ b + 1 = at /\ ~ Freed(list, lock)
  /\ \A l, m \in DOMAIN P : l < m => Before(P[l], P[m])

LEMMA AddedRow ==
  ASSUME NEW list, Sound(list), NEW lock, Proper(lock), NEW b \in 0 .. Len(list)
  PROVE  RowFrom(list, lock, b, Spot(list, lock), Added(list, lock)[b], NewLock(list, lock))
<1> SUFFICES ASSUME NEW at, at = Spot(list, lock), NEW P, P = Added(list, lock)[b],
                    NEW n, n = NewLock(list, lock)
             PROVE  RowFrom(list, lock, b, at, P, n)
  OBVIOUS
<1>1. list \in Seq(Lock) /\ Len(list) \in Nat
  BY DEF Sound
<1>2. at \in 1 .. (Len(list) + 1)
  BY SpotIs
<1>3. CASE b + 1 # at
  <2>1. CASE b = Len(list)
    <3>1. P = << >>
      BY <1>3, <2>1 DEF Added, Here
    <3> QED BY <3>1 DEF RowFrom
  <2>2. CASE b # Len(list)
    <3>1. b \in 0 .. (Len(list) - 1)
      BY <1>1, <2>2, RowOfLock
    <3>2. P = Cleared(list, lock)[b]
      BY <1>3, <3>1, AddedElsewhere
    <3>3. list[b + 1].id = lock.id => \A m \in DOMAIN P : /\ b + 1 < at => Before(P[m], lock)
                                                          /\ b + 1 > at => Before(lock, P[m])
      BY <1>3, <3>1, AddedElsewhere
    <3>4. PartsOf(P, list[b + 1])
      BY <3>1, <3>2, ClearedParts
    <3> QED BY <2>2, <3>3, <3>4 DEF RowFrom, PartsOf, PartOf, Inside
  <2> QED BY <2>1, <2>2
<1>4. CASE b + 1 = at
  <2>1. b = at - 1 /\ ~ (b + 1 < at) /\ ~ (b + 1 > at) /\ (b = Len(list) <=> at = Len(list) + 1)
    BY <1>1, <1>2, <1>4
  <2>2. P = Added(list, lock)[at - 1]
    BY <2>1
  <2>3. n \in Lock /\ Proper(n)
    BY NewLockIs
  <2>7. SpotRow(list, lock, at, P, n)
    BY <2>2, AddedAtSpot
  <2>4. CASE at = Len(list) + 1
    <3>1. P = <<n>>
      BY <2>4, <2>7 DEF SpotRow
    <3>2. P \in Seq(Lock) /\ DOMAIN P = {1} /\ P[1] = n
      BY ONLY <2>3, <3>1, One
    <3>3. ~ Freed(list, lock)
      BY <2>4 DEF Freed
    <3>4. \A l, m \in DOMAIN P : ~ (l < m)
      BY <3>2
    <3> QED BY <1>4, <2>3, <3>2, <3>3, <3>4 DEF RowFrom
  <2>5. CASE at # Len(list) + 1 /\ Freed(list, lock)
    <3>1. PICK g : g = Retyped(list[at], lock)
      OBVIOUS
    <3>2. P = <<g>> /\ Proper(list[at])
      BY <2>5, <2>7, <3>1 DEF SpotRow
    <3>3. g \in Lock /\ Inside(g, list[at])
      BY <3>1, <3>2, RetypedIs
    <3>4. P \in Seq(Lock) /\ DOMAIN P = {1} /\ P[1] = g
      BY ONLY <3>2, <3>3, One
    <3>5. \A l, m \in DOMAIN P : ~ (l < m)
      BY <3>4
    <3> QED BY <1>4, <2>1, <2>5, <3>3, <3>4, <3>5 DEF Inside, RowFrom
  <2>6. CASE at # Len(list) + 1 /\ ~ Freed(list, lock)
    <3>1. \E d : Linked(P, list[at], lock, n, d)
      BY <2>6, <2>7 DEF SpotRow
    <3>2. PICK d : Linked(P, list[at], lock, n, d)
      BY <3>1
    <3>3. P \in Seq(Lock) /\ \A l, m \in DOMAIN P : l < m => Before(P[l], P[m])
      BY <3>2 DEF Linked
    <3>4. \A m \in DOMAIN P : (m = d /\ P[m] = n) \/ (Inside(P[m], list[at]) /\ Proper(P[m]))
      BY <3>2 DEF Linked, PartOf, Inside
    <3> QED BY <1>4, <2>1, <2>3, <2>6, <3>3, <3>4 DEF RowFrom
  <2> QED BY <2>4, <2>5, <2>6
<1> QED BY <1>3, <1>4

\* lf_setlock() keeps the list sound.
LEMMA AddSound ==
  ASSUME NEW list, Sound(list), NEW lock, Proper(lock)
  PROVE  Sound(addlock(list, lock))
<1>1. PICK N, q, at, n : /\ N = Len(list) + 1 /\ q = Added(list, lock)
                         /\ at = Spot(list, lock) /\ n = NewLock(list, lock)
  OBVIOUS
<1>2. list \in Seq(Lock) /\ Len(list) \in Nat /\ N \in Nat /\ 0 .. (N - 1) = 0 .. Len(list)
  BY <1>1 DEF Sound
<1>3. n.id = lock.id /\ n.start = lock.start /\ n.end = lock.end
  BY <1>1, NewLockIs
<1>4. at \in Int
  <2>1. at \in 1 .. (Len(list) + 1)
    BY <1>1, SpotIs
  <2> QED BY <2>1
<1>5. ASSUME NEW b \in 0 .. (N - 1)
      PROVE  /\ q[b] \in Seq(Lock)
             /\ \A m \in DOMAIN q[b] :
                  /\ Proper(q[b][m])
                  /\ \/ /\ b # Len(list) /\ Inside(q[b][m], list[b + 1])
                        /\ list[b + 1].id = lock.id => /\ b + 1 < at => Before(q[b][m], lock)
                                                       /\ b + 1 > at => Before(lock, q[b][m])
                     \/ q[b][m] = n /\ b + 1 = at
             /\ \A l, m \in DOMAIN q[b] : l < m => Before(q[b][l], q[b][m])
  <2>1. b \in 0 .. Len(list)
    BY <1>2
  <2>2. RowFrom(list, lock, b, at, q[b], n)
    BY <1>1, <2>1, AddedRow
  <2> QED BY <2>2 DEF RowFrom
<1>6. ASSUME NEW a \in 0 .. (N - 1), NEW b \in 0 .. (N - 1), a < b,
             NEW l \in DOMAIN q[a], NEW m \in DOMAIN q[b], q[a][l].id = q[b][m].id
      PROVE  Before(q[a][l], q[b][m])
  <2>1. PICK e, g : e = q[a][l] /\ g = q[b][m]
    OBVIOUS
  <2>2. /\ \/ /\ a # Len(list) /\ Inside(e, list[a + 1])
              /\ list[a + 1].id = lock.id => /\ a + 1 < at => Before(e, lock)
                                             /\ a + 1 > at => Before(lock, e)
           \/ e = n /\ a + 1 = at
        /\ \/ /\ b # Len(list) /\ Inside(g, list[b + 1])
              /\ list[b + 1].id = lock.id => /\ b + 1 < at => Before(g, lock)
                                             /\ b + 1 > at => Before(lock, g)
           \/ g = n /\ b + 1 = at
        /\ e.id = g.id
    BY <1>5, <1>6, <2>1
  <2>3. a \in Int /\ b \in Int /\ a + 1 < b + 1 /\ a # b
    BY <1>2, <1>6
  <2>4. CASE e = n /\ a + 1 = at
    <3>1. b + 1 > at /\ b + 1 # at
      BY <1>4, <2>3, <2>4
    <3>2. list[b + 1].id = lock.id
      BY <1>3, <2>2, <2>4, <3>1 DEF Inside
    <3>3. Before(lock, g)
      BY <2>2, <3>1, <3>2
    <3> QED BY <1>3, <2>1, <2>4, <3>3 DEF Before
  <2>5. CASE g = n /\ b + 1 = at
    <3>1. a + 1 < at /\ a + 1 # at
      BY <1>4, <2>3, <2>5
    <3>2. list[a + 1].id = lock.id
      BY <1>3, <2>2, <2>5, <3>1 DEF Inside
    <3>3. Before(e, lock)
      BY <2>2, <3>1, <3>2
    <3> QED BY <1>3, <2>1, <2>5, <3>3 DEF Before
  <2>6. CASE a # Len(list) /\ Inside(e, list[a + 1]) /\ b # Len(list) /\ Inside(g, list[b + 1])
    <3>1. a + 1 \in DOMAIN list /\ b + 1 \in DOMAIN list
      <4>1. a \in 0 .. Len(list) /\ b \in 0 .. Len(list)
        BY <1>2
      <4> QED BY <1>2, <2>6, <4>1, RowOfLock
    <3>2. list[a + 1].id = list[b + 1].id
      BY <2>2, <2>6 DEF Inside
    <3>3. Before(list[a + 1], list[b + 1]) /\ Proper(list[a + 1]) /\ Proper(list[b + 1])
      BY <2>3, <3>1, <3>2 DEF Sound
    <3> QED BY <2>1, <2>6, <3>3, PartsBefore
  <2> QED BY <2>2, <2>4, <2>5, <2>6
<1>7. Sound(Joined(q, N))
  <2>1. \A b \in 0 .. (N - 1) : q[b] \in Seq(Lock) /\ \A m \in DOMAIN q[b] : Proper(q[b][m])
    BY <1>5
  <2>2. \A b \in 0 .. (N - 1) : \A l, m \in DOMAIN q[b] :
          l < m /\ q[b][l].id = q[b][m].id => Before(q[b][l], q[b][m])
    BY <1>5
  <2>3. \A a, b \in 0 .. (N - 1) : a < b => \A l \in DOMAIN q[a], m \in DOMAIN q[b] :
          q[a][l].id = q[b][m].id => Before(q[a][l], q[b][m])
    BY <1>6
  <2> QED BY <1>2, <2>1, <2>2, <2>3, JoinedSound
<1> QED BY <1>1, <1>7, AddIs

\* What owner o gets of byte x in mode m, and has at the spot.
Gets(lock, o, x, m) == o = lock.id /\ m = lock.type /\ Covers(lock, x)

LEMMA SpotRowHas ==
  ASSUME NEW list, Sound(list), NEW lock, Proper(lock), NEW o, NEW x \in Nat, NEW m
  PROVE  Has(Added(list, lock)[Spot(list, lock) - 1], o, x, m)
           <=> \/ Gets(lock, o, x, m)
               \/ Spot(list, lock) # Len(list) + 1 /\ Keeps(list, lock, Spot(list, lock), o, x, m)
<1> SUFFICES ASSUME NEW at, at = Spot(list, lock)
             PROVE  Has(Added(list, lock)[at - 1], o, x, m)
                      <=> Gets(lock, o, x, m) \/ (at # Len(list) + 1 /\ Keeps(list, lock, at, o, x, m))
  OBVIOUS
<1> USE DEF Gets, Keeps
<1>1. PICK P, n : P = Added(list, lock)[at - 1] /\ n = NewLock(list, lock)
  OBVIOUS
<1>2. SpotRow(list, lock, at, P, n)
  BY <1>1, AddedAtSpot
<1>3. n \in Lock /\ n.id = lock.id /\ n.type = lock.type /\ n.start = lock.start /\ n.end = lock.end
  BY <1>1, NewLockIs
<1>4. Covers(n, x) <=> Covers(lock, x)
  BY <1>3 DEF Covers
<1>5. CASE at = Len(list) + 1
  <2>1. P = <<n>>
    BY <1>2, <1>5 DEF SpotRow
  <2>2. DOMAIN P = {1} /\ P[1] = n
    BY <2>1
  <2> QED BY <1>1, <1>3, <1>4, <1>5, <2>2 DEF Has
<1>6. CASE at # Len(list) + 1 /\ ~ Freed(list, lock)
  <2>1. Proper(list[at]) /\ list[at].id = lock.id /\ \E d : Linked(P, list[at], lock, n, d)
    BY <1>2, <1>6 DEF SpotRow
  <2>2. PICK d : Linked(P, list[at], lock, n, d)
    BY <2>1
  <2>3. /\ d \in DOMAIN P /\ P[d] = n
        /\ \A k \in DOMAIN P : k # d => P[k].id = list[at].id /\ P[k].type = list[at].type
        /\ (\E k \in DOMAIN P : k # d /\ Covers(P[k], x)) <=> Covers(list[at], x) /\ ~ Covers(lock, x)
    BY <2>2 DEF Linked, PartOf, Inside
  <2> QED BY <1>1, <1>3, <1>4, <1>6, <2>1, <2>3 DEF Has
<1>7. CASE at # Len(list) + 1 /\ Freed(list, lock)
  <2>1. PICK f, g : f = list[at] /\ g = Retyped(f, lock)
    OBVIOUS
  <2>2. P = <<g>> /\ Proper(f) /\ f.id = lock.id
    BY <1>2, <1>7, <2>1 DEF SpotRow
  <2>3. g.id = f.id /\ g.type = lock.type /\ g.start = f.start /\ g.end = f.end
    BY <2>1, <2>2, RetypedIs DEF Inside
  <2>4. Has(P, o, x, m) <=> o = lock.id /\ m = lock.type /\ Covers(f, x)
    <3>1. DOMAIN P = {1} /\ P[1] = g
      BY <2>2
    <3>2. Covers(g, x) <=> Covers(f, x)
      BY <2>3 DEF Covers
    <3> QED BY <2>2, <2>3, <3>1, <3>2 DEF Has
  <2>5. Overlap(f, lock) /\ (ovcase(f, lock) = 1 \/ (ovcase(f, lock) = 2 /\ f.type = lock.type))
    BY <1>1, <1>7, <2>1 DEF Freed, WillDo
  <2>6. /\ f.start \in Nat /\ f.end \in Nat \cup {-1} /\ lock.start \in Nat /\ lock.end \in Nat \cup {-1}
    BY <2>2 DEF Proper, Lock, EOF_
  <2>7. CASE ovcase(f, lock) = 1
    <3>1. f.start = lock.start /\ f.end = lock.end
      BY <2>2, <2>5, <2>7, CasesOfOverlap
    <3>2. Covers(f, x) <=> Covers(lock, x)
      BY <3>1 DEF Covers
    <3> QED BY <1>1, <1>7, <2>1, <2>2, <2>4, <3>2
  <2>8. CASE ovcase(f, lock) = 2 /\ f.type = lock.type
    <3>1. /\ (f.start = lock.start /\ Goeson(f, lock)) \/ Sticks(f, lock)
          /\ f.end = lock.end \/ Goeson(f, lock)
      BY <2>2, <2>5, <2>8, CasesOfOverlap
    <3>2. Covers(lock, x) => Covers(f, x)
      BY <2>6, <3>1 DEF Covers, Sticks, Goeson, EOF_
    <3> QED BY <1>1, <1>7, <2>1, <2>2, <2>4, <2>8, <3>2
  <2> QED BY <2>5, <2>7, <2>8
<1> QED BY <1>5, <1>6, <1>7

\* lf_setlock() gives the owner the range in the mode it asked for, and
\* changes nothing else.
LEMMA AddHas ==
  ASSUME NEW list, Sound(list), NEW lock, Proper(lock), NEW o, NEW x \in Nat, NEW m
  PROVE  Has(addlock(list, lock), o, x, m)
           <=> \/ Gets(lock, o, x, m)
               \/ Has(list, o, x, m) /\ ~ (o = lock.id /\ Covers(lock, x))
<1>1. PICK N, q, at : N = Len(list) + 1 /\ q = Added(list, lock) /\ at = Spot(list, lock)
  OBVIOUS
<1>2. PICK k \in Nat : k = Len(list) /\ DOMAIN list = 1 .. k /\ list \in Seq(Lock)
  BY DEF Sound
<1>3. at \in 1 .. (k + 1) /\ N = k + 1 /\ N \in Nat /\ 0 .. (N - 1) = 0 .. k
  BY <1>1, <1>2, SpotIs
<1>4. \A b \in 0 .. (N - 1) : q[b] \in Seq(Lock)
  <2> SUFFICES ASSUME NEW b \in 0 .. Len(list) PROVE q[b] \in Seq(Lock)
    BY <1>2, <1>3
  <2> QED BY <1>1, AddedRow DEF RowFrom
<1>5. ASSUME NEW b \in 0 .. k, b + 1 # at
      PROVE  Has(q[b], o, x, m) <=> b # k /\ Keeps(list, lock, b + 1, o, x, m)
  <2>1. CASE b = k
    <3>1. q[b] = << >>
      BY <1>1, <1>2, <1>5, <2>1 DEF Added, Here
    <3> QED BY <2>1, <3>1 DEF Has
  <2>2. CASE b # k
    <3>1. b \in 0 .. (Len(list) - 1)
      BY <1>2, <2>2
    <3>2. q[b] = Cleared(list, lock)[b]
      BY <1>1, <1>5, <3>1, AddedElsewhere
    <3> QED BY <2>2, <3>1, <3>2, ClearedRowHas
  <2> QED BY <2>1, <2>2
<1>6. Has(q[at - 1], o, x, m) <=> Gets(lock, o, x, m) \/ (at # k + 1 /\ Keeps(list, lock, at, o, x, m))
  BY <1>1, <1>2, SpotRowHas
<1>7. Has(Joined(q, N), o, x, m) <=> \E b \in 0 .. k : Has(q[b], o, x, m)
  BY <1>3, <1>4, JoinedHas
<1>8. (\E b \in 0 .. k : Has(q[b], o, x, m)) <=> Gets(lock, o, x, m) \/ \E i \in 1 .. k : Keeps(list, lock, i, o, x, m)
  <2>1. at - 1 \in 0 .. k /\ (at - 1) + 1 = at /\ (at # k + 1 => at \in 1 .. k)
    BY <1>3
  <2>2. ASSUME NEW b \in 0 .. k, Has(q[b], o, x, m)
        PROVE  Gets(lock, o, x, m) \/ \E i \in 1 .. k : Keeps(list, lock, i, o, x, m)
    <3>1. CASE b + 1 = at
      <4>1. b = at - 1
        BY <1>3, <3>1
      <4> QED BY <1>6, <2>1, <2>2, <4>1
    <3>2. CASE b + 1 # at
      <4>1. b # k /\ Keeps(list, lock, b + 1, o, x, m)
        BY <1>5, <2>2, <3>2
      <4>2. b + 1 \in 1 .. k
        BY <4>1
      <4> QED BY <4>1, <4>2
    <3> QED BY <3>1, <3>2
  <2>3. Gets(lock, o, x, m) => \E b \in 0 .. k : Has(q[b], o, x, m)
    BY <1>6, <2>1
  <2>4. ASSUME NEW i \in 1 .. k, Keeps(list, lock, i, o, x, m)
        PROVE  \E b \in 0 .. k : Has(q[b], o, x, m)
    <3>1. CASE i = at
      BY <1>3, <1>6, <2>1, <2>4, <3>1
    <3>2. CASE i # at
      <4>1. i - 1 \in 0 .. k /\ (i - 1) + 1 = i /\ i - 1 # k
        OBVIOUS
      <4>2. Has(q[i - 1], o, x, m)
        BY <1>5, <2>4, <3>2, <4>1
      <4> QED BY <4>1, <4>2
    <3> QED BY <3>1, <3>2
  <2> QED BY <2>2, <2>3, <2>4
<1>9. (\E i \in 1 .. k : Keeps(list, lock, i, o, x, m)) <=> Has(list, o, x, m) /\ ~ (o = lock.id /\ Covers(lock, x))
  BY <1>2 DEF Keeps, Has
<1>10. addlock(list, lock) = Joined(q, N)
  BY <1>1, AddIs
<1> QED BY <1>7, <1>8, <1>9, <1>10

\* A lock that has all the bytes of f, of the same owner and not in a weaker
\* mode, conflicts with what f conflicts with.
LEMMA ConflictKept ==
  ASSUME NEW f, NEW g, NEW w, Proper(f), Proper(g), w \in Lock, Conflict(f, w),
         g.id = f.id, ~ Sticks(f, g), ~ Goeson(f, g), ~ downgrade(f, g)
  PROVE  Conflict(g, w)
<1>1. /\ f.start \in Nat /\ f.end \in Nat \cup {-1} /\ g.start \in Nat /\ g.end \in Nat \cup {-1}
      /\ w.start \in Nat /\ w.end \in Nat \cup {-1}
  BY DEF Proper, Lock, EOF_
<1>2. Overlap(g, w)
  BY <1>1 DEF Conflict, Overlap, reaches, Sticks, Goeson, EOF_
<1>3. f.type = "F_WRLCK" => g.type = "F_WRLCK"
  BY DEF downgrade, Proper, Lock
<1> QED BY <1>2, <1>3 DEF Conflict

\* p is in list b, and thread t, which is in its blocked list, was in the one
\* of lock i.
Moved(list, lock, b, at, p, n, t, i) ==
  /\ i \in DOMAIN list /\ t \in list[i].blk
  /\ \/ i = b + 1 /\ p = list[i] /\ ~ (list[i].id = lock.id /\ Overlap(list[i], lock))
     \/ /\ b + 1 = at /\ ~ Freed(list, lock) /\ p = n /\ list[i].id = lock.id
        /\ Overlap(list[i], lock) /\ ovcase(list[i], lock) = 3 /\ ~ downgrade(list[i], lock)
     \/ /\ i = b + 1 /\ b + 1 = at /\ Freed(list, lock) /\ p = Retyped(list[i], lock)
        /\ list[i].id = lock.id /\ Overlap(list[i], lock) /\ ~ downgrade(list[i], lock)

RowWaits(list, lock, b, at, P, n) ==
  \A m \in DOMAIN P : \A t \in P[m].blk : \E i : Moved(list, lock, b, at, P[m], n, t, i)

LEMMA AddedRowWaits ==
  ASSUME NEW list, Sound(list), NEW lock, Proper(lock), NEW b \in 0 .. Len(list)
  PROVE  RowWaits(list, lock, b, Spot(list, lock), Added(list, lock)[b], NewLock(list, lock))
<1> SUFFICES ASSUME NEW at, at = Spot(list, lock), NEW P, P = Added(list, lock)[b],
                    NEW n, n = NewLock(list, lock), NEW m \in DOMAIN P, NEW t \in P[m].blk
             PROVE  \E i : Moved(list, lock, b, at, P[m], n, t, i)
  BY DEF RowWaits
<1>1. list \in Seq(Lock) /\ Len(list) \in Nat
  BY DEF Sound
<1>2. at \in 1 .. (Len(list) + 1)
  BY SpotIs
<1>3. CASE b + 1 # at
  <2>1. b # Len(list)
    <3> SUFFICES ASSUME b = Len(list) PROVE FALSE
      OBVIOUS
    <3>1. P = << >>
      BY <1>3 DEF Added, Here
    <3> QED BY <3>1
  <2>2. b \in 0 .. (Len(list) - 1)
    BY <1>1, <2>1, RowOfLock
  <2>3. P = Cleared(list, lock)[b]
    BY <1>3, <2>2, AddedElsewhere
  <2>4. PICK f : f = list[b + 1]
    OBVIOUS
  <2>5. b + 1 \in DOMAIN list /\ PartsOf(P, f)
    BY <2>2, <2>3, <2>4, ClearedParts
  <2>6. P = <<f>>
    BY <2>5 DEF PartsOf
  <2>7. P[m] = f
    BY <2>6
  <2>8. ~ (f.id = lock.id /\ Overlap(f, lock))
    <3> SUFFICES ASSUME f.id = lock.id, Overlap(f, lock) PROVE FALSE
      OBVIOUS
    <3>1. Before(f, lock) \/ Before(lock, f)
      BY <2>2, <2>3, <2>4, <2>7, ClearedParts
    <3>2. Proper(f)
      BY <2>4, <2>5 DEF Sound
    <3> QED BY <3>1, <3>2, OverlapOrBefore
  <2> QED BY <2>4, <2>5, <2>7, <2>8 DEF Moved
<1>4. CASE b + 1 = at
  <2>1. b = at - 1 /\ (b = Len(list) <=> at = Len(list) + 1)
    BY <1>1, <1>2, <1>4
  <2>2. P = Added(list, lock)[at - 1]
    BY <2>1
  <2>3. SpotRow(list, lock, at, P, n)
    BY <2>2, AddedAtSpot
  <2>4. n \in Lock /\ n.blk = waiters(list, lock)
    BY NewLockIs
  <2>5. ASSUME P[m] = n, ~ Freed(list, lock)
        PROVE  \E i : Moved(list, lock, b, at, P[m], n, t, i)
    <3>1. t \in waiters(list, lock)
      BY <2>4, <2>5
    <3>2. \E i \in DOMAIN list : /\ t \in list[i].blk /\ list[i].id = lock.id /\ Overlap(list[i], lock)
                                 /\ ovcase(list[i], lock) = 3 /\ ~ downgrade(list[i], lock)
      BY <3>1 DEF waiters, seen
    <3> QED BY <1>4, <2>5, <3>2 DEF Moved
  <2>6. CASE at = Len(list) + 1
    <3>1. P = <<n>>
      BY <2>3, <2>6 DEF SpotRow
    <3>2. P[m] = n
      BY <3>1
    <3>3. ~ Freed(list, lock)
      BY <2>6 DEF Freed
    <3> QED BY <2>5, <3>2, <3>3
  <2>7. CASE at # Len(list) + 1 /\ Freed(list, lock)
    <3>1. PICK f, g : f = list[at] /\ g = Retyped(f, lock)
      OBVIOUS
    <3>2. P = <<g>> /\ at \in DOMAIN list /\ Proper(f) /\ f.id = lock.id
      BY <2>3, <2>7, <3>1 DEF SpotRow
    <3>3. P[m] = g
      BY <3>2
    <3>4. WillDo(f, lock)
      BY <2>7, <3>1 DEF Freed
    <3>5. t \in f.blk /\ ~ (ovcase(f, lock) = 1 /\ downgrade(f, lock))
      BY <3>1, <3>3 DEF Retyped
    <3>6. Overlap(f, lock) /\ ~ downgrade(f, lock)
      BY <3>4, <3>5 DEF WillDo, downgrade
    <3> QED BY <1>4, <2>7, <3>1, <3>2, <3>3, <3>5, <3>6 DEF Moved
  <2>8. CASE at # Len(list) + 1 /\ ~ Freed(list, lock)
    <3>1. PICK f : f = list[at]
      OBVIOUS
    <3>2. at \in DOMAIN list /\ \E d : Linked(P, f, lock, n, d)
      BY <2>3, <2>8, <3>1 DEF SpotRow
    <3>3. PICK d : Linked(P, f, lock, n, d)
      BY <3>2
    <3>4. CASE m = d
      BY <2>5, <2>8, <3>3, <3>4 DEF Linked
    <3>5. CASE m # d
      <4>1. P[m] = f /\ ~ Overlap(f, lock)
        BY <3>3, <3>5 DEF Linked
      <4> QED BY <1>4, <3>1, <3>2, <4>1 DEF Moved
    <3> QED BY <3>4, <3>5
  <2> QED BY <2>6, <2>7, <2>8
<1> QED BY <1>3, <1>4

\* It wakes who waits for a lock that it changes, or lets them wait for the
\* lock that replaces it, and nobody else is moved.
LEMMA AddWaits ==
  ASSUME NEW list, Sound(list), NEW lock, Proper(lock), NEW want, NEW D, Waits(list, want, D),
         \A t \in D : want[t] \in Lock
  PROVE  Waits(addlock(list, lock), want, D)
<1>1. PICK N, q, at, n : /\ N = Len(list) + 1 /\ q = Added(list, lock)
                         /\ at = Spot(list, lock) /\ n = NewLock(list, lock)
  OBVIOUS
<1>2. list \in Seq(Lock) /\ Len(list) \in Nat /\ N \in Nat /\ 0 .. (N - 1) = 0 .. Len(list)
  BY <1>1 DEF Sound
<1>3. \A b \in 0 .. (N - 1) : q[b] \in Seq(Lock)
  <2> SUFFICES ASSUME NEW b \in 0 .. Len(list) PROVE q[b] \in Seq(Lock)
    BY <1>2
  <2> QED BY <1>1, AddedRow DEF RowFrom
<1>4. ASSUME NEW b \in 0 .. (N - 1), NEW l \in DOMAIN q[b], NEW m \in DOMAIN q[b], q[b][l] = q[b][m]
      PROVE  l = m
  <2>1. b \in 0 .. Len(list)
    BY <1>2
  <2>2. RowFrom(list, lock, b, at, q[b], n)
    BY <1>1, <2>1, AddedRow
  <2>3. PICK p : p = q[b][l]
    OBVIOUS
  <2>4. Proper(p) /\ (l < m \/ m < l => Before(p, p))
    BY <1>4, <2>2, <2>3 DEF RowFrom
  <2>5. ~ Before(p, p)
    <3>1. p.start \in Nat /\ p.end \in Nat \cup {-1} /\ (p.end = -1 \/ p.start <= p.end)
      BY <2>4 DEF Proper, Lock, EOF_
    <3> QED BY <3>1 DEF Before, EOF_
  <2>6. l \in Int /\ m \in Int
    BY <1>3
  <2> QED BY <2>4, <2>5, <2>6
<1>5. ASSUME NEW b \in 0 .. (N - 1), NEW m \in DOMAIN q[b], NEW t \in q[b][m].blk
      PROVE  \E i : Moved(list, lock, b, at, q[b][m], n, t, i)
  <2>1. b \in 0 .. Len(list)
    BY <1>2
  <2>2. RowWaits(list, lock, b, at, q[b], n)
    BY <1>1, <2>1, AddedRowWaits
  <2> QED BY <2>2 DEF RowWaits
<1>6. ASSUME NEW t \in Threads, NEW b \in 0 .. (N - 1), NEW m \in DOMAIN q[b], t \in q[b][m].blk
      PROVE  t \in D /\ Conflict(q[b][m], want[t])
  <2>1. PICK p, w : p = q[b][m] /\ w = want[t]
    OBVIOUS
  <2>2. \E i : Moved(list, lock, b, at, p, n, t, i)
    BY <1>5, <1>6, <2>1
  <2>3. PICK i : Moved(list, lock, b, at, p, n, t, i)
    BY <2>2
  <2>4. PICK f : f = list[i]
    OBVIOUS
  <2>5. i \in DOMAIN list /\ Proper(f) /\ t \in D /\ Conflict(f, w) /\ w \in Lock
    BY <2>1, <2>3, <2>4 DEF Moved, Waits, BlockedAt, Sound
  <2>6. CASE p = f
    BY <2>1, <2>5, <2>6
  <2>7. CASE p = n /\ f.id = lock.id /\ Overlap(f, lock) /\ ovcase(f, lock) = 3 /\ ~ downgrade(f, lock)
    <3>1. /\ Proper(n) /\ n.id = lock.id /\ n.type = lock.type
          /\ n.start = lock.start /\ n.end = lock.end
      BY <1>1, NewLockIs
    <3>2. ~ Sticks(f, lock) /\ ~ Goeson(f, lock)
      BY <2>5, <2>7, CasesOfOverlap
    <3>3. ~ Sticks(f, n) /\ ~ Goeson(f, n) /\ ~ downgrade(f, n)
      BY <2>7, <3>1, <3>2 DEF Sticks, Goeson, downgrade
    <3>4. Conflict(n, w)
      BY <2>5, <2>7, <3>1, <3>3, ConflictKept
    <3> QED BY <2>1, <2>5, <2>7, <3>4
  <2>8. CASE p = Retyped(f, lock) /\ ~ downgrade(f, lock)
    <3>1. p \in Lock /\ Inside(p, f) /\ p.type = lock.type /\ p.start = f.start /\ p.end = f.end
      BY <2>5, <2>8, RetypedIs
    <3>2. f.start \in Nat /\ f.end \in Nat \cup {-1}
      BY <2>5 DEF Proper, Lock, EOF_
    <3>3. Proper(p) /\ p.id = f.id /\ ~ Sticks(f, p) /\ ~ Goeson(f, p) /\ ~ downgrade(f, p)
      BY <2>8, <3>1, <3>2 DEF Inside, Sticks, Goeson, downgrade, EOF_
    <3>4. Conflict(p, w)
      BY <2>5, <3>3, ConflictKept
    <3> QED BY <2>1, <2>5, <3>4
  <2> QED BY <2>3, <2>4, <2>6, <2>7, <2>8 DEF Moved
<1>7. ASSUME NEW t \in Threads, NEW a \in 0 .. (N - 1), NEW b \in 0 .. (N - 1),
             NEW l \in DOMAIN q[a], NEW m \in DOMAIN q[b], t \in q[a][l].blk, t \in q[b][m].blk
      PROVE  a = b /\ l = m
  <2>1. PICK p, r : p = q[a][l] /\ r = q[b][m]
    OBVIOUS
  <2>2. PICK i : Moved(list, lock, a, at, p, n, t, i)
    BY <1>5, <1>7, <2>1
  <2>3. PICK j : Moved(list, lock, b, at, r, n, t, j)
    BY <1>5, <1>7, <2>1
  <2>4. i \in BlockedAt(list, t) /\ j \in BlockedAt(list, t)
    BY <2>2, <2>3 DEF Moved, BlockedAt
  <2>5. i = j
    BY <2>4 DEF Waits
  <2>6. p = r /\ a + 1 = b + 1
    BY <2>2, <2>3, <2>5 DEF Moved
  <2>7. a = b
    BY <1>2, <2>6
  <2>8. q[b][l] = q[b][m] /\ l \in DOMAIN q[b]
    BY <2>1, <2>6, <2>7
  <2> QED BY <1>4, <2>7, <2>8
<1>8. Waits(Joined(q, N), want, D)
  BY <1>2, <1>3, <1>6, <1>7, JoinedWaits
<1> QED BY <1>1, <1>8, AddIs

-----------------------------------------------------------------------------
(* What an action makes of the list. *)

\* Two lists that differ in their blocked lists only.
SameLocks(list, other) ==
  /\ other \in Seq(Lock) /\ DOMAIN other = DOMAIN list
  /\ \A i \in DOMAIN list : /\ other[i].id = list[i].id /\ other[i].type = list[i].type
                            /\ other[i].start = list[i].start /\ other[i].end = list[i].end

LEMMA SameLocksSound ==
  ASSUME NEW list, Sound(list), NEW other, SameLocks(list, other)
  PROVE  Sound(other)
<1>1. \A i \in DOMAIN other : other[i] \in Lock
  BY DEF SameLocks
<1>2. \A i \in DOMAIN other : Proper(other[i])
  BY <1>1 DEF SameLocks, Sound, Proper
<1>3. \A i, j \in DOMAIN other : i < j /\ other[i].id = other[j].id => Before(other[i], other[j])
  BY DEF SameLocks, Sound, Before
<1> QED BY <1>2, <1>3 DEF SameLocks, Sound

LEMMA SameLocksHas ==
  ASSUME NEW list, NEW other, SameLocks(list, other), NEW o, NEW x, NEW m
  PROVE  Has(other, o, x, m) <=> Has(list, o, x, m)
BY DEF SameLocks, Has, Covers

\* A thread that sleeps on nothing may leave the sleepers.
LEMMA WaitsWithout ==
  ASSUME NEW list, NEW want, NEW D, Waits(list, want, D), NEW t, BlockedAt(list, t) = {}
  PROVE  Waits(list, want, D \ {t})
BY DEF Waits

\* The sleepers and what they want may grow.
LEMMA WaitsMore ==
  ASSUME NEW list, NEW want, NEW D, Waits(list, want, D), NEW want2, NEW D2,
         \A t \in D : t \in D2 /\ want2[t] = want[t]
  PROVE  Waits(list, want2, D2)
BY DEF Waits

\* A thread goes to sleep on a lock that conflicts with what it wants.
LEMMA SleepsOn ==
  ASSUME NEW list, Sound(list), NEW t \in Threads, NEW k \in DOMAIN list,
         NEW other, other = [list EXCEPT ![k].blk = @ \cup {t}]
  PROVE  /\ SameLocks(list, other)
         /\ \A want, D : /\ Waits(list, want, D \ {t}) /\ t \in D /\ Conflict(list[k], want[t])
                         => Waits(other, want, D)
<1>1. list \in Seq(Lock) /\ list[k] \in Lock
  BY DEF Sound
<1>2. PICK g : g = [list[k] EXCEPT !.blk = @ \cup {t}]
  OBVIOUS
<1>3. /\ g \in Lock /\ g.id = list[k].id /\ g.type = list[k].type
      /\ g.start = list[k].start /\ g.end = list[k].end /\ g.blk = list[k].blk \cup {t}
  BY <1>1, <1>2 DEF Lock
<1>4. other = [list EXCEPT ![k] = g]
  BY <1>2
<1>5. /\ other \in Seq(Lock) /\ DOMAIN other = DOMAIN list /\ other[k] = g
      /\ \A i \in DOMAIN list : i # k => other[i] = list[i]
  <2>1. PICK n \in Nat : list \in [1 .. n -> Lock] /\ DOMAIN list = 1 .. n
    BY <1>1
  <2>2. DOMAIN other = 1 .. n /\ other[k] = g /\ \A i \in 1 .. n : i # k => other[i] = list[i]
    BY ONLY <1>4, <2>1, k \in DOMAIN list
  <2>3. other \in [1 .. n -> Lock]
    BY ONLY <1>3, <1>4, <2>1, k \in DOMAIN list
  <2> QED BY ONLY <2>1, <2>2, <2>3
<1>6. SameLocks(list, other)
  BY <1>3, <1>5 DEF SameLocks
<1>7. /\ \A u \in Threads \ {t} : BlockedAt(other, u) = BlockedAt(list, u)
      /\ BlockedAt(other, t) = BlockedAt(list, t) \cup {k}
  BY <1>3, <1>5 DEF BlockedAt
<1>8. ASSUME NEW want, NEW D, Waits(list, want, D \ {t}), t \in D, Conflict(list[k], want[t])
      PROVE  Waits(other, want, D)
  <2>1. BlockedAt(list, t) = {}
    BY <1>8 DEF Waits
  <2>2. \A i \in DOMAIN list : \A w : Conflict(other[i], w) <=> Conflict(list[i], w)
    BY <1>6 DEF SameLocks, Conflict, Overlap, reaches
  <2>3. \A u \in Threads : BlockedAt(list, u) \subseteq DOMAIN list
    BY DEF BlockedAt
  <2>4. ASSUME NEW u \in Threads, NEW i \in BlockedAt(other, u)
        PROVE  u \in D /\ Conflict(other[i], want[u]) /\ BlockedAt(other, u) = {i}
    <3>1. CASE u = t
      <4>1. i = k /\ BlockedAt(other, u) = {i}
        BY <1>7, <2>1, <2>4, <3>1
      <4> QED BY <1>8, <2>2, <3>1, <4>1
    <3>2. CASE u # t
      <4>1. BlockedAt(other, u) = BlockedAt(list, u) /\ i \in DOMAIN list
        BY <1>7, <2>3, <2>4, <3>2
      <4>2. u \in D \ {t} /\ Conflict(list[i], want[u]) /\ BlockedAt(list, u) = {i}
        BY <1>8, <2>4, <4>1 DEF Waits
      <4> QED BY <2>2, <4>1, <4>2
    <3> QED BY <3>1, <3>2
  <2> QED BY <2>4 DEF Waits
<1> QED BY <1>6, <1>8

\* A thread leaves the blocked list that it is in.
LEMMA Leaves ==
  ASSUME NEW list, Sound(list), NEW t \in Threads,
         NEW other, other = [i \in DOMAIN list |-> [list[i] EXCEPT !.blk = @ \ {t}]]
  PROVE  /\ SameLocks(list, other)
         /\ \A want, D : Waits(list, want, D) => Waits(other, want, D \ {t})
<1>1. list \in Seq(Lock) /\ DOMAIN list = 1 .. Len(list) /\ Len(list) \in Nat
  BY DEF Sound
<1>2. ASSUME NEW i \in DOMAIN list
      PROVE  /\ other[i] \in Lock /\ other[i].id = list[i].id /\ other[i].type = list[i].type
             /\ other[i].start = list[i].start /\ other[i].end = list[i].end
             /\ other[i].blk = list[i].blk \ {t}
  <2>1. list[i] \in Lock
    BY <1>1
  <2>2. PICK g : g = [list[i] EXCEPT !.blk = @ \ {t}]
    OBVIOUS
  <2>3. /\ g \in Lock /\ g.id = list[i].id /\ g.type = list[i].type
        /\ g.start = list[i].start /\ g.end = list[i].end /\ g.blk = list[i].blk \ {t}
    BY <2>1, <2>2 DEF Lock
  <2>4. other[i] = g
    BY <2>2
  <2> QED BY <2>3, <2>4
<1>3. other \in Seq(Lock) /\ DOMAIN other = DOMAIN list
  <2>1. DOMAIN other = DOMAIN list
    OBVIOUS
  <2>2. other \in [1 .. Len(list) -> Lock]
    BY <1>1, <1>2
  <2> QED BY <1>1, <2>1, <2>2
<1>4. SameLocks(list, other)
  BY <1>2, <1>3 DEF SameLocks
<1>5. /\ \A u \in Threads \ {t} : BlockedAt(other, u) = BlockedAt(list, u)
      /\ BlockedAt(other, t) = {}
  BY <1>2, <1>3 DEF BlockedAt
<1>6. ASSUME NEW want, NEW D, Waits(list, want, D)
      PROVE  Waits(other, want, D \ {t})
  <2>1. \A i \in DOMAIN list : \A w : Conflict(other[i], w) <=> Conflict(list[i], w)
    BY <1>4 DEF SameLocks, Conflict, Overlap, reaches
  <2>2. ASSUME NEW u \in Threads, NEW i \in BlockedAt(other, u)
        PROVE  u \in D \ {t} /\ Conflict(other[i], want[u]) /\ BlockedAt(other, u) = {i}
    <3>1. u # t /\ i \in DOMAIN list /\ BlockedAt(other, u) = BlockedAt(list, u)
      BY <1>3, <1>5, <2>2 DEF BlockedAt
    <3>2. u \in D /\ Conflict(list[i], want[u]) /\ BlockedAt(list, u) = {i}
      BY <1>6, <2>2, <3>1 DEF Waits
    <3> QED BY <2>1, <3>1, <3>2
  <2> QED BY <2>2 DEF Waits
<1> QED BY <1>4, <1>6

\* lf_getblock() finds a lock that conflicts, if there is one.
LEMMA GetBlock ==
  ASSUME NEW list, Sound(list), NEW lock
  PROVE  /\ lf_getblock(list, lock) = 0 <=> \A i \in DOMAIN list : ~ Conflict(list[i], lock)
         /\ lf_getblock(list, lock) # 0 => /\ lf_getblock(list, lock) \in DOMAIN list
                                           /\ Conflict(list[lf_getblock(list, lock)], lock)
<1>1. list \in Seq(Lock) /\ DOMAIN list = 1 .. Len(list) /\ Len(list) \in Nat
  BY DEF Sound
<1>2. PICK B : B = {i \in DOMAIN list : Conflict(list[i], lock)}
  OBVIOUS
<1>3. lf_getblock(list, lock) = IF B = {} THEN 0 ELSE CHOOSE i \in B : \A j \in B : i <= j
  BY <1>2 DEF lf_getblock
<1>4. CASE B = {}
  BY <1>2, <1>3, <1>4
<1>5. CASE B # {}
  <2>1. B \subseteq Nat
    BY <1>1, <1>2
  <2>2. \E i \in B : \A j \in B : i <= j
    BY <1>5, <2>1, LeastNat
  <2>3. lf_getblock(list, lock) \in B
    BY <1>3, <1>5, <2>2
  <2>4. 0 \notin DOMAIN list
    BY <1>1
  <2> QED BY <1>2, <2>3, <2>4
<1> QED BY <1>4, <1>5

\* A conflict is about a byte.
LEMMA ConflictByte ==
  ASSUME NEW f, NEW lock, Proper(f), Proper(lock)
  PROVE  Conflict(f, lock) <=> /\ f.id # lock.id /\ "F_WRLCK" \in {f.type, lock.type}
                               /\ \E x \in Nat : Covers(f, x) /\ Covers(lock, x)
<1>1. /\ f.start \in Nat /\ f.end \in Nat \cup {-1} /\ lock.start \in Nat /\ lock.end \in Nat \cup {-1}
      /\ f.end = -1 \/ f.start <= f.end
      /\ lock.end = -1 \/ lock.start <= lock.end
  BY DEF Proper, Lock, EOF_
<1>2. ASSUME Overlap(f, lock)
      PROVE  \E x \in Nat : Covers(f, x) /\ Covers(lock, x)
  <2>1. CASE f.start <= lock.start
    <3>1. Covers(f, lock.start) /\ Covers(lock, lock.start)
      BY <1>1, <1>2, <2>1 DEF Overlap, reaches, Covers, EOF_
    <3> QED BY <1>1, <3>1
  <2>2. CASE lock.start <= f.start
    <3>1. Covers(f, f.start) /\ Covers(lock, f.start)
      BY <1>1, <1>2, <2>2 DEF Overlap, reaches, Covers, EOF_
    <3> QED BY <1>1, <3>1
  <2> QED BY <1>1, <2>1, <2>2
<1>3. ASSUME NEW x \in Nat, Covers(f, x), Covers(lock, x)
      PROVE  Overlap(f, lock)
  BY <1>1, <1>3 DEF Overlap, reaches, Covers, EOF_
<1> QED BY <1>2, <1>3 DEF Conflict

\* To clear what the owner has does not end a conflict with others: the lock
\* that flock() finds after it has cleared its own is one that blocks.
LEMMA StillBlocked ==
  ASSUME NEW list, Sound(list), NEW lock, Proper(lock), lf_getblock(list, lock) # 0
  PROVE  lf_getblock(lf_clearlock(list, lock), lock) # 0
<1>1. PICK i \in DOMAIN list : Conflict(list[i], lock)
  BY GetBlock
<1>2. Proper(list[i])
  BY DEF Sound
<1>3. PICK x \in Nat : Covers(list[i], x) /\ Covers(lock, x)
  BY <1>1, <1>2, ConflictByte
<1>4. list[i].id # lock.id /\ "F_WRLCK" \in {list[i].type, lock.type}
  BY <1>1, <1>2, ConflictByte
<1>5. Has(list, list[i].id, x, list[i].type)
  BY <1>3 DEF Has
<1>6. PICK w : w = lf_clearlock(list, lock)
  OBVIOUS
<1>7. Has(w, list[i].id, x, list[i].type)
  BY <1>4, <1>5, <1>6, ClearHas
<1>8. PICK j \in DOMAIN w : w[j].id = list[i].id /\ w[j].type = list[i].type /\ Covers(w[j], x)
  BY <1>7 DEF Has
<1>9. Sound(w)
  BY <1>6, ClearSound
<1>10. Conflict(w[j], lock)
  <2>1. Proper(w[j])
    BY <1>9 DEF Sound
  <2> QED BY <1>3, <1>4, <1>8, <2>1, ConflictByte
<1> QED BY <1>6, <1>9, <1>10, GetBlock

-----------------------------------------------------------------------------
(* The invariant. *)

\* The requests that lock, and what a thread can sleep in.
Asked(t) == {r \in Requests[t] : r.op = "F_SETLK" /\ valid(r)}
Sleeper(t) == {[pc |-> "lockf", req |-> r, lost |-> l] : r \in Asked(t), l \in BOOLEAN}

\* For threads in states s: what they want and who sleeps.
Wanted(s) == [t \in Threads |-> lf(s[t].req)]
Sleeping(s) == {t \in Threads : s[t].pc = "lockf"}
ThreadsOK(s) == s = [t \in Threads |-> s[t]] /\ \A t \in Threads : s[t] \in {Idle} \cup Sleeper(t)

LockfInv ==
  /\ Sound(locks)
  /\ ThreadsOK(th)
  /\ isopen \subseteq Owners /\ haslock \subseteq Files
  /\ Waits(locks, Wanted(th), Sleeping(th))

LEMMA RequestProper ==
  ASSUME NEW t \in Threads, NEW r \in Requests[t], valid(r)
  PROVE  r \in Request /\ Proper(lf(r)) /\ lf(r) \in Lock /\ lf(r).id = r.id /\ lf(r).type = r.type
<1>1. r \in Request /\ FileSize \in Nat
  BY LockfAssumption
<1>2. start(r) \in Nat /\ end(r) \in Nat \cup {-1} /\ (end(r) = -1 \/ end(r) >= start(r))
  <2>1. r.l_start \in Int /\ r.l_len \in Int
    BY <1>1 DEF Request
  <2>2. start(r) \in Int
    BY <1>1, <2>1 DEF start
  <2>3. end(r) \in Int
    BY <2>1, <2>2 DEF end, EOF_
  <2>4. r.l_len = 0 => end(r) = -1
    BY DEF end, EOF_
  <2> QED BY <2>2, <2>3, <2>4 DEF valid
<1>3. /\ lf(r).id = r.id /\ lf(r).type = r.type /\ lf(r).start = start(r) /\ lf(r).end = end(r)
  BY DEF lf
<1>4. r.id \in Owners /\ r.type \in {"F_RDLCK", "F_WRLCK"}
  BY <1>1 DEF Request
<1>5. lf(r) \in Lock
  BY <1>2, <1>4 DEF lf, Lock, EOF_
<1> QED BY <1>1, <1>2, <1>3, <1>5 DEF Proper, EOF_

LEMMA WholeProper ==
  ASSUME NEW o \in Owners
  PROVE  Proper(whole(o)) /\ whole(o).id = o /\ \A x \in Nat : Covers(whole(o), x)
BY DEF whole, Proper, Lock, Covers, EOF_

\* What a thread that sleeps wants.
LEMMA SleeperIs ==
  ASSUME NEW s, ThreadsOK(s), NEW t \in Threads
  PROVE  /\ s[t].pc # "user" <=> s[t].pc = "lockf"
         /\ s[t].pc = "lockf" => /\ s[t].req \in Asked(t) /\ s[t].lost \in BOOLEAN
                                 /\ s[t] = [pc |-> "lockf", req |-> s[t].req, lost |-> s[t].lost]
                                 /\ Wanted(s)[t] = lf(s[t].req) /\ Wanted(s)[t] \in Lock
         /\ s[t].pc = "user" => s[t] = Idle
<1>1. s[t] \in {Idle} \cup Sleeper(t)
  BY DEF ThreadsOK
<1>2. CASE s[t] = Idle
  BY <1>2 DEF Idle
<1>3. CASE s[t] \in Sleeper(t)
  <2>1. PICK r \in Asked(t), l \in BOOLEAN : s[t] = [pc |-> "lockf", req |-> r, lost |-> l]
    BY <1>3 DEF Sleeper
  <2>2. s[t].pc = "lockf" /\ s[t].req = r /\ s[t].lost = l
    BY <2>1
  <2>3. lf(r) \in Lock
    BY RequestProper DEF Asked
  <2>4. Wanted(s)[t] = lf(r)
    BY <2>2 DEF Wanted
  <2> QED BY <2>1, <2>2, <2>3, <2>4
<1> QED BY <1>1, <1>2, <1>3

\* One thread changes its state, to x: the states s2 after s.
OneMoves(s, s2, t, x) ==
  /\ ThreadsOK(s2) /\ s2[t] = x /\ \A u \in Threads : u # t => s2[u] = s[u]
  /\ \A u \in Sleeping(s) \ {t} : u \in Sleeping(s2) /\ Wanted(s2)[u] = Wanted(s)[u]

LEMMA ThreadSet ==
  ASSUME NEW s, ThreadsOK(s), NEW t \in Threads, NEW x \in {Idle} \cup Sleeper(t)
  PROVE  OneMoves(s, [s EXCEPT ![t] = x], t, x)
<1> SUFFICES ASSUME NEW s2, s2 = [s EXCEPT ![t] = x]
             PROVE  OneMoves(s, s2, t, x)
  OBVIOUS
<1>1. s = [u \in Threads |-> s[u]]
  BY DEF ThreadsOK
<1>2. DOMAIN s = Threads
  BY <1>1
<1>3. s2[t] = x /\ \A u \in Threads : u # t => s2[u] = s[u]
  BY <1>2
<1>4. s2 = [u \in Threads |-> s2[u]]
  BY <1>2
<1>5. ThreadsOK(s2)
  BY <1>3, <1>4 DEF ThreadsOK
<1> QED BY <1>3, <1>5 DEF OneMoves, Sleeping, Wanted

\* What fcntl() leaves when it returns.
LEMMA RaceKeeps ==
  ASSUME NEW list, Sound(list), NEW t, NEW o \in Owners, NEW lost, NEW want, NEW D, Waits(list, want, D)
  PROVE  Sound(Race(list, t, o, lost)) /\ Waits(Race(list, t, o, lost), want, D)
<1>1. Race(list, t, o, lost) = list \/ Race(list, t, o, lost) = lf_clearlock(list, whole(o))
  BY DEF Race
<1>2. Sound(lf_clearlock(list, whole(o))) /\ Waits(lf_clearlock(list, whole(o)), want, D)
  BY WholeProper, ClearSound, ClearWaits
<1> QED BY <1>1, <1>2

\* The three ends of lf_setlock(): it has the lock, it fails, it sleeps.
LEMMA SetLockCases ==
  ASSUME LockfInv, NEW t \in Threads, NEW r \in Asked(t), NEW lost \in BOOLEAN, SetLock(t, r, lost)
  PROVE  \/ /\ lf_getblock(locks, lf(r)) = 0
            /\ locks' = Race(addlock(locks, lf(r)), t, r.id, lost)
            /\ th' = [th EXCEPT ![t] = Idle]
         \/ locks' = Race(locks, t, r.id, lost) /\ th' = [th EXCEPT ![t] = Idle]
         \/ \E list : /\ \/ list = locks
                         \/ list = lf_clearlock(locks, lf(r)) /\ r.id \in Files
                      /\ lf_getblock(list, lf(r)) # 0
                      /\ locks' = [list EXCEPT ![lf_getblock(list, lf(r))].blk = @ \cup {t}]
                      /\ th' = [th EXCEPT ![t] = [pc |-> "lockf", req |-> r, lost |-> lost]]
<1>1. Sound(locks) /\ Proper(lf(r))
  BY RequestProper DEF LockfInv, Asked
<1>2. CASE lf_getblock(locks, lf(r)) = 0
  BY <1>2 DEF SetLock
<1>3. CASE lf_getblock(locks, lf(r)) # 0 /\ (~ r.wait \/ EDEADLK(lf(r), locks[lf_getblock(locks, lf(r))]))
  BY <1>3 DEF SetLock
<1>4. CASE lf_getblock(locks, lf(r)) # 0 /\ ~ (~ r.wait \/ EDEADLK(lf(r), locks[lf_getblock(locks, lf(r))]))
  <2>1. PICK list : list = IF r.id \in Files /\ r.type = "F_WRLCK" THEN lf_clearlock(locks, lf(r)) ELSE locks
    OBVIOUS
  <2>2. /\ locks' = [list EXCEPT ![lf_getblock(list, lf(r))].blk = @ \cup {t}]
        /\ th' = [th EXCEPT ![t] = [pc |-> "lockf", req |-> r, lost |-> lost]]
    BY <1>4, <2>1 DEF SetLock
  <2>3. lf_getblock(list, lf(r)) # 0
    BY <1>1, <1>4, <2>1, StillBlocked
  <2>4. list = locks \/ (list = lf_clearlock(locks, lf(r)) /\ r.id \in Files)
    BY <2>1
  <2> QED BY <2>2, <2>3, <2>4
<1> QED BY <1>2, <1>3, <1>4

LEMMA SetLockKeeps ==
  ASSUME LockfInv, NEW t \in Threads, NEW r \in Asked(t), NEW lost \in BOOLEAN, SetLock(t, r, lost),
         BlockedAt(locks, t) = {}
  PROVE  Sound(locks') /\ ThreadsOK(th') /\ Waits(locks', Wanted(th'), Sleeping(th'))
<1>1. Sound(locks) /\ ThreadsOK(th) /\ Waits(locks, Wanted(th), Sleeping(th))
  BY DEF LockfInv
<1>2. /\ Proper(lf(r)) /\ r.id \in Owners
      /\ \A u \in Sleeping(th) \ {t} : Wanted(th)[u] \in Lock
  <2>1. Proper(lf(r)) /\ r.id \in Owners
    BY RequestProper DEF Asked, Request
  <2>2. \A u \in Sleeping(th) : Wanted(th)[u] \in Lock
    BY <1>1, SleeperIs DEF Sleeping
  <2> QED BY <2>1, <2>2
<1>3. Waits(locks, Wanted(th), Sleeping(th) \ {t})
  BY <1>1, WaitsWithout
<1>4. ASSUME NEW list, Sound(list), Waits(list, Wanted(th), Sleeping(th) \ {t}),
             locks' = Race(list, t, r.id, lost), th' = [th EXCEPT ![t] = Idle]
      PROVE  Sound(locks') /\ ThreadsOK(th') /\ Waits(locks', Wanted(th'), Sleeping(th'))
  <2>1. Sound(locks') /\ Waits(locks', Wanted(th), Sleeping(th) \ {t})
    BY <1>2, <1>4, RaceKeeps
  <2>2. /\ ThreadsOK(th')
        /\ \A u \in Sleeping(th) \ {t} : u \in Sleeping(th') /\ Wanted(th')[u] = Wanted(th)[u]
    <3>1. OneMoves(th, [th EXCEPT ![t] = Idle], t, Idle)
      BY <1>1, ThreadSet
    <3> QED BY <1>4, <3>1 DEF OneMoves
  <2> QED BY <2>1, <2>2, WaitsMore
<1>5. CASE /\ lf_getblock(locks, lf(r)) = 0
           /\ locks' = Race(addlock(locks, lf(r)), t, r.id, lost)
           /\ th' = [th EXCEPT ![t] = Idle]
  <2>1. Sound(addlock(locks, lf(r))) /\ Waits(addlock(locks, lf(r)), Wanted(th), Sleeping(th) \ {t})
    BY <1>1, <1>2, <1>3, AddSound, AddWaits
  <2> QED BY <1>4, <1>5, <2>1
<1>6. CASE locks' = Race(locks, t, r.id, lost) /\ th' = [th EXCEPT ![t] = Idle]
  BY <1>1, <1>3, <1>4, <1>6
<1>7. ASSUME NEW list, list = locks \/ list = lf_clearlock(locks, lf(r)),
             lf_getblock(list, lf(r)) # 0,
             locks' = [list EXCEPT ![lf_getblock(list, lf(r))].blk = @ \cup {t}],
             th' = [th EXCEPT ![t] = [pc |-> "lockf", req |-> r, lost |-> lost]]
      PROVE  Sound(locks') /\ ThreadsOK(th') /\ Waits(locks', Wanted(th'), Sleeping(th'))
  <2>1. Sound(list) /\ Waits(list, Wanted(th), Sleeping(th) \ {t})
    BY <1>1, <1>2, <1>3, <1>7, ClearSound, ClearWaits
  <2>2. PICK k : k = lf_getblock(list, lf(r))
    OBVIOUS
  <2>3. k \in DOMAIN list /\ Conflict(list[k], lf(r))
    BY <1>7, <2>1, <2>2, GetBlock
  <2>4. PICK x : x = [pc |-> "lockf", req |-> r, lost |-> lost]
    OBVIOUS
  <2>5. x \in Sleeper(t) /\ x.pc = "lockf" /\ x.req = r
    BY <2>4 DEF Sleeper
  <2>6. /\ ThreadsOK(th') /\ th'[t] = x
        /\ \A u \in Sleeping(th) \ {t} : u \in Sleeping(th') /\ Wanted(th')[u] = Wanted(th)[u]
    <3>1. OneMoves(th, [th EXCEPT ![t] = x], t, x)
      BY <1>1, <2>5, ThreadSet
    <3> QED BY <1>7, <2>4, <3>1 DEF OneMoves
  <2>7. t \in Sleeping(th') /\ Wanted(th')[t] = lf(r)
    BY <2>5, <2>6 DEF Sleeping, Wanted
  <2>8. \A u \in Sleeping(th) \ {t} : u \in Sleeping(th') \ {t} /\ Wanted(th')[u] = Wanted(th)[u]
    BY <2>6
  <2>9. Waits(list, Wanted(th'), Sleeping(th') \ {t})
    BY <2>1, <2>8, WaitsMore
  <2>10. locks' = [list EXCEPT ![k].blk = @ \cup {t}]
    BY <1>7, <2>2
  <2>11. SameLocks(list, locks') /\ Waits(locks', Wanted(th'), Sleeping(th'))
    BY <2>1, <2>3, <2>7, <2>9, <2>10, SleepsOn
  <2> QED BY <2>1, <2>6, <2>11, SameLocksSound
<1> QED BY <1>5, <1>6, <1>7, SetLockCases

\* closef() marks the threads of the process that sleep.
MarkLost(s, p) ==
  [t \in Threads |-> IF s[t].pc = "lockf" /\ s[t].req.id = p THEN [s[t] EXCEPT !.lost = TRUE] ELSE s[t]]

LEMMA LostKeeps ==
  ASSUME NEW s, ThreadsOK(s), NEW p
  PROVE  /\ ThreadsOK(MarkLost(s, p))
         /\ \A t \in Sleeping(s) : t \in Sleeping(MarkLost(s, p)) /\ Wanted(MarkLost(s, p))[t] = Wanted(s)[t]
         /\ \A t \in Threads : /\ MarkLost(s, p)[t].pc = s[t].pc
                               /\ s[t].pc = "lockf" =>
                                    /\ MarkLost(s, p)[t].req = s[t].req
                                    /\ MarkLost(s, p)[t].lost <=> s[t].lost \/ s[t].req.id = p
<1>1. PICK s2 : s2 = MarkLost(s, p)
  OBVIOUS
<1>2. s2 = [t \in Threads |-> s2[t]]
  BY <1>1 DEF MarkLost
<1>3. ASSUME NEW t \in Threads
      PROVE  /\ s2[t] \in {Idle} \cup Sleeper(t)
             /\ s2[t].pc = s[t].pc
             /\ s[t].pc = "lockf" => s2[t].req = s[t].req /\ (s2[t].lost <=> s[t].lost \/ s[t].req.id = p)
  <2>1. CASE s[t].pc = "lockf" /\ s[t].req.id = p
    <3>1. PICK r \in Asked(t), l \in BOOLEAN : s[t] = [pc |-> "lockf", req |-> r, lost |-> l]
      BY <2>1, SleeperIs
    <3>2. PICK yes \in BOOLEAN : yes = TRUE
      OBVIOUS
    <3>3. s2[t] = [pc |-> "lockf", req |-> r, lost |-> yes]
      <4>1. s2[t] = [s[t] EXCEPT !.lost = yes]
        BY <1>1, <2>1, <3>2 DEF MarkLost
      <4> QED BY ONLY <3>1, <4>1
    <3>4. s2[t] \in Sleeper(t)
      BY <3>3 DEF Sleeper
    <3>5. s2[t].pc = s[t].pc /\ s2[t].req = s[t].req /\ s2[t].lost
      BY <3>1, <3>2, <3>3
    <3> QED BY <2>1, <3>4, <3>5
  <2>2. CASE ~ (s[t].pc = "lockf" /\ s[t].req.id = p)
    <3>1. s2[t] = s[t]
      BY <1>1, <2>2 DEF MarkLost
    <3>2. s[t] \in {Idle} \cup Sleeper(t)
      BY DEF ThreadsOK
    <3> QED BY <2>2, <3>1, <3>2
  <2> QED BY <2>1, <2>2
<1>4. \A t \in Sleeping(s) : t \in Sleeping(s2) /\ Wanted(s2)[t] = Wanted(s)[t]
  BY <1>3 DEF Sleeping, Wanted
<1>5. ThreadsOK(s2)
  BY <1>2, <1>3 DEF ThreadsOK
<1> QED BY <1>1, <1>3, <1>4, <1>5

LEMMA InitLockfInv == Init => LockfInv
<1> SUFFICES ASSUME Init PROVE LockfInv
  OBVIOUS
<1>1. locks = << >> /\ th = [t \in Threads |-> Idle] /\ isopen = Owners /\ haslock = {}
  BY DEF Init
<1>2. Sound(locks) /\ \A want, D : Waits(locks, want, D)
  BY <1>1 DEF Sound, Waits, BlockedAt
<1>3. ThreadsOK(th)
  BY <1>1 DEF ThreadsOK
<1> QED BY <1>1, <1>2, <1>3 DEF LockfInv

LEMMA NextLockfInv == LockfInv /\ [Next]_vars => LockfInv'
<1> SUFFICES ASSUME LockfInv, [Next]_vars PROVE LockfInv'
  OBVIOUS
<1>1. /\ Sound(locks) /\ ThreadsOK(th) /\ Waits(locks, Wanted(th), Sleeping(th))
      /\ isopen \subseteq Owners /\ haslock \subseteq Files
  BY DEF LockfInv
<1>2. \A t \in Threads : th[t].pc = "user" => BlockedAt(locks, t) = {}
  BY <1>1 DEF Waits, Sleeping
<1> USE DEF LockfInv
<1>3. ASSUME NEW t \in Threads, lf_setlock(t)
      PROVE  LockfInv'
  <2>1. PICK r \in Requests[t] :
          /\ th[t].pc = "user" /\ r.op = "F_SETLK" /\ r.id \in isopen /\ valid(r)
          /\ IF ENOLCK(1, locks, t) THEN UNCHANGED <<locks, th>> ELSE SetLock(t, r, FALSE)
          /\ haslock' = haslock \cup ({r.id} \cap Files)
          /\ UNCHANGED isopen
    BY <1>3 DEF lf_setlock, sys_flock
  <2>2. r \in Asked(t)
    BY <2>1 DEF Asked
  <2>3. CASE ENOLCK(1, locks, t)
    BY <1>1, <2>1, <2>3
  <2>4. CASE ~ ENOLCK(1, locks, t)
    <3>1. SetLock(t, r, FALSE) /\ BlockedAt(locks, t) = {}
      BY <1>2, <2>1, <2>4
    <3>2. Sound(locks') /\ ThreadsOK(th') /\ Waits(locks', Wanted(th'), Sleeping(th'))
      BY <2>2, <3>1, SetLockKeeps
    <3> QED BY <1>1, <2>1, <3>2
  <2> QED BY <2>3, <2>4
<1>4. ASSUME NEW t \in Threads, lf_setlock_woken(t)
      PROVE  LockfInv'
  <2>1. /\ th[t].pc = "lockf" /\ BlockedAt(locks, t) = {} /\ SetLock(t, th[t].req, th[t].lost)
        /\ UNCHANGED <<isopen, haslock>>
    BY <1>4 DEF lf_setlock_woken, Asleep
  <2>2. th[t].req \in Asked(t) /\ th[t].lost \in BOOLEAN
    BY <1>1, <2>1, SleeperIs
  <2>3. Sound(locks') /\ ThreadsOK(th') /\ Waits(locks', Wanted(th'), Sleeping(th'))
    BY <2>1, <2>2, SetLockKeeps
  <2> QED BY <1>1, <2>1, <2>3
<1>5. ASSUME NEW t \in Threads, lf_setlock_caught(t)
      PROVE  LockfInv'
  <2>1. PICK list : list = [i \in DOMAIN locks |-> [locks[i] EXCEPT !.blk = @ \ {t}]]
    OBVIOUS
  <2>2. /\ th[t].pc = "lockf" /\ locks' = Race(list, t, th[t].req.id, th[t].lost)
        /\ th' = [th EXCEPT ![t] = Idle] /\ UNCHANGED <<isopen, haslock>>
    BY <1>5, <2>1 DEF lf_setlock_caught
  <2>3. SameLocks(locks, list) /\ Waits(list, Wanted(th), Sleeping(th) \ {t})
    BY <1>1, <2>1, Leaves
  <2>4. Sound(list)
    BY <1>1, <2>3, SameLocksSound
  <2>5. th[t].req.id \in Owners
    <3>1. th[t].req \in Asked(t)
      BY <1>1, <2>2, SleeperIs
    <3> QED BY <3>1, RequestProper DEF Asked, Request
  <2>6. Sound(locks') /\ Waits(locks', Wanted(th), Sleeping(th) \ {t})
    BY <2>2, <2>3, <2>4, <2>5, RaceKeeps
  <2>7. OneMoves(th, [th EXCEPT ![t] = Idle], t, Idle)
    BY <1>1, ThreadSet
  <2>8. /\ ThreadsOK(th')
        /\ \A u \in Sleeping(th) \ {t} : u \in Sleeping(th') /\ Wanted(th')[u] = Wanted(th)[u]
    BY <2>2, <2>7 DEF OneMoves
  <2>9. Waits(locks', Wanted(th'), Sleeping(th'))
    BY <2>6, <2>8, WaitsMore
  <2> QED BY <1>1, <2>2, <2>6, <2>8, <2>9
<1>6. ASSUME NEW t \in Threads, lf_unlock(t)
      PROVE  LockfInv'
  <2>1. PICK r \in Requests[t] :
          /\ valid(r) /\ haslock' = haslock \ {r.id} /\ UNCHANGED <<th, isopen>>
          /\ locks' = IF ENOLCK(2, locks, t) THEN locks ELSE lf_clearlock(locks, lf(r))
    BY <1>6 DEF lf_unlock, sys_flock
  <2>2. Proper(lf(r))
    BY <2>1, RequestProper
  <2>3. Sound(locks') /\ Waits(locks', Wanted(th), Sleeping(th))
    BY <1>1, <2>1, <2>2, ClearSound, ClearWaits
  <2> QED BY <1>1, <2>1, <2>3
<1>7. ASSUME NEW p \in Procs, closef(p)
      PROVE  LockfInv'
  <2>1. /\ isopen' = isopen \ {p} /\ UNCHANGED haslock
        /\ locks' = IF ENOLCK(2, locks, p) THEN locks ELSE lf_clearlock(locks, whole(p))
        /\ th' = MarkLost(th, p)
    BY <1>7 DEF closef, MarkLost
  <2>2. Proper(whole(p))
    BY WholeProper DEF Owners
  <2>3. Sound(locks') /\ Waits(locks', Wanted(th), Sleeping(th))
    BY <1>1, <2>1, <2>2, ClearSound, ClearWaits
  <2>4. /\ ThreadsOK(th')
        /\ \A u \in Sleeping(th) : u \in Sleeping(th') /\ Wanted(th')[u] = Wanted(th)[u]
    BY <1>1, <2>1, LostKeeps
  <2>5. Waits(locks', Wanted(th'), Sleeping(th'))
    BY <2>3, <2>4, WaitsMore
  <2> QED BY <1>1, <2>1, <2>3, <2>4, <2>5
<1>8. ASSUME NEW f \in Files, vn_closefile(f)
      PROVE  LockfInv'
  <2>1. /\ isopen' = isopen \ {f} /\ haslock' = haslock \ {f} /\ UNCHANGED th
        /\ locks' = IF f \in haslock /\ ~ ENOLCK(2, locks, f) THEN lf_clearlock(locks, whole(f)) ELSE locks
    BY <1>8 DEF vn_closefile
  <2>2. Proper(whole(f))
    BY WholeProper DEF Owners
  <2>3. Sound(locks') /\ Waits(locks', Wanted(th), Sleeping(th))
    BY <1>1, <2>1, <2>2, ClearSound, ClearWaits
  <2> QED BY <1>1, <2>1, <2>3
<1>9. ASSUME NEW o \in Owners, open(o)
      PROVE  LockfInv'
  BY <1>1, <1>9 DEF open
<1>10. CASE UNCHANGED vars
  BY <1>1, <1>10 DEF vars
<1> QED BY <1>3, <1>4, <1>5, <1>6, <1>7, <1>8, <1>9, <1>10 DEF Next

\* Every reachable state satisfies the invariant: the list is sound, threads
\* are idle or sleep in a request of their own, and who sleeps is blocked.
THEOREM LockfInvHolds == Spec => []LockfInv
BY InitLockfInv, NextLockfInv, PTL DEF Spec

\* The locks of an owner are in the order of their bytes and do not overlap,
\* so that the early end of lf_findoverlap(SELF) is right: for any requests.
THEOREM ListStaysSound == Spec => []ListSound
<1>1. LockfInv => ListSound
  <2> SUFFICES ASSUME LockfInv PROVE ListSound
    OBVIOUS
  <2>1. Sound(locks)
    BY DEF LockfInv
  <2>2. ASSUME NEW i \in DOMAIN locks
        PROVE  locks[i].start >= 0 /\ reaches(locks[i], locks[i].start)
    <3>1. PICK f : f = locks[i]
      OBVIOUS
    <3>2. f.start \in Nat /\ f.end \in Nat \cup {-1} /\ (f.end = -1 \/ f.start <= f.end)
      BY <2>1, <3>1 DEF Sound, Proper, Lock, EOF_
    <3> QED BY <3>1, <3>2 DEF reaches, EOF_
  <2>3. \A i, j \in DOMAIN locks : i < j /\ locks[i].id = locks[j].id =>
          locks[i].end # EOF_ /\ locks[i].end < locks[j].start
    BY <2>1 DEF Sound, Before
  <2> QED BY <2>2, <2>3 DEF ListSound
<1> QED BY <1>1, LockfInvHolds, PTL

\* A thread sleeps on one lock at most, which conflicts with its request, and
\* only while it sleeps in lf_setlock(): each change of a lock has woken its
\* waiters, or left them with a lock that still blocks them.
THEOREM NobodyEverSleepsFree == Spec => []NobodySleepsFree
<1>1. LockfInv => NobodySleepsFree
  <2> SUFFICES ASSUME LockfInv, NEW t \in Threads, NEW i \in BlockedAt(locks, t)
               PROVE  /\ th[t].pc = "lockf"
                      /\ Conflict(locks[i], lf(th[t].req))
                      /\ BlockedAt(locks, t) = {i}
    BY DEF NobodySleepsFree
  <2>1. t \in Sleeping(th) /\ Conflict(locks[i], Wanted(th)[t]) /\ BlockedAt(locks, t) = {i}
    BY DEF LockfInv, Waits
  <2> QED BY <2>1 DEF Sleeping, Wanted
<1> QED BY <1>1, LockfInvHolds, PTL

-----------------------------------------------------------------------------
(* Who closes the file holds nothing. *)

\* lf_alloc() does not fail for an unlock.
NeverFull == \A x \in Threads \cup Owners : ~ ENOLCK(2, locks, x)

\* Nobody unlocks a struct file that another thread locks.
OneUnlocks == \A t, u \in Threads : \A r \in Requests[t], s \in Requests[u] :
  t # u /\ r.op = "F_UNLCK" /\ s.op = "F_SETLK" /\ r.id \in Files => r.id # s.id

\* The owners in a list.
Holders(list) == {list[i].id : i \in DOMAIN list}

\* Locks are of owners that have the file open, of files with FIF_HASLOCK; who
\* sleeps has it open, or has lost the race against close().
Closed(list, s, opened, flagged) ==
  /\ \A o \in Holders(list) : o \in opened /\ (o \in Files => o \in flagged)
  /\ \A t \in Threads : s[t].pc = "lockf" =>
       /\ s[t].req.id \in Files => s[t].req.id \in opened \cap flagged
       /\ s[t].req.id \in opened \/ s[t].lost

ClosedInv == Closed(locks, th, isopen, haslock)

LEMMA ClearHolders ==
  ASSUME NEW list, Sound(list), NEW lock, Proper(lock)
  PROVE  /\ Holders(lf_clearlock(list, lock)) \subseteq Holders(list)
         /\ (\A x \in Nat : Covers(lock, x)) => lock.id \notin Holders(lf_clearlock(list, lock))
<1>1. PICK w : w = lf_clearlock(list, lock)
  OBVIOUS
<1>2. ASSUME NEW i \in DOMAIN w
      PROVE  /\ w[i].id \in Holders(list)
             /\ (\A x \in Nat : Covers(lock, x)) => w[i].id # lock.id
  <2>1. PICK f : f = w[i]
    OBVIOUS
  <2>2. Proper(f)
    BY <1>1, <2>1, ClearSound DEF Sound
  <2>3. PICK x \in Nat : x = f.start
    BY <2>2 DEF Proper, Lock
  <2>4. Covers(f, x)
    <3>1. f.start \in Nat /\ (f.end = EOF_ \/ f.start <= f.end)
      BY <2>2 DEF Proper, Lock
    <3> QED BY <2>3, <3>1 DEF Covers
  <2>5. Has(w, f.id, x, f.type)
    BY <2>1, <2>4 DEF Has
  <2>6. Has(list, f.id, x, f.type) /\ ~ (f.id = lock.id /\ Covers(lock, x))
    BY <1>1, <2>5, ClearHas
  <2> QED BY <2>1, <2>6 DEF Has, Holders
<1> QED BY <1>1, <1>2 DEF Holders

LEMMA AddHolders ==
  ASSUME NEW list, Sound(list), NEW lock, Proper(lock)
  PROVE  Holders(addlock(list, lock)) \subseteq Holders(list) \cup {lock.id}
<1>1. PICK w : w = addlock(list, lock)
  OBVIOUS
<1>2. ASSUME NEW i \in DOMAIN w
      PROVE  w[i].id \in Holders(list) \cup {lock.id}
  <2>1. PICK f : f = w[i]
    OBVIOUS
  <2>2. Proper(f)
    BY <1>1, <2>1, AddSound DEF Sound
  <2>3. PICK x \in Nat : x = f.start
    BY <2>2 DEF Proper, Lock
  <2>4. Covers(f, x)
    <3>1. f.start \in Nat /\ (f.end = EOF_ \/ f.start <= f.end)
      BY <2>2 DEF Proper, Lock
    <3> QED BY <2>3, <3>1 DEF Covers
  <2>5. Has(w, f.id, x, f.type)
    BY <2>1, <2>4 DEF Has
  <2>6. Gets(lock, f.id, x, f.type) \/ Has(list, f.id, x, f.type)
    BY <1>1, <2>5, AddHas
  <2> QED BY <2>1, <2>6 DEF Has, Holders, Gets
<1> QED BY <1>1, <1>2 DEF Holders

LEMMA SameHolders ==
  ASSUME NEW list, NEW other, SameLocks(list, other)
  PROVE  Holders(other) = Holders(list)
BY DEF SameLocks, Holders

\* An fcntl() that lost the race keeps nothing, unless lf_alloc() failed.
LEMMA RaceHolders ==
  ASSUME NEW list, Sound(list), NEW t, NEW o \in Owners, NEW lost
  PROVE  /\ Holders(Race(list, t, o, lost)) \subseteq Holders(list)
         /\ lost /\ ~ ENOLCK(2, list, t) => o \notin Holders(Race(list, t, o, lost))
         /\ ENOLCK(2, list, t) => Race(list, t, o, lost) = list
<1>1. /\ Holders(lf_clearlock(list, whole(o))) \subseteq Holders(list)
      /\ o \notin Holders(lf_clearlock(list, whole(o)))
  BY WholeProper, ClearHolders
<1> QED BY <1>1 DEF Race

\* Whose locks and sleepers lf_setlock() leaves.
LEMMA SetLockHolders ==
  ASSUME LockfInv, NEW t \in Threads, NEW r \in Asked(t), NEW lost \in BOOLEAN, SetLock(t, r, lost),
         NeverFull'
  PROVE  /\ Holders(locks') \subseteq Holders(locks) \cup {r.id}
         /\ lost /\ r.id \notin Holders(locks) => r.id \notin Holders(locks')
         /\ \A u \in Threads : u # t => th'[u] = th[u]
         /\ th'[t].pc = "lockf" => th'[t].req = r /\ th'[t].lost = lost
<1>1. Sound(locks) /\ ThreadsOK(th)
  BY DEF LockfInv
<1>2. Proper(lf(r)) /\ r.id \in Owners /\ lf(r).id = r.id
  BY RequestProper DEF Asked, Request
<1>3. ASSUME th' = [th EXCEPT ![t] = Idle]
      PROVE  /\ \A u \in Threads : u # t => th'[u] = th[u]
             /\ th'[t] = Idle /\ th'[t].pc # "lockf"
  <2>1. OneMoves(th, [th EXCEPT ![t] = Idle], t, Idle)
    BY <1>1, ThreadSet
  <2> QED BY <1>3, <2>1 DEF OneMoves, Idle
<1>4. CASE /\ locks' = Race(addlock(locks, lf(r)), t, r.id, lost)
           /\ th' = [th EXCEPT ![t] = Idle]
  <2>1. PICK list : list = addlock(locks, lf(r))
    OBVIOUS
  <2>2. Sound(list) /\ Holders(list) \subseteq Holders(locks) \cup {r.id}
    BY <1>1, <1>2, <2>1, AddSound, AddHolders
  <2>3. locks' = Race(list, t, r.id, lost)
    BY <1>4, <2>1
  <2>4. /\ Holders(locks') \subseteq Holders(list)
        /\ lost /\ ~ ENOLCK(2, list, t) => r.id \notin Holders(locks')
        /\ ENOLCK(2, list, t) => locks' = list
    BY <1>2, <2>2, <2>3, RaceHolders
  <2>5. ~ ENOLCK(2, list, t)
    <3> SUFFICES ASSUME ENOLCK(2, list, t) PROVE FALSE
      OBVIOUS
    <3>1. locks' = list
      BY <2>4
    <3>2. {u \in Threads \ {t} : th[u].pc # "user"} = {u \in Threads \ {t} : th'[u].pc # "user"}
      BY <1>3, <1>4
    <3>3. ENOLCK(2, locks, t)'
      BY <3>1, <3>2 DEF ENOLCK, ui_lockcnt
    <3> QED BY <3>3 DEF NeverFull
  <2> QED BY <1>3, <1>4, <2>2, <2>4, <2>5
<1>5. CASE locks' = Race(locks, t, r.id, lost) /\ th' = [th EXCEPT ![t] = Idle]
  <2>1. Holders(locks') \subseteq Holders(locks)
    BY <1>1, <1>2, <1>5, RaceHolders
  <2> QED BY <1>3, <1>5, <2>1
<1>6. ASSUME NEW list, list = locks \/ list = lf_clearlock(locks, lf(r)),
             lf_getblock(list, lf(r)) # 0,
             locks' = [list EXCEPT ![lf_getblock(list, lf(r))].blk = @ \cup {t}],
             th' = [th EXCEPT ![t] = [pc |-> "lockf", req |-> r, lost |-> lost]]
      PROVE  /\ Holders(locks') \subseteq Holders(locks)
             /\ \A u \in Threads : u # t => th'[u] = th[u]
             /\ th'[t].req = r /\ th'[t].lost = lost
  <2>1. Sound(list) /\ Holders(list) \subseteq Holders(locks)
    BY <1>1, <1>2, <1>6, ClearSound, ClearHolders
  <2>2. PICK k : k = lf_getblock(list, lf(r))
    OBVIOUS
  <2>3. k \in DOMAIN list
    BY <1>6, <2>1, <2>2, GetBlock
  <2>4. SameLocks(list, locks')
    BY <1>6, <2>1, <2>2, <2>3, SleepsOn
  <2>5. Holders(locks') = Holders(list)
    BY <2>4, SameHolders
  <2>6. PICK x : x = [pc |-> "lockf", req |-> r, lost |-> lost]
    OBVIOUS
  <2>7. x \in Sleeper(t) /\ x.req = r /\ x.lost = lost
    BY <2>6 DEF Sleeper
  <2>8. OneMoves(th, [th EXCEPT ![t] = x], t, x)
    BY <1>1, <2>7, ThreadSet
  <2> QED BY <1>6, <2>1, <2>5, <2>6, <2>7, <2>8 DEF OneMoves
<1> QED BY <1>4, <1>5, <1>6, SetLockCases

\* flock(LOCK_UN) is of all of the file.
LEMMA FileRequest ==
  ASSUME NEW t \in Threads, NEW r \in Requests[t], r.id \in Files
  PROVE  \A x \in Nat : Covers(lf(r), x)
<1>1. r.whence = "SEEK_SET" /\ r.l_start = 0 /\ r.l_len = 0
  BY LockfAssumption
<1>2. lf(r).start = 0 /\ lf(r).end = EOF_
  BY <1>1 DEF lf, start, end
<1> QED BY <1>2 DEF Covers

LEMMA NextClosedInv ==
  ASSUME OneUnlocks, LockfInv, NeverFull, NeverFull', ClosedInv, [Next]_vars
  PROVE  ClosedInv'
<1>1. Sound(locks) /\ ThreadsOK(th) /\ haslock \subseteq Files /\ isopen \subseteq Owners
  BY DEF LockfInv
<1>2. Procs \cap Files = {}
  BY LockfAssumption
<1>3. \A o \in Holders(locks) : o \in isopen /\ (o \in Files => o \in haslock)
  BY DEF ClosedInv, Closed
<1>4. \A t \in Threads : th[t].pc = "lockf" =>
        /\ th[t].req.id \in Files => th[t].req.id \in isopen \cap haslock
        /\ th[t].req.id \in isopen \/ th[t].lost
  BY DEF ClosedInv, Closed
<1>5. SUFFICES Closed(locks', th', isopen', haslock')
  BY DEF ClosedInv
<1> USE DEF Closed
<1>6. ASSUME NEW t \in Threads, lf_setlock(t)
      PROVE  Closed(locks', th', isopen', haslock')
  <2>1. PICK r \in Requests[t] :
          /\ th[t].pc = "user" /\ r.op = "F_SETLK" /\ r.id \in isopen /\ valid(r)
          /\ IF ENOLCK(1, locks, t) THEN UNCHANGED <<locks, th>> ELSE SetLock(t, r, FALSE)
          /\ haslock' = haslock \cup ({r.id} \cap Files)
          /\ UNCHANGED isopen
    BY <1>6 DEF lf_setlock, sys_flock
  <2>2. CASE ENOLCK(1, locks, t)
    BY <1>3, <1>4, <2>1, <2>2
  <2>3. CASE ~ ENOLCK(1, locks, t)
    <3>1. SetLock(t, r, FALSE) /\ r \in Asked(t) /\ FALSE \in BOOLEAN
      BY <2>1, <2>3 DEF Asked
    <3>2. /\ Holders(locks') \subseteq Holders(locks) \cup {r.id}
          /\ \A u \in Threads : u # t => th'[u] = th[u]
          /\ th'[t].pc = "lockf" => th'[t].req = r
      BY <3>1, SetLockHolders
    <3> QED BY <1>3, <1>4, <2>1, <3>2
  <2> QED BY <2>2, <2>3
<1>7. ASSUME NEW t \in Threads, lf_setlock_woken(t)
      PROVE  Closed(locks', th', isopen', haslock')
  <2>1. /\ th[t].pc = "lockf" /\ SetLock(t, th[t].req, th[t].lost) /\ UNCHANGED <<isopen, haslock>>
    BY <1>7 DEF lf_setlock_woken
  <2>2. th[t].req \in Asked(t) /\ th[t].lost \in BOOLEAN
    BY <1>1, <2>1, SleeperIs
  <2>3. /\ Holders(locks') \subseteq Holders(locks) \cup {th[t].req.id}
        /\ th[t].lost /\ th[t].req.id \notin Holders(locks) => th[t].req.id \notin Holders(locks')
        /\ \A u \in Threads : u # t => th'[u] = th[u]
        /\ th'[t].pc = "lockf" => th'[t].req = th[t].req /\ th'[t].lost = th[t].lost
    BY <2>1, <2>2, SetLockHolders
  <2>4. ASSUME NEW o \in Holders(locks'), o \notin Holders(locks)
        PROVE  o \in isopen /\ (o \in Files => o \in haslock)
    <3>1. o = th[t].req.id /\ ~ th[t].lost
      BY <2>3, <2>4
    <3> QED BY <1>4, <2>1, <3>1
  <2>5. \A o \in Holders(locks') : o \in isopen' /\ (o \in Files => o \in haslock')
    BY <1>3, <2>1, <2>4
  <2> QED BY <1>4, <2>1, <2>3, <2>5
<1>8. ASSUME NEW t \in Threads, lf_setlock_caught(t)
      PROVE  Closed(locks', th', isopen', haslock')
  <2>1. PICK list : list = [i \in DOMAIN locks |-> [locks[i] EXCEPT !.blk = @ \ {t}]]
    OBVIOUS
  <2>2. /\ th[t].pc = "lockf" /\ locks' = Race(list, t, th[t].req.id, th[t].lost)
        /\ th' = [th EXCEPT ![t] = Idle] /\ UNCHANGED <<isopen, haslock>>
    BY <1>8, <2>1 DEF lf_setlock_caught
  <2>3. SameLocks(locks, list)
    BY <1>1, <2>1, Leaves
  <2>4. Sound(list) /\ Holders(list) = Holders(locks)
    BY <1>1, <2>3, SameLocksSound, SameHolders
  <2>5. th[t].req.id \in Owners
    <3>1. th[t].req \in Asked(t)
      BY <1>1, <2>2, SleeperIs
    <3> QED BY <3>1, RequestProper DEF Asked, Request
  <2>6. Holders(locks') \subseteq Holders(locks)
    <3>1. PICK o \in Owners : o = th[t].req.id
      BY <2>5
    <3>2. Holders(Race(list, t, o, th[t].lost)) \subseteq Holders(list)
      BY <2>4, RaceHolders
    <3> QED BY <2>2, <2>4, <3>1, <3>2
  <2>7. OneMoves(th, [th EXCEPT ![t] = Idle], t, Idle)
    BY <1>1, ThreadSet
  <2>8. /\ \A u \in Threads : u # t => th'[u] = th[u]
        /\ th'[t].pc # "lockf"
    BY <2>2, <2>7 DEF OneMoves, Idle
  <2> QED BY <1>3, <1>4, <2>2, <2>6, <2>8
<1>9. ASSUME NEW t \in Threads, lf_unlock(t)
      PROVE  Closed(locks', th', isopen', haslock')
  <2>1. PICK r \in Requests[t] :
          /\ th[t].pc = "user" /\ r.op = "F_UNLCK" /\ valid(r)
          /\ haslock' = haslock \ {r.id} /\ UNCHANGED <<th, isopen>>
          /\ locks' = IF ENOLCK(2, locks, t) THEN locks ELSE lf_clearlock(locks, lf(r))
    BY <1>9 DEF lf_unlock, sys_flock
  <2>2. locks' = lf_clearlock(locks, lf(r))
    BY <2>1 DEF NeverFull
  <2>3. Proper(lf(r)) /\ lf(r).id = r.id
    BY <2>1, RequestProper
  <2>4. /\ Holders(locks') \subseteq Holders(locks)
        /\ r.id \in Files => r.id \notin Holders(locks')
    BY <1>1, <2>2, <2>3, ClearHolders, FileRequest
  <2>5. ASSUME NEW u \in Threads, th[u].pc = "lockf", th[u].req.id \in Files
        PROVE  th[u].req.id # r.id
    <3>1. th[u].req \in Requests[u] /\ th[u].req.op = "F_SETLK"
      BY <1>1, <2>5, SleeperIs DEF Asked
    <3>2. u # t
      BY <2>1, <2>5
    <3> QED BY <2>1, <2>5, <3>1, <3>2 DEF OneUnlocks
  <2> QED BY <1>3, <1>4, <2>1, <2>4, <2>5
<1>10. ASSUME NEW p \in Procs, closef(p)
       PROVE  Closed(locks', th', isopen', haslock')
  <2>1. /\ isopen' = isopen \ {p} /\ UNCHANGED haslock
        /\ locks' = IF ENOLCK(2, locks, p) THEN locks ELSE lf_clearlock(locks, whole(p))
        /\ th' = MarkLost(th, p)
    BY <1>10 DEF closef, MarkLost
  <2>2. p \in Owners
    BY DEF Owners
  <2>3. locks' = lf_clearlock(locks, whole(p))
    BY <2>1, <2>2 DEF NeverFull
  <2>4. Holders(locks') \subseteq Holders(locks) /\ p \notin Holders(locks')
    BY <1>1, <2>2, <2>3, WholeProper, ClearHolders
  <2>5. \A t \in Threads : /\ th'[t].pc = th[t].pc
                           /\ th[t].pc = "lockf" => /\ th'[t].req = th[t].req
                                                    /\ th'[t].lost <=> th[t].lost \/ th[t].req.id = p
    BY <1>1, <2>1, LostKeeps
  <2>6. p \notin Files
    BY <1>2
  <2> QED BY <1>3, <1>4, <2>1, <2>4, <2>5, <2>6
<1>11. ASSUME NEW f \in Files, vn_closefile(f)
       PROVE  Closed(locks', th', isopen', haslock')
  <2>1. /\ isopen' = isopen \ {f} /\ haslock' = haslock \ {f} /\ UNCHANGED th
        /\ \A t \in Threads : th[t].pc = "lockf" => th[t].req.id # f
        /\ locks' = IF f \in haslock /\ ~ ENOLCK(2, locks, f) THEN lf_clearlock(locks, whole(f)) ELSE locks
    BY <1>11 DEF vn_closefile
  <2>2. f \in Owners
    BY DEF Owners
  <2>3. locks' = IF f \in haslock THEN lf_clearlock(locks, whole(f)) ELSE locks
    BY <2>1, <2>2 DEF NeverFull
  <2>4. Holders(locks') \subseteq Holders(locks) /\ f \notin Holders(locks')
    <3>1. CASE f \in haslock
      BY <1>1, <2>2, <2>3, <3>1, WholeProper, ClearHolders
    <3>2. CASE f \notin haslock
      BY <1>3, <2>3, <3>2
    <3> QED BY <3>1, <3>2
  <2> QED BY <1>3, <1>4, <2>1, <2>4
<1>12. ASSUME NEW o \in Owners, open(o)
       PROVE  Closed(locks', th', isopen', haslock')
  BY <1>3, <1>4, <1>12 DEF open
<1>13. CASE UNCHANGED vars
  BY <1>3, <1>4, <1>13 DEF vars
<1> QED BY <1>6, <1>7, <1>8, <1>9, <1>10, <1>11, <1>12, <1>13 DEF Next

\* Who has closed the file holds no lock, whatever the requests and however
\* close() races with them, as long as lf_alloc() does not fail for an unlock
\* and nobody unlocks a struct file that another thread locks: the two ways to
\* break it that MCLockfLimit and MCLockfUnlock show are the only ones.
THEOREM ClosedNeverHolds ==
  ASSUME OneUnlocks
  PROVE  Spec /\ []NeverFull => []ClosedHoldsNothing
<1>1. Init => ClosedInv
  BY DEF Init, ClosedInv, Closed, Holders, Idle
<1>2. LockfInv /\ NeverFull /\ NeverFull' /\ ClosedInv /\ [Next]_vars => ClosedInv'
  BY NextClosedInv
<1>3. ClosedInv => ClosedHoldsNothing
  BY DEF ClosedInv, Closed, Holders, ClosedHoldsNothing
<1> QED BY <1>1, <1>2, <1>3, LockfInvHolds, PTL DEF Spec

-----------------------------------------------------------------------------
(* Byte by byte. *)

Modes == {"F_RDLCK", "F_WRLCK"}

LEMMA HoldingIs ==
  ASSUME NEW list, Sound(list), NEW o, NEW b \in Nat
  PROVE  /\ holding(list, o, b) \in Modes \cup {"F_UNLCK"}
         /\ \A m \in Modes : holding(list, o, b) = m <=> Has(list, o, b, m)
<1>1. PICK L : L = {i \in DOMAIN list : /\ list[i].id = o
                                        /\ list[i].start <= b /\ reaches(list[i], b)}
  OBVIOUS
<1>2. \A i \in DOMAIN list : i \in L <=> list[i].id = o /\ Covers(list[i], b)
  BY <1>1 DEF Covers, reaches, EOF_
<1>3. L \subseteq DOMAIN list
  BY <1>1
<1>4. holding(list, o, b) = IF L = {} THEN "F_UNLCK" ELSE list[CHOOSE i \in L : TRUE].type
  BY <1>1 DEF holding
<1>5. CASE L = {}
  BY <1>2, <1>4, <1>5 DEF Has, Modes
<1>6. CASE L # {}
  <2>1. PICK i \in L : i = CHOOSE j \in L : TRUE
    BY <1>6
  <2>2. i \in DOMAIN list /\ list[i].id = o /\ Covers(list[i], b) /\ Proper(list[i])
    BY <1>2, <1>3 DEF Sound
  <2>3. holding(list, o, b) = list[i].type /\ list[i].type \in Modes
    BY <1>4, <1>6, <2>1, <2>2 DEF Proper, Lock, Modes
  <2>4. ASSUME NEW j \in DOMAIN list, list[j].id = o, Covers(list[j], b)
        PROVE  i = j
    <3>1. PICK f, g : f = list[i] /\ g = list[j]
      OBVIOUS
    <3>2. /\ i < j => Before(f, g)
          /\ j < i => Before(g, f)
      BY <2>2, <2>4, <3>1 DEF Sound
    <3>3. /\ f.start \in Nat /\ f.end \in Nat \cup {-1} /\ g.start \in Nat /\ g.end \in Nat \cup {-1}
          /\ Covers(f, b) /\ Covers(g, b)
      BY <2>2, <2>4, <3>1 DEF Sound, Proper, Lock, EOF_
    <3>4. ~ Before(f, g) /\ ~ Before(g, f)
      BY <3>3 DEF Before, Covers, EOF_
    <3>5. i \in Int /\ j \in Int
      BY <2>2 DEF Sound
    <3> QED BY <3>2, <3>4, <3>5
  <2>5. \A m : Has(list, o, b, m) <=> m = list[i].type
    BY <2>2, <2>4 DEF Has
  <2> QED BY <2>3, <2>5
<1> QED BY <1>5, <1>6

\* What a list says who holds: held of any list.
HeldAs(list) == [o \in Owners |-> [b \in 0 .. LastByte |-> holding(list, o, b)]]

\* In the list other, owner o has the range of lock in mode m, or has lost it,
\* and all else is as in list.
Change(list, other, o, m, lock) ==
  \A u \in Owners : \A x \in Nat : \A k \in Modes :
    Has(other, u, x, k) <=> \/ u = o /\ k = m /\ Covers(lock, x)
                            \/ Has(list, u, x, k) /\ ~ (u = o /\ Covers(lock, x))

LEMMA ClearChange ==
  ASSUME NEW list, Sound(list), NEW lock, Proper(lock)
  PROVE  Change(list, lf_clearlock(list, lock), lock.id, "F_UNLCK", lock)
<1>1. "F_UNLCK" \notin Modes
  BY DEF Modes
<1> QED BY <1>1, ClearHas DEF Change

LEMMA AddChange ==
  ASSUME NEW list, Sound(list), NEW lock, Proper(lock)
  PROVE  Change(list, addlock(list, lock), lock.id, lock.type, lock)
BY AddHas DEF Change, Gets

LEMMA SameChange ==
  ASSUME NEW list, NEW list2, NEW list3, SameLocks(list2, list3), NEW o, NEW m, NEW lock,
         Change(list, list2, o, m, lock)
  PROVE  Change(list, list3, o, m, lock)
BY SameLocksHas DEF Change

\* An fcntl() that gets a lock and gives up all has only given up.
LEMMA AddClearChange ==
  ASSUME NEW list, Sound(list), NEW lock, Proper(lock)
  PROVE  Change(list, lf_clearlock(addlock(list, lock), whole(lock.id)), lock.id, "F_UNLCK", whole(lock.id))
<1>1. lock.id \in Owners
  BY DEF Proper, Lock
<1>2. PICK w : w = addlock(list, lock)
  OBVIOUS
<1>3. Sound(w) /\ Change(list, w, lock.id, lock.type, lock)
  BY <1>2, AddSound, AddChange
<1>4. Proper(whole(lock.id)) /\ whole(lock.id).id = lock.id /\ \A x \in Nat : Covers(whole(lock.id), x)
  BY <1>1, WholeProper
<1>5. Change(w, lf_clearlock(w, whole(lock.id)), lock.id, "F_UNLCK", whole(lock.id))
  BY <1>3, <1>4, ClearChange
<1>6. Change(list, lf_clearlock(w, whole(lock.id)), lock.id, "F_UNLCK", whole(lock.id))
  BY <1>3, <1>4, <1>5 DEF Change, Modes
<1> QED BY <1>2, <1>6

\* Bytes s .. e are given to o, or taken.
PutAs(h, o, m, s, e) == [h EXCEPT ![o] = [b \in 0 .. LastByte |-> IF b \in s .. e THEN m ELSE @[b]]]

LEMMA ChangeIs ==
  ASSUME NEW list, Sound(list), NEW other, Sound(other), NEW o \in Owners,
         NEW m \in Modes \cup {"F_UNLCK"}, NEW lock, Proper(lock), Change(list, other, o, m, lock)
  PROVE  \/ HeldAs(other) = HeldAs(list)
         \/ \E s, e \in 0 .. LastByte :
              /\ s <= e /\ \A b \in s .. e : b \in 0 .. LastByte /\ Covers(lock, b)
              /\ HeldAs(other) = PutAs(HeldAs(list), o, m, s, e)
<1>1. LastByte \in Nat /\ \A b \in 0 .. LastByte : b \in Nat
  BY LockfAssumption
<1>2. ASSUME NEW u \in Owners, NEW b \in 0 .. LastByte
      PROVE  holding(other, u, b) = IF u = o /\ Covers(lock, b) THEN m ELSE holding(list, u, b)
  <2>1. /\ holding(other, u, b) \in Modes \cup {"F_UNLCK"} /\ holding(list, u, b) \in Modes \cup {"F_UNLCK"}
        /\ \A k \in Modes : holding(other, u, b) = k <=> Has(other, u, b, k)
        /\ \A k \in Modes : holding(list, u, b) = k <=> Has(list, u, b, k)
    BY <1>1, HoldingIs
  <2>2. \A k \in Modes : Has(other, u, b, k) <=> \/ u = o /\ k = m /\ Covers(lock, b)
                                                 \/ Has(list, u, b, k) /\ ~ (u = o /\ Covers(lock, b))
    BY <1>1 DEF Change
  <2>3. CASE u = o /\ Covers(lock, b)
    BY <2>1, <2>2, <2>3 DEF Modes
  <2>4. CASE ~ (u = o /\ Covers(lock, b))
    BY <2>1, <2>2, <2>4 DEF Modes
  <2> QED BY <2>3, <2>4
<1>3. /\ lock.start \in Nat /\ lock.end \in Nat \cup {-1} /\ (lock.end = -1 \/ lock.start <= lock.end)
  BY DEF Proper, Lock, EOF_
<1>4. CASE lock.start > LastByte
  <2>1. \A b \in 0 .. LastByte : ~ Covers(lock, b)
    BY <1>1, <1>3, <1>4 DEF Covers
  <2>2. \A u \in Owners : \A b \in 0 .. LastByte : holding(other, u, b) = holding(list, u, b)
    BY <1>2, <2>1
  <2>3. HeldAs(other) = HeldAs(list)
    BY <2>2 DEF HeldAs
  <2> QED BY <2>3
<1>5. CASE lock.start <= LastByte
  <2>1. PICK s, e \in 0 .. LastByte : /\ s = lock.start
                                      /\ e = IF lock.end = -1 \/ lock.end > LastByte THEN LastByte ELSE lock.end
    BY <1>1, <1>3, <1>5
  <2>2. s <= e /\ \A b \in 0 .. LastByte : Covers(lock, b) <=> b \in s .. e
    BY <1>1, <1>3, <1>5, <2>1 DEF Covers, EOF_
  <2>3. \A b \in s .. e : b \in 0 .. LastByte
    BY <1>1
  <2>4. PICK g : g = [b \in 0 .. LastByte |-> IF b \in s .. e THEN m ELSE HeldAs(list)[o][b]]
    OBVIOUS
  <2>5. \A b \in 0 .. LastByte : g[b] = holding(other, o, b)
    BY <1>2, <2>2, <2>4 DEF HeldAs
  <2>6. g = [b \in 0 .. LastByte |-> holding(other, o, b)]
    BY <2>4, <2>5
  <2>7. \A u \in Owners : u # o => HeldAs(other)[u] = HeldAs(list)[u]
    BY <1>2 DEF HeldAs
  <2>8. HeldAs(other)[o] = g
    BY <2>6 DEF HeldAs
  <2>9. /\ HeldAs(other) = [u \in Owners |-> HeldAs(other)[u]]
        /\ HeldAs(list) = [u \in Owners |-> HeldAs(list)[u]]
    BY DEF HeldAs
  <2>10. PICK h, h2 : h = HeldAs(list) /\ h2 = HeldAs(other)
    OBVIOUS
  <2>11. h2 = [h EXCEPT ![o] = g]
    BY <2>7, <2>8, <2>9, <2>10
  <2>12. HeldAs(other) = PutAs(HeldAs(list), o, m, s, e)
    BY <2>4, <2>10, <2>11 DEF PutAs
  <2> QED BY <2>2, <2>3, <2>12
<1> QED BY <1>1, <1>3, <1>4, <1>5

LEMMA HeldIs == held = HeldAs(locks) /\ held' = HeldAs(locks')
BY DEF held, HeldAs

\* A step in which an owner gives up a range, or nobody does anything.
LEMMA ClearRefines ==
  ASSUME Sound(locks), Sound(locks'), NEW o \in Owners, NEW lock, Proper(lock),
         Change(locks, locks', o, "F_UNLCK", lock)
  PROVE  [Locks!Next]_held
<1>1. CASE HeldAs(locks') = HeldAs(locks)
  BY <1>1, HeldIs
<1>2. ASSUME NEW s \in 0 .. LastByte, NEW e \in 0 .. LastByte, s <= e,
             HeldAs(locks') = PutAs(HeldAs(locks), o, "F_UNLCK", s, e)
      PROVE  [Locks!Next]_held
  <2>1. PICK r : r = <<s, e>>
    OBVIOUS
  <2>2. r \in Locks!Range /\ r[1] = s /\ r[2] = e
    BY <1>2, <2>1 DEF Locks!Range
  <2>3. held' = PutAs(held, o, "F_UNLCK", s, e)
    BY <1>2, HeldIs
  <2>4. Locks!Clear(o, r)
    BY <2>2, <2>3 DEF Locks!Clear, Locks!Put, PutAs
  <2> QED BY <2>2, <2>4 DEF Locks!Next
<1> QED BY <1>1, <1>2, ChangeIs

LEMMA SameRefines ==
  ASSUME NEW other, SameLocks(locks, other), locks' = other, Sound(locks)
  PROVE  [Locks!Next]_held
<1>1. LastByte \in Nat /\ \A b \in 0 .. LastByte : b \in Nat
  BY LockfAssumption
<1>2. Sound(other)
  BY SameLocksSound
<1>3. ASSUME NEW u, NEW b \in 0 .. LastByte
      PROVE  holding(other, u, b) = holding(locks, u, b)
  <2>1. /\ holding(other, u, b) \in Modes \cup {"F_UNLCK"} /\ holding(locks, u, b) \in Modes \cup {"F_UNLCK"}
        /\ \A k \in Modes : holding(other, u, b) = k <=> Has(other, u, b, k)
        /\ \A k \in Modes : holding(locks, u, b) = k <=> Has(locks, u, b, k)
    BY <1>1, <1>2, HoldingIs
  <2>2. \A k : Has(other, u, b, k) <=> Has(locks, u, b, k)
    BY SameLocksHas
  <2> QED BY <2>1, <2>2
<1>4. HeldAs(other) = HeldAs(locks)
  BY <1>3 DEF HeldAs
<1> QED BY <1>4, HeldIs

\* A step in which an owner gets a range that nobody else holds in a mode that
\* conflicts.
LEMMA SetRefines ==
  ASSUME Sound(locks), Sound(locks'), NEW lock, Proper(lock), lf_getblock(locks, lock) = 0,
         Change(locks, locks', lock.id, lock.type, lock)
  PROVE  [Locks!Next]_held
<1>1. lock.id \in Owners /\ lock.type \in Modes
  BY DEF Proper, Lock, Modes
<1>2. LastByte \in Nat /\ \A b \in 0 .. LastByte : b \in Nat
  BY LockfAssumption
<1>3. ASSUME NEW u \in Owners \ {lock.id}, NEW b \in 0 .. LastByte, Covers(lock, b)
      PROVE  /\ lock.type = "F_WRLCK" => held[u][b] = "F_UNLCK"
             /\ held[u][b] # "F_WRLCK"
  <2>1. held[u][b] = holding(locks, u, b)
    BY DEF held
  <2>2. PICK k : k = holding(locks, u, b)
    OBVIOUS
  <2>3. k \in Modes \cup {"F_UNLCK"} /\ (k \in Modes => Has(locks, u, b, k))
    BY <1>2, <2>2, HoldingIs
  <2>4. ASSUME k \in Modes
        PROVE  "F_WRLCK" \notin {k, lock.type}
    <3>1. PICK i \in DOMAIN locks : locks[i].id = u /\ locks[i].type = k /\ Covers(locks[i], b)
      BY <2>3, <2>4 DEF Has
    <3>2. ~ Conflict(locks[i], lock)
      BY GetBlock
    <3>3. Proper(locks[i])
      BY DEF Sound
    <3> QED BY <1>2, <1>3, <3>1, <3>2, <3>3, ConflictByte
  <2> QED BY <2>1, <2>2, <2>3, <2>4
<1>4. CASE HeldAs(locks') = HeldAs(locks)
  BY <1>4, HeldIs
<1>5. ASSUME NEW s \in 0 .. LastByte, NEW e \in 0 .. LastByte, s <= e,
             \A b \in s .. e : b \in 0 .. LastByte /\ Covers(lock, b),
             HeldAs(locks') = PutAs(HeldAs(locks), lock.id, lock.type, s, e)
      PROVE  [Locks!Next]_held
  <2>1. PICK r : r = <<s, e>>
    OBVIOUS
  <2>2. r \in Locks!Range /\ r[1] = s /\ r[2] = e
    BY <1>5, <2>1 DEF Locks!Range
  <2>3. held' = PutAs(held, lock.id, lock.type, s, e)
    BY <1>5, HeldIs
  <2>4. Locks!Put(lock.id, lock.type, r)
    BY <2>2, <2>3 DEF Locks!Put, PutAs
  <2>5. \A u \in Owners \ {lock.id} : \A b \in r[1] .. r[2] :
          /\ lock.type = "F_WRLCK" => held[u][b] = "F_UNLCK"
          /\ held[u][b] # "F_WRLCK"
    BY <1>3, <1>5, <2>2
  <2>6. Locks!Set(lock.id, lock.type, r)
    BY <2>4, <2>5 DEF Locks!Set
  <2> QED BY <1>1, <2>2, <2>6 DEF Locks!Next, Locks!Modes, Modes
<1> QED BY <1>1, <1>4, <1>5, ChangeIs

LEMMA RaceRefines ==
  ASSUME NEW list, Sound(locks), SameLocks(locks, list), NEW o \in Owners, NEW t, NEW lost,
         locks' = Race(list, t, o, lost)
  PROVE  [Locks!Next]_held
<1>1. Sound(list)
  BY SameLocksSound
<1>2. CASE locks' = list
  BY <1>2, SameRefines
<1>3. CASE locks' = lf_clearlock(list, whole(o))
  <2>1. Proper(whole(o)) /\ whole(o).id = o
    BY WholeProper
  <2>2. Sound(locks') /\ Change(list, locks', o, "F_UNLCK", whole(o))
    BY <1>1, <1>3, <2>1, ClearSound, ClearChange
  <2>3. Change(locks, locks', o, "F_UNLCK", whole(o))
    <3>1. \A u, x, k : Has(list, u, x, k) <=> Has(locks, u, x, k)
      BY SameLocksHas
    <3> QED BY <2>2, <3>1 DEF Change
  <2> QED BY <2>1, <2>2, <2>3, ClearRefines
<1> QED BY <1>2, <1>3 DEF Race

LEMMA SetLockRefines ==
  ASSUME LockfInv, Sound(locks'), NEW t \in Threads, NEW r \in Asked(t), NEW lost \in BOOLEAN,
         SetLock(t, r, lost)
  PROVE  [Locks!Next]_held
<1>1. Sound(locks)
  BY DEF LockfInv
<1>2. PICK lock : lock = lf(r)
  OBVIOUS
<1>3. Proper(lock) /\ r.id \in Owners /\ lock.id = r.id
  BY <1>2, RequestProper DEF Asked, Request
<1>4. CASE /\ lf_getblock(locks, lf(r)) = 0
           /\ locks' = Race(addlock(locks, lf(r)), t, r.id, lost)
  <2>1. CASE locks' = addlock(locks, lock)
    <3>1. Change(locks, locks', lock.id, lock.type, lock)
      BY <1>1, <1>3, <2>1, AddChange
    <3> QED BY <1>1, <1>2, <1>3, <1>4, <3>1, SetRefines
  <2>2. CASE locks' = lf_clearlock(addlock(locks, lock), whole(lock.id))
    <3>1. Change(locks, locks', lock.id, "F_UNLCK", whole(lock.id))
      BY <1>1, <1>3, <2>2, AddClearChange
    <3>2. Proper(whole(lock.id))
      BY <1>3, WholeProper
    <3> QED BY <1>1, <1>3, <3>1, <3>2, ClearRefines
  <2> QED BY <1>2, <1>3, <1>4, <2>1, <2>2 DEF Race
<1>5. CASE locks' = Race(locks, t, r.id, lost)
  <2>1. SameLocks(locks, locks)
    BY <1>1 DEF SameLocks, Sound
  <2> QED BY <1>1, <1>3, <1>5, <2>1, RaceRefines
<1>6. ASSUME NEW list, list = locks \/ list = lf_clearlock(locks, lf(r)),
             lf_getblock(list, lf(r)) # 0,
             locks' = [list EXCEPT ![lf_getblock(list, lf(r))].blk = @ \cup {t}]
      PROVE  [Locks!Next]_held
  <2>1. Sound(list)
    BY <1>1, <1>2, <1>3, <1>6, ClearSound
  <2>2. PICK k : k = lf_getblock(list, lf(r))
    OBVIOUS
  <2>3. k \in DOMAIN list
    BY <1>6, <2>1, <2>2, GetBlock
  <2>4. PICK other : other = locks'
    OBVIOUS
  <2>5. SameLocks(list, other)
    BY <1>6, <2>1, <2>2, <2>3, <2>4, SleepsOn
  <2>6. CASE list = locks
    BY <1>1, <2>4, <2>5, <2>6, SameRefines
  <2>7. CASE list = lf_clearlock(locks, lock)
    <3>1. Change(locks, list, lock.id, "F_UNLCK", lock)
      BY <1>1, <1>3, <2>7, ClearChange
    <3>2. Change(locks, other, lock.id, "F_UNLCK", lock)
      BY <2>5, <3>1, SameChange
    <3> QED BY <1>1, <1>3, <2>4, <3>2, ClearRefines
  <2> QED BY <1>2, <1>6, <2>6, <2>7
<1> QED BY <1>4, <1>5, <1>6, SetLockCases

\* Clearing a range, or failing to.
LEMMA UnlockRefines ==
  ASSUME Sound(locks), Sound(locks'), NEW lock, Proper(lock),
         locks' = locks \/ locks' = lf_clearlock(locks, lock)
  PROVE  [Locks!Next]_held
<1>1. CASE locks' = locks
  BY <1>1, HeldIs
<1>2. CASE locks' = lf_clearlock(locks, lock)
  <2>1. Change(locks, locks', lock.id, "F_UNLCK", lock) /\ lock.id \in Owners
    BY <1>2, ClearChange DEF Proper, Lock
  <2> QED BY <2>1, ClearRefines
<1> QED BY <1>1, <1>2

LEMMA NextRefines ==
  ASSUME LockfInv, LockfInv', [Next]_vars
  PROVE  [Locks!Next]_held
<1>1. Sound(locks) /\ Sound(locks') /\ ThreadsOK(th)
  BY DEF LockfInv
<1>2. ASSUME NEW t \in Threads, lf_setlock(t)
      PROVE  [Locks!Next]_held
  <2>1. PICK r \in Requests[t] :
          /\ r.op = "F_SETLK" /\ valid(r)
          /\ IF ENOLCK(1, locks, t) THEN UNCHANGED <<locks, th>> ELSE SetLock(t, r, FALSE)
    BY <1>2 DEF lf_setlock, sys_flock
  <2>2. r \in Asked(t) /\ FALSE \in BOOLEAN
    BY <2>1 DEF Asked
  <2>3. CASE ENOLCK(1, locks, t)
    <3>1. locks' = locks
      BY <2>1, <2>3
    <3> QED BY <3>1, HeldIs
  <2>4. CASE ~ ENOLCK(1, locks, t)
    BY <1>1, <2>1, <2>2, <2>4, SetLockRefines
  <2> QED BY <2>3, <2>4
<1>3. ASSUME NEW t \in Threads, lf_setlock_woken(t)
      PROVE  [Locks!Next]_held
  <2>1. th[t].pc = "lockf" /\ SetLock(t, th[t].req, th[t].lost)
    BY <1>3 DEF lf_setlock_woken
  <2>2. th[t].req \in Asked(t) /\ th[t].lost \in BOOLEAN
    BY <1>1, <2>1, SleeperIs
  <2> QED BY <1>1, <2>1, <2>2, SetLockRefines
<1>4. ASSUME NEW t \in Threads, lf_setlock_caught(t)
      PROVE  [Locks!Next]_held
  <2>1. PICK list : list = [i \in DOMAIN locks |-> [locks[i] EXCEPT !.blk = @ \ {t}]]
    OBVIOUS
  <2>2. th[t].pc = "lockf" /\ locks' = Race(list, t, th[t].req.id, th[t].lost)
    BY <1>4, <2>1 DEF lf_setlock_caught
  <2>3. SameLocks(locks, list)
    BY <1>1, <2>1, Leaves
  <2>4. th[t].req.id \in Owners
    <3>1. th[t].req \in Asked(t)
      BY <1>1, <2>2, SleeperIs
    <3> QED BY <3>1, RequestProper DEF Asked, Request
  <2>5. PICK o \in Owners : o = th[t].req.id
    BY <2>4
  <2>6. locks' = Race(list, t, o, th[t].lost)
    BY <2>2, <2>5
  <2> QED BY <1>1, <2>3, <2>6, RaceRefines
<1>5. ASSUME NEW t \in Threads, lf_unlock(t)
      PROVE  [Locks!Next]_held
  <2>1. PICK r \in Requests[t] :
          /\ valid(r)
          /\ locks' = IF ENOLCK(2, locks, t) THEN locks ELSE lf_clearlock(locks, lf(r))
    BY <1>5 DEF lf_unlock, sys_flock
  <2>2. Proper(lf(r))
    BY <2>1, RequestProper
  <2> QED BY <1>1, <2>1, <2>2, UnlockRefines
<1>6. ASSUME NEW p \in Procs, closef(p)
      PROVE  [Locks!Next]_held
  <2>1. locks' = locks \/ locks' = lf_clearlock(locks, whole(p))
    BY <1>6 DEF closef
  <2>2. Proper(whole(p))
    BY WholeProper DEF Owners
  <2> QED BY <1>1, <2>1, <2>2, UnlockRefines
<1>7. ASSUME NEW f \in Files, vn_closefile(f)
      PROVE  [Locks!Next]_held
  <2>1. locks' = locks \/ locks' = lf_clearlock(locks, whole(f))
    BY <1>7 DEF vn_closefile
  <2>2. Proper(whole(f))
    BY WholeProper DEF Owners
  <2> QED BY <1>1, <2>1, <2>2, UnlockRefines
<1>8. ASSUME NEW o \in Owners, open(o)
      PROVE  [Locks!Next]_held
  BY <1>8, HeldIs DEF open
<1>9. CASE UNCHANGED vars
  BY <1>9, HeldIs DEF vars
<1> QED BY <1>2, <1>3, <1>4, <1>5, <1>6, <1>7, <1>8, <1>9 DEF Next

\* Byte by byte, vfs_lockf.c gives what LockfSpec promises, for any requests,
\* any limit and any races with close(): nobody gets a byte that another owner
\* holds in a mode that conflicts, who gets a range has all of it in the mode
\* asked for, and nothing but what is given up is lost.
THEOREM LocksRefinement == Spec => ImplementsLocks
<1>1. Init => Locks!Init
  <2> SUFFICES ASSUME Init PROVE Locks!Init
    OBVIOUS
  <2>1. locks = << >>
    BY DEF Init
  <2>2. \A o, b : holding(locks, o, b) = "F_UNLCK"
    BY <2>1 DEF holding
  <2> QED BY <2>2 DEF held, Locks!Init
<1>2. LockfInv /\ LockfInv' /\ [Next]_vars => [Locks!Next]_held
  BY NextRefines
<1> QED BY <1>1, <1>2, LockfInvHolds, PTL DEF Spec, ImplementsLocks, Locks!Spec
=============================================================================
