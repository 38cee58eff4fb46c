------------------------------ MODULE SRPProof ------------------------------
(***************************************************************************)
(* What srp_enter() and srp_follow() return stays alive until srp_leave(), *)
(* for any number of CPUs, hazard records, srps, values and updaters, if   *)
(* the stores of a CPU are seen in the order of the program.               *)
(*                                                                         *)
(* HeldAlive is not inductive: that the value is not destroyed yet does    *)
(* not say that no scan has overlooked its record.  Protected says where a *)
(* held value is: still in its srp, or being looked for by a scan that has *)
(* the record before it, or waiting for its timeout.  That the scan looks  *)
(* at the right srp, and that nobody else destroys the value, is OnePlace. *)
(***************************************************************************)
EXTENDS SRP, FiniteSetTheorems, TLAPS

InSrpV == [at : {"idle", "load", "store", "check"}, srp : Srps \cup {NULL},
           v : Vals \cup {NULL}, i : 0..NUM]

Types ==
  /\ ref \in [Srps -> Vals \cup {NULL}]
  /\ hazard \in [Records -> [sh_p : Srps \cup {NULL}, sh_v : Vals \cup {NULL}]]
  /\ own = hazard /\ buf = [r \in Readers |-> <<>>]
  /\ rd \in [Readers -> InSrpV]
  /\ held \in [Records -> Vals \cup {NULL}]
  /\ scan \in [Scanners -> [srp : Srps \cup {NULL}, v : Vals \cup {NULL},
                            todo : SUBSET Records, hit : Records \cup {NULL}]]
  /\ ticks \subseteq Srps \X Vals
  /\ destroyed \subseteq Vals

\* A scan at work looks for a value of an srp.
ScansMeanIt ==
  \A x \in Scanners :
    /\ scan[x] # NoScan => scan[x].srp \in Srps /\ scan[x].v \in Vals
    /\ scan[x].hit # NULL => scan[x] # NoScan

\* A value is in one srp, or looked for by one scan, or waits for one timeout,
\* or is destroyed.
OnePlace ==
  /\ \A s \in Srps : ref[s] # NULL =>
       /\ ref[s] \notin destroyed
       /\ \A t \in Srps : ref[t] = ref[s] => t = s
       /\ \A x \in Scanners : scan[x].v # ref[s]
       /\ \A t \in Srps : <<t, ref[s]>> \notin ticks
  /\ \A x \in Scanners : scan[x].v # NULL =>
       /\ scan[x].v \notin destroyed
       /\ \A y \in Scanners : scan[y].v = scan[x].v => y = x
       /\ \A t \in Srps : <<t, scan[x].v>> \notin ticks
  /\ \A s \in Srps, v \in Vals : <<s, v>> \in ticks =>
       /\ v \notin destroyed
       /\ \A t \in Srps : <<t, v>> \in ticks => t = s

\* In the loop of srp_v() the record already names the srp and, when the
\* value is compared again, the value.
PublishingBy(r) ==
  rd[r].at # "idle" =>
    /\ rd[r].srp \in Srps /\ rd[r].i \in 1..NUM
    /\ hazard[<<r, rd[r].i>>].sh_p = rd[r].srp
    /\ rd[r].at = "check" => hazard[<<r, rd[r].i>>].sh_v = rd[r].v
    /\ held[<<r, rd[r].i>>] = NULL
Publishing == \A r \in Readers : PublishingBy(r)

\* The record of a held value names it.
Recorded ==
  \A h \in Records : held[h] # NULL =>
    hazard[h].sh_p \in Srps /\ hazard[h].sh_v = held[h]

\* A held value is in its srp, or ahead of a scan, or waits for its timeout.
AheadOfScan(h, x) ==
  /\ scan[x].srp = hazard[h].sh_p /\ scan[x].v = held[h]
  /\ h \in scan[x].todo \/ scan[x].hit = h
Protected ==
  \A h \in Records : held[h] # NULL =>
    \/ ref[hazard[h].sh_p] = held[h]
    \/ \E x \in Scanners : AheadOfScan(h, x)
    \/ <<hazard[h].sh_p, held[h]>> \in ticks

IInv == Types /\ ScansMeanIt /\ OnePlace /\ Publishing /\ Recorded /\ Protected

-----------------------------------------------------------------------------

\* A protected value is alive: it is in one place, and that is not "destroyed".
LEMMA InvAlive == IInv => HeldAlive
<1> SUFFICES ASSUME IInv, NEW h \in Records PROVE held[h] \notin destroyed
  BY DEF HeldAlive
<1>1. CASE held[h] = NULL
  BY <1>1, SRPAssumption DEF IInv, Types
<1>2. CASE held[h] # NULL
  BY <1>2 DEF IInv, Types, Recorded, Protected, OnePlace, AheadOfScan
<1> QED BY <1>1, <1>2

LEMMA InvInit == TSO = FALSE /\ Init => IInv
<1> SUFFICES ASSUME TSO = FALSE, Init PROVE IInv
  OBVIOUS
<1>1. Types
  BY SRPAssumption DEF Init, Types, InSrpV, Idle, NoScan, Records
<1>2. ScansMeanIt /\ OnePlace
  BY SRPAssumption DEF Init, ScansMeanIt, OnePlace, NoScan
<1>3. Publishing /\ Recorded /\ Protected
  BY DEF Init, Publishing, PublishingBy, Recorded, Protected, Idle
<1> QED BY <1>1, <1>2, <1>3 DEF IInv

(***************************************************************************)
(* Steps of readers: what they do to their record, and to nothing else.    *)
(***************************************************************************)

\* Without store buffers a store is seen at once.
LEMMA SetP ==
  ASSUME TSO = FALSE, Types, NEW r \in Readers, NEW i \in 1..NUM,
         NEW p \in Srps \cup {NULL}, set_sh_p(r, i, p)
  PROVE  /\ hazard' \in [Records -> [sh_p : Srps \cup {NULL}, sh_v : Vals \cup {NULL}]]
         /\ own' = hazard' /\ buf' = buf
         /\ hazard'[<<r, i>>].sh_p = p /\ hazard'[<<r, i>>].sh_v = hazard[<<r, i>>].sh_v
         /\ \A h \in Records : h # <<r, i>> => hazard'[h] = hazard[h]
<1>1. <<r, i>> \in Records
  BY DEF Records
<1>2. hazard' = [hazard EXCEPT ![<<r, i>>] = [sh_p |-> p, sh_v |-> hazard[<<r, i>>].sh_v]]
  BY DEF set_sh_p, store, Types
<1>3. own' = hazard' /\ buf' = buf
  BY <1>2 DEF set_sh_p, store, Types
<1> QED BY <1>1, <1>2, <1>3 DEF Types

\* The same for the value.
LEMMA SetV ==
  ASSUME TSO = FALSE, Types, NEW r \in Readers, NEW i \in 1..NUM,
         NEW v \in Vals \cup {NULL}, set_sh_v(r, i, v)
  PROVE  /\ hazard' \in [Records -> [sh_p : Srps \cup {NULL}, sh_v : Vals \cup {NULL}]]
         /\ own' = hazard' /\ buf' = buf
         /\ hazard'[<<r, i>>].sh_p = hazard[<<r, i>>].sh_p /\ hazard'[<<r, i>>].sh_v = v
         /\ \A h \in Records : h # <<r, i>> => hazard'[h] = hazard[h]
<1>1. <<r, i>> \in Records
  BY DEF Records
<1>2. hazard' = [hazard EXCEPT ![<<r, i>>] = [sh_p |-> hazard[<<r, i>>].sh_p, sh_v |-> v]]
  BY DEF set_sh_v, store, Types
<1>3. own' = hazard' /\ buf' = buf
  BY <1>2 DEF set_sh_v, store, Types
<1> QED BY <1>1, <1>2, <1>3 DEF Types

\* A record that names nothing, or holds nothing any more, may change.
LEMMA RecordReused ==
  ASSUME IInv, NEW r \in Readers, NEW i \in 1..NUM,
         UNCHANGED <<ref, gc>>,
         hazard' \in [Records -> [sh_p : Srps \cup {NULL}, sh_v : Vals \cup {NULL}]],
         \A h \in Records : h # <<r, i>> => hazard'[h] = hazard[h],
         held' \in [Records -> Vals \cup {NULL}],
         \A h \in Records : h # <<r, i>> => held'[h] = held[h],
         held'[<<r, i>>] = NULL
  PROVE  ScansMeanIt' /\ OnePlace' /\ Recorded' /\ Protected'
<1>1. ScansMeanIt' /\ OnePlace'
  BY DEF IInv, ScansMeanIt, OnePlace, gc
<1>2. Recorded'
  BY DEF IInv, Recorded
<1>3. Protected'
  <2> SUFFICES ASSUME NEW h \in Records, held'[h] # NULL
               PROVE  \/ ref'[hazard'[h].sh_p] = held'[h]
                      \/ \E x \in Scanners : AheadOfScan(h, x)'
                      \/ <<hazard'[h].sh_p, held'[h]>> \in ticks'
    BY DEF Protected
  <2>1. h # <<r, i>> /\ held'[h] = held[h] /\ hazard'[h] = hazard[h]
    OBVIOUS
  <2>2. ref' = ref /\ scan' = scan /\ ticks' = ticks
    BY DEF gc
  <2> QED BY <2>1, <2>2, ZenonT(40) DEF IInv, Protected, AheadOfScan
<1> QED BY <1>1, <1>2, <1>3

\* A reader goes on in srp_v().
LEMMA GoOn ==
  ASSUME Types, NEW r \in Readers, NEW a \in {"load", "store", "check"},
         NEW v \in Vals \cup {NULL},
         rd' = [rd EXCEPT ![r].at = a, ![r].v = v]
  PROVE  /\ rd' \in [Readers -> InSrpV]
         /\ rd'[r].at = a /\ rd'[r].v = v /\ rd'[r].srp = rd[r].srp /\ rd'[r].i = rd[r].i
         /\ \A q \in Readers : q # r => rd'[q] = rd[q]
<1>1. rd[r] \in InSrpV
  BY DEF Types
<1>2. [rd[r] EXCEPT !.at = a, !.v = v] \in InSrpV
  BY <1>1 DEF InSrpV
<1>3. rd' = [rd EXCEPT ![r] = [rd[r] EXCEPT !.at = a, !.v = v]]
  BY DEF Types
<1> QED BY <1>1, <1>2, <1>3 DEF Types, InSrpV

\* The same, with the value it has.
LEMMA GoOnAt ==
  ASSUME Types, NEW r \in Readers, NEW a \in {"load", "store", "check"},
         rd' = [rd EXCEPT ![r].at = a]
  PROVE  /\ rd' \in [Readers -> InSrpV]
         /\ rd'[r].at = a /\ rd'[r].v = rd[r].v /\ rd'[r].srp = rd[r].srp /\ rd'[r].i = rd[r].i
         /\ \A q \in Readers : q # r => rd'[q] = rd[q]
<1>1. rd[r] \in InSrpV
  BY DEF Types
<1>2. [rd[r] EXCEPT !.at = a] \in InSrpV
  BY <1>1 DEF InSrpV
<1>3. rd' = [rd EXCEPT ![r] = [rd[r] EXCEPT !.at = a]]
  BY DEF Types
<1> QED BY <1>1, <1>2, <1>3 DEF Types, InSrpV

\* The other CPUs do not notice.
LEMMA OthersPublish ==
  ASSUME IInv, NEW r \in Readers, NEW i \in 1..NUM, NEW q \in Readers, q # r,
         rd'[q] = rd[q],
         \A h \in Records : h # <<r, i>> => hazard'[h] = hazard[h],
         \A h \in Records : h # <<r, i>> => held'[h] = held[h]
  PROVE  PublishingBy(q)'
<1> SUFFICES ASSUME rd[q].at # "idle" PROVE PublishingBy(q)'
  BY DEF PublishingBy
<1>1. PublishingBy(q)
  BY DEF IInv, Publishing
<1>2. <<q, rd[q].i>> \in Records /\ <<q, rd[q].i>> # <<r, i>>
  BY <1>1 DEF PublishingBy, Records
<1> QED BY <1>1, <1>2 DEF PublishingBy

LEMMA EnterStep ==
  ASSUME TSO = FALSE, IInv, NEW r \in Readers, NEW s \in Srps, srp_enter(r, s)
  PROVE  IInv'
<1>1. PICK i \in 1..NUM :
        /\ own[<<r, i>>].sh_p = NULL
        /\ rd' = [rd EXCEPT ![r] = [at |-> "load", srp |-> s, v |-> NULL, i |-> i]]
        /\ set_sh_p(r, i, s)
  BY DEF srp_enter
<1>2. UNCHANGED <<ref, gc>> /\ held' = held
  BY DEF srp_enter
<1>3. <<r, i>> \in Records /\ own = hazard
  BY DEF Records, IInv, Types
<1>4. held[<<r, i>>] = NULL
  BY <1>1, <1>3, SRPAssumption DEF IInv, Recorded
<1>5. /\ hazard' \in [Records -> [sh_p : Srps \cup {NULL}, sh_v : Vals \cup {NULL}]]
      /\ own' = hazard' /\ buf' = buf
      /\ hazard'[<<r, i>>].sh_p = s
      /\ \A h \in Records : h # <<r, i>> => hazard'[h] = hazard[h]
  BY <1>1, SetP DEF IInv
<1>6. ScansMeanIt' /\ OnePlace' /\ Recorded' /\ Protected'
  BY <1>2, <1>4, <1>5, RecordReused DEF IInv, Types
<1>7. Types'
  BY <1>1, <1>2, <1>5, SRPAssumption DEF IInv, Types, InSrpV, gc
<1>8. ASSUME NEW q \in Readers PROVE PublishingBy(q)'
  <2>1. CASE q = r
    BY <2>1, <1>1, <1>2, <1>4, <1>5 DEF IInv, Types, PublishingBy
  <2>2. CASE q # r
    <3>1. rd'[q] = rd[q]
      BY <2>2, <1>1 DEF IInv, Types
    <3> QED BY <3>1, <2>2, <1>2, <1>5, OthersPublish
  <2> QED BY <2>1, <2>2
<1> QED BY <1>6, <1>7, <1>8 DEF IInv, Publishing

LEMMA FollowStep ==
  ASSUME TSO = FALSE, IInv, NEW r \in Readers, NEW i \in 1..NUM,
         NEW s \in Srps, NEW v \in Vals, NEW n \in Srps, srp_follow(r, i, s, v, n)
  PROVE  IInv'
<1>1. /\ rd' = [rd EXCEPT ![r] = [at |-> "load", srp |-> n, v |-> NULL, i |-> i]]
      /\ held' = [held EXCEPT ![<<r, i>>] = NULL]
      /\ set_sh_p(r, i, n) /\ UNCHANGED <<ref, gc>>
  BY DEF srp_follow
<1>2. <<r, i>> \in Records
  BY DEF Records
<1>3. /\ held' \in [Records -> Vals \cup {NULL}] /\ held'[<<r, i>>] = NULL
      /\ \A h \in Records : h # <<r, i>> => held'[h] = held[h]
  BY <1>1, <1>2 DEF IInv, Types
<1>4. /\ hazard' \in [Records -> [sh_p : Srps \cup {NULL}, sh_v : Vals \cup {NULL}]]
      /\ own' = hazard' /\ buf' = buf
      /\ hazard'[<<r, i>>].sh_p = n
      /\ \A h \in Records : h # <<r, i>> => hazard'[h] = hazard[h]
  BY <1>1, SetP DEF IInv
<1>5. ScansMeanIt' /\ OnePlace' /\ Recorded' /\ Protected'
  BY <1>1, <1>3, <1>4, RecordReused
<1>6. Types'
  BY <1>1, <1>3, <1>4, SRPAssumption DEF IInv, Types, InSrpV, gc
<1>7. ASSUME NEW q \in Readers PROVE PublishingBy(q)'
  <2>1. CASE q = r
    BY <2>1, <1>1, <1>3, <1>4 DEF IInv, Types, PublishingBy
  <2>2. CASE q # r
    <3>1. rd'[q] = rd[q]
      BY <2>2, <1>1 DEF IInv, Types
    <3> QED BY <3>1, <2>2, <1>3, <1>4, OthersPublish
  <2> QED BY <2>1, <2>2
<1> QED BY <1>5, <1>6, <1>7 DEF IInv, Publishing

LEMMA LeaveStep ==
  ASSUME TSO = FALSE, IInv, NEW r \in Readers, NEW i \in 1..NUM,
         NEW s \in Srps, NEW v \in Vals \cup {NULL}, srp_leave(r, i, s, v)
  PROVE  IInv'
<1>1. /\ held' = [held EXCEPT ![<<r, i>>] = NULL]
      /\ set_sh_p(r, i, NULL) /\ rd' = rd /\ rd[r].at = "idle"
      /\ UNCHANGED <<ref, gc>>
  BY DEF srp_leave
<1>2. <<r, i>> \in Records
  BY DEF Records
<1>3. /\ held' \in [Records -> Vals \cup {NULL}] /\ held'[<<r, i>>] = NULL
      /\ \A h \in Records : h # <<r, i>> => held'[h] = held[h]
  BY <1>1, <1>2 DEF IInv, Types
<1>4. /\ hazard' \in [Records -> [sh_p : Srps \cup {NULL}, sh_v : Vals \cup {NULL}]]
      /\ own' = hazard' /\ buf' = buf
      /\ \A h \in Records : h # <<r, i>> => hazard'[h] = hazard[h]
  BY <1>1, SetP DEF IInv
<1>5. ScansMeanIt' /\ OnePlace' /\ Recorded' /\ Protected'
  BY <1>1, <1>3, <1>4, RecordReused
<1>6. Types'
  BY <1>1, <1>3, <1>4 DEF IInv, Types, gc
<1>7. ASSUME NEW q \in Readers PROVE PublishingBy(q)'
  <2>1. CASE q = r
    BY <2>1, <1>1 DEF PublishingBy
  <2>2. CASE q # r
    BY <2>2, <1>1, <1>3, <1>4, OthersPublish
  <2> QED BY <2>1, <2>2
<1> QED BY <1>5, <1>6, <1>7 DEF IInv, Publishing

LEMMA LoadStep ==
  ASSUME IInv, NEW r \in Readers, srp_v_load(r)
  PROVE  IInv'
<1>1. /\ rd[r].at = "load" /\ UNCHANGED <<ref, hazard, own, buf, held, gc>>
      /\ rd' = [rd EXCEPT ![r].at = "store", ![r].v = ref[rd[r].srp]]
  BY DEF srp_v_load
<1>2. PublishingBy(r)
  BY DEF IInv, Publishing
<1>3. ref[rd[r].srp] \in Vals \cup {NULL}
  BY <1>1, <1>2 DEF PublishingBy, IInv, Types
<1>a. /\ rd' \in [Readers -> InSrpV]
      /\ rd'[r].at = "store" /\ rd'[r].srp = rd[r].srp /\ rd'[r].i = rd[r].i
      /\ \A q \in Readers : q # r => rd'[q] = rd[q]
  BY <1>1, <1>3, GoOn DEF IInv
<1>4. Types'
  BY <1>1, <1>a DEF IInv, Types, gc
<1>5. Publishing'
  BY <1>1, <1>2, <1>a DEF IInv, Publishing, PublishingBy
<1>6. ScansMeanIt' /\ OnePlace' /\ Recorded' /\ Protected'
  BY <1>1 DEF IInv, ScansMeanIt, OnePlace, Recorded, Protected, AheadOfScan, gc
<1> QED BY <1>4, <1>5, <1>6 DEF IInv

LEMMA PublishStep ==
  ASSUME TSO = FALSE, IInv, NEW r \in Readers, srp_v_store(r)
  PROVE  IInv'
<1> DEFINE i == rd[r].i
<1>1. /\ rd[r].at = "store" /\ set_sh_v(r, i, rd[r].v)
      /\ rd' = [rd EXCEPT ![r].at = "check"] /\ UNCHANGED <<ref, held, gc>>
  BY DEF srp_v_store
<1>2. /\ rd[r].srp \in Srps /\ i \in 1..NUM /\ held[<<r, i>>] = NULL
      /\ hazard[<<r, i>>].sh_p = rd[r].srp /\ rd[r].v \in Vals \cup {NULL}
  BY <1>1 DEF IInv, Types, InSrpV, Publishing, PublishingBy
<1> HIDE DEF i
<1>3. /\ hazard' \in [Records -> [sh_p : Srps \cup {NULL}, sh_v : Vals \cup {NULL}]]
      /\ own' = hazard' /\ buf' = buf
      /\ hazard'[<<r, i>>].sh_p = rd[r].srp /\ hazard'[<<r, i>>].sh_v = rd[r].v
      /\ \A h \in Records : h # <<r, i>> => hazard'[h] = hazard[h]
  BY <1>1, <1>2, SetV DEF IInv
<1>4. ScansMeanIt' /\ OnePlace' /\ Recorded' /\ Protected'
  BY <1>1, <1>2, <1>3, RecordReused DEF IInv, Types
<1>a. /\ rd' \in [Readers -> InSrpV]
      /\ rd'[r].at = "check" /\ rd'[r].v = rd[r].v /\ rd'[r].srp = rd[r].srp /\ rd'[r].i = i
      /\ \A q \in Readers : q # r => rd'[q] = rd[q]
  BY <1>1, GoOnAt DEF IInv, i
<1>5. Types'
  BY <1>1, <1>3, <1>a DEF IInv, Types, gc
<1>6. ASSUME NEW q \in Readers PROVE PublishingBy(q)'
  <2>1. CASE q = r
    BY <2>1, <1>1, <1>2, <1>3, <1>a DEF PublishingBy
  <2>2. CASE q # r
    BY <2>2, <1>1, <1>2, <1>3, <1>a, OthersPublish
  <2> QED BY <2>1, <2>2
<1> QED BY <1>4, <1>5, <1>6 DEF IInv, Publishing

\* The value is still in the srp when the record already names it: it is
\* protected from here on.
LEMMA CheckStep ==
  ASSUME IInv, NEW r \in Readers, srp_v_check(r)
  PROVE  IInv'
<1> DEFINE i == rd[r].i
<1>1. rd[r].at = "check" /\ UNCHANGED <<ref, hazard, own, buf, gc>>
  BY DEF srp_v_check
<1>2. /\ rd[r].srp \in Srps /\ i \in 1..NUM /\ rd[r].v \in Vals \cup {NULL}
      /\ hazard[<<r, i>>].sh_p = rd[r].srp /\ hazard[<<r, i>>].sh_v = rd[r].v
      /\ <<r, i>> \in Records
  BY <1>1 DEF IInv, Types, InSrpV, Publishing, PublishingBy, Records
<1>3. CASE ref[rd[r].srp] # rd[r].v
  <2>1. held' = held /\ rd' = [rd EXCEPT ![r].at = "load"]
    BY <1>3 DEF srp_v_check
  <2>a. /\ rd' \in [Readers -> InSrpV]
        /\ rd'[r].at = "load" /\ rd'[r].srp = rd[r].srp /\ rd'[r].i = rd[r].i
        /\ \A q \in Readers : q # r => rd'[q] = rd[q]
    BY <2>1, GoOnAt DEF IInv
  <2>b. Types'
    BY <2>1, <2>a, <1>1 DEF IInv, Types, gc
  <2>c. Publishing'
    BY <2>1, <2>a, <1>1 DEF IInv, Publishing, PublishingBy
  <2>3. ScansMeanIt' /\ OnePlace' /\ Recorded' /\ Protected'
    BY <2>1, <1>1 DEF IInv, ScansMeanIt, OnePlace, Recorded, Protected, AheadOfScan, gc
  <2> QED BY <2>b, <2>c, <2>3 DEF IInv
<1>4. CASE ref[rd[r].srp] = rd[r].v
  <2>1. held' = [held EXCEPT ![<<r, i>>] = rd[r].v] /\ rd' = [rd EXCEPT ![r] = Idle]
    BY <1>4 DEF srp_v_check
  <2>2. /\ held'[<<r, i>>] = rd[r].v
        /\ \A h \in Records : h # <<r, i>> => held'[h] = held[h]
    BY <2>1, <1>2 DEF IInv, Types
  <2>3. Types'
    <3>1. Idle \in InSrpV
      BY SRPAssumption DEF Idle, InSrpV
    <3> QED BY <3>1, <2>1, <1>1, <1>2 DEF IInv, Types, gc
  <2>4. ASSUME NEW q \in Readers PROVE PublishingBy(q)'
    <3>1. CASE q = r
      BY <3>1, <2>1 DEF PublishingBy, Idle, IInv, Types
    <3>2. CASE q # r
      <4>1. rd'[q] = rd[q]
        BY <3>2, <2>1 DEF IInv, Types
      <4> QED BY <4>1, <3>2, <2>2, <1>1, <1>2, OthersPublish
    <3> QED BY <3>1, <3>2
  <2>5. ScansMeanIt' /\ OnePlace'
    BY <1>1 DEF IInv, ScansMeanIt, OnePlace, gc
  <2>6. Recorded'
    BY <1>1, <1>2, <2>2 DEF IInv, Recorded
  <2>7. ASSUME NEW h \in Records, held'[h] # NULL
        PROVE  \/ ref'[hazard'[h].sh_p] = held'[h]
               \/ \E x \in Scanners : AheadOfScan(h, x)'
               \/ <<hazard'[h].sh_p, held'[h]>> \in ticks'
    <3>1. CASE h = <<r, i>>
      BY <3>1, <1>1, <1>2, <1>4, <2>2
    <3>2. CASE h # <<r, i>>
      <4>1. held'[h] = held[h]
        BY <3>2, <2>2
      <4> QED BY <4>1, <2>7, <1>1 DEF IInv, Protected, AheadOfScan, gc
    <3> QED BY <3>1, <3>2
  <2>8. Protected'
    BY <2>7 DEF Protected
  <2> QED BY <2>3, <2>4, <2>5, <2>6, <2>8 DEF IInv, Publishing
<1> QED BY <1>3, <1>4

(***************************************************************************)
(* Updates and scans: the readers do not move.                             *)
(***************************************************************************)

\* What a scan is made of.
Scan == [srp : Srps \cup {NULL}, v : Vals \cup {NULL},
         todo : SUBSET Records, hit : Records \cup {NULL}]

LEMMA LookIsScan ==
  ASSUME NEW s \in Srps, NEW v \in Vals
  PROVE  /\ look(s, v) \in Scan /\ look(s, v) # NoScan
         /\ look(s, v).srp = s /\ look(s, v).v = v
         /\ look(s, v).todo = Records /\ look(s, v).hit = NULL
BY SRPAssumption DEF look, Scan, NoScan

LEMMA NoScanIsScan == NoScan \in Scan /\ NoScan.v = NULL /\ NoScan.hit = NULL
BY DEF NoScan, Scan

\* Readers that do not move stay where they are.
LEMMA ReadersStay ==
  ASSUME IInv, UNCHANGED readers
  PROVE  Publishing' /\ Recorded'
BY DEF IInv, Publishing, PublishingBy, Recorded, readers

LEMMA UpdateStep ==
  ASSUME IInv, NEW w \in Writers, NEW s \in Srps, NEW nv \in Vals \cup {NULL},
         srp_update(w, s, nv)
  PROVE  IInv'
<1> DEFINE ov == ref[s]
<1>1. /\ scan[w] = NoScan /\ nv \in destroyed \cup {NULL} /\ nv # ov
      /\ ref' = [ref EXCEPT ![s] = nv]
      /\ scan' = IF ov = NULL THEN scan ELSE [scan EXCEPT ![w] = look(s, ov)]
      /\ destroyed' = destroyed \ {nv} /\ ticks' = ticks /\ UNCHANGED readers
  BY DEF srp_update
<1>2. w \in Scanners /\ ov \in Vals \cup {NULL}
  BY DEF Scanners, IInv, Types
<1>3. /\ ref'[s] = nv /\ \A t \in Srps : t # s => ref'[t] = ref[t]
      /\ ref' \in [Srps -> Vals \cup {NULL}]
  BY <1>1 DEF IInv, Types
<1>4. /\ \A x \in Scanners : x # w => scan'[x] = scan[x]
      /\ ov = NULL => scan'[w] = NoScan
      /\ ov # NULL => scan'[w] = look(s, ov)
      /\ scan' \in [Scanners -> Scan]
  BY <1>1, <1>2, LookIsScan DEF IInv, Types, Scan
<1> HIDE DEF ov
<1>5. Types'
  BY <1>1, <1>3, <1>4 DEF IInv, Types, readers, Scan
<1>6. ScansMeanIt'
  BY <1>2, <1>4, LookIsScan, NoScanIsScan DEF IInv, ScansMeanIt
<1>7. /\ \A x \in Scanners : scan'[x].v # NULL => IF x = w THEN scan'[x].v = ov /\ ov # NULL
                                                 ELSE scan'[x].v = scan[x].v
      /\ scan[w].v = NULL
  BY <1>1, <1>2, <1>4, LookIsScan, NoScanIsScan
<1>8. ov # NULL => /\ ov \notin destroyed /\ \A t \in Srps : ref[t] = ov => t = s
                   /\ \A x \in Scanners : scan[x].v # ov
                   /\ \A t \in Srps : <<t, ov>> \notin ticks
  BY DEF IInv, OnePlace, ov
<1>9. nv # NULL => /\ nv \in Vals /\ \A t \in Srps : ref[t] # nv
                   /\ \A x \in Scanners : scan[x].v # nv
                   /\ \A t \in Srps : <<t, nv>> \notin ticks
  BY <1>1 DEF IInv, OnePlace
<1>10. OnePlace'
  <2>1. ASSUME NEW t \in Srps, ref'[t] # NULL
        PROVE  /\ ref'[t] \notin destroyed'
               /\ \A u \in Srps : ref'[u] = ref'[t] => u = t
               /\ \A x \in Scanners : scan'[x].v # ref'[t]
               /\ \A u \in Srps : <<u, ref'[t]>> \notin ticks'
    <3>1. CASE t = s
      BY <3>1, <2>1, <1>1, <1>3, <1>7, <1>9
    <3>2. CASE t # s
      <4>1. /\ ref[t] # NULL /\ ref'[t] = ref[t] /\ ref[t] # nv /\ ref[t] # ov
            /\ ref[t] \notin destroyed
            /\ \A u \in Srps : ref[u] = ref[t] => u = t
            /\ \A x \in Scanners : scan[x].v # ref[t]
            /\ \A u \in Srps : <<u, ref[t]>> \notin ticks
        BY <3>2, <2>1, <1>3, <1>8, <1>9 DEF IInv, OnePlace
      <4> QED BY <4>1, <2>1, <1>1, <1>3, <1>7
    <3> QED BY <3>1, <3>2
  <2>2. ASSUME NEW x \in Scanners, scan'[x].v # NULL
        PROVE  /\ scan'[x].v \notin destroyed'
               /\ \A y \in Scanners : scan'[y].v = scan'[x].v => y = x
               /\ \A t \in Srps : <<t, scan'[x].v>> \notin ticks'
    BY <2>2, <1>1, <1>7, <1>8 DEF IInv, OnePlace
  <2>3. ASSUME NEW t \in Srps, NEW v \in Vals, <<t, v>> \in ticks'
        PROVE  /\ v \notin destroyed'
               /\ \A u \in Srps : <<u, v>> \in ticks' => u = t
    BY <2>3, <1>1 DEF IInv, OnePlace
  <2> QED BY <2>1, <2>2, <2>3 DEF OnePlace
<1>11. Protected'
  <2> SUFFICES ASSUME NEW h \in Records, held[h] # NULL
               PROVE  \/ ref'[hazard[h].sh_p] = held[h]
                      \/ \E x \in Scanners : AheadOfScan(h, x)'
                      \/ <<hazard[h].sh_p, held[h]>> \in ticks'
    BY <1>1 DEF Protected, readers
  <2>1. hazard[h].sh_p \in Srps
    BY DEF IInv, Recorded
  <2>2. CASE ref[hazard[h].sh_p] = held[h]
    <3>1. CASE hazard[h].sh_p = s
      <4>1. held[h] = ov /\ ov # NULL /\ ov \in Vals
        BY <2>2, <3>1, <1>2 DEF ov
      <4>2. AheadOfScan(h, w)'
        BY <4>1, <3>1, <1>1, <1>4, LookIsScan DEF AheadOfScan, readers
      <4> QED BY <4>2, <1>2
    <3>2. CASE hazard[h].sh_p # s
      BY <3>2, <2>1, <2>2, <1>3
    <3> QED BY <3>1, <3>2
  <2>3. CASE \E x \in Scanners : AheadOfScan(h, x)
    <3>1. PICK x \in Scanners : AheadOfScan(h, x)
      BY <2>3
    <3>2. x # w
      BY <3>1, <1>7 DEF AheadOfScan
    <3>3. AheadOfScan(h, x)'
      BY <3>1, <3>2, <1>1, <1>4 DEF AheadOfScan, readers
    <3> QED BY <3>3
  <2>4. CASE <<hazard[h].sh_p, held[h]>> \in ticks
    BY <2>4, <1>1
  <2> QED BY <2>2, <2>3, <2>4 DEF IInv, Protected
<1> QED BY <1>1, <1>5, <1>6, <1>10, <1>11, ReadersStay DEF IInv

LEMMA GcStep ==
  ASSUME IInv, srp_v_gc
  PROVE  IInv'
<1>1. PICK c \in ticks : /\ ticks' = ticks \ {c}
                         /\ scan' = [scan EXCEPT ![Softclock] = look(c[1], c[2])]
  BY DEF srp_v_gc
<1>2. scan[Softclock] = NoScan /\ UNCHANGED <<ref, readers, destroyed>>
  BY DEF srp_v_gc
<1>3. PICK s \in Srps, v \in Vals : c = <<s, v>>
  BY DEF IInv, Types
<1>4. Softclock \in Scanners /\ <<s, v>> \in ticks
  BY <1>3 DEF Scanners
<1>5. /\ scan'[Softclock] = look(s, v) /\ scan' \in [Scanners -> Scan]
      /\ \A x \in Scanners : x # Softclock => scan'[x] = scan[x]
  BY <1>1, <1>3, <1>4, LookIsScan DEF IInv, Types, Scan
<1>6. /\ v \notin destroyed /\ v # NULL /\ \A t \in Srps : ref[t] # v
      /\ \A x \in Scanners : scan[x].v # v
      /\ \A t \in Srps : <<t, v>> \notin ticks'
  BY <1>1, <1>3, <1>4, SRPAssumption DEF IInv, OnePlace
<1>7. Types'
  BY <1>1, <1>2, <1>5 DEF IInv, Types, readers, Scan
<1>8. ScansMeanIt'
  BY <1>4, <1>5, LookIsScan DEF IInv, ScansMeanIt
<1>9. \A x \in Scanners : scan'[x].v = IF x = Softclock THEN v ELSE scan[x].v
  BY <1>4, <1>5, LookIsScan
<1>10. OnePlace'
  <2>1. ASSUME NEW t \in Srps, ref'[t] # NULL
        PROVE  /\ ref'[t] \notin destroyed'
               /\ \A u \in Srps : ref'[u] = ref'[t] => u = t
               /\ \A x \in Scanners : scan'[x].v # ref'[t]
               /\ \A u \in Srps : <<u, ref'[t]>> \notin ticks'
    BY <2>1, <1>1, <1>2, <1>6, <1>9 DEF IInv, OnePlace
  <2>2. ASSUME NEW x \in Scanners, scan'[x].v # NULL
        PROVE  /\ scan'[x].v \notin destroyed'
               /\ \A y \in Scanners : scan'[y].v = scan'[x].v => y = x
               /\ \A t \in Srps : <<t, scan'[x].v>> \notin ticks'
    BY <2>2, <1>1, <1>2, <1>6, <1>9 DEF IInv, OnePlace
  <2>3. ASSUME NEW t \in Srps, NEW u \in Vals, <<t, u>> \in ticks'
        PROVE  /\ u \notin destroyed'
               /\ \A q \in Srps : <<q, u>> \in ticks' => q = t
    BY <2>3, <1>1, <1>2 DEF IInv, OnePlace
  <2> QED BY <2>1, <2>2, <2>3 DEF OnePlace
<1>11. Protected'
  <2> SUFFICES ASSUME NEW h \in Records, held[h] # NULL
               PROVE  \/ ref[hazard[h].sh_p] = held[h]
                      \/ \E x \in Scanners : AheadOfScan(h, x)'
                      \/ <<hazard[h].sh_p, held[h]>> \in ticks'
    BY <1>2 DEF Protected, readers
  <2>1. CASE \E x \in Scanners : AheadOfScan(h, x)
    <3>1. PICK x \in Scanners : AheadOfScan(h, x)
      BY <2>1
    <3>2. x # Softclock
      BY <3>1, <1>2, NoScanIsScan DEF AheadOfScan
    <3>3. AheadOfScan(h, x)'
      BY <3>1, <3>2, <1>2, <1>5 DEF AheadOfScan, readers
    <3> QED BY <3>3
  <2>2. CASE <<hazard[h].sh_p, held[h]>> \in ticks
    <3>1. CASE <<hazard[h].sh_p, held[h]>> = <<s, v>>
      <4>1. AheadOfScan(h, Softclock)'
        BY <3>1, <1>2, <1>5, LookIsScan DEF AheadOfScan, readers
      <4> QED BY <4>1, <1>4
    <3>2. CASE <<hazard[h].sh_p, held[h]>> # <<s, v>>
      BY <3>2, <2>2, <1>1, <1>3
    <3> QED BY <3>1, <3>2
  <2> QED BY <2>1, <2>2 DEF IInv, Protected
<1> QED BY <1>2, <1>7, <1>8, <1>10, <1>11, ReadersStay DEF IInv

\* A scan takes a record from its list; if the record names its srp, it looks
\* at the value next.
LEMMA ReferencedPStep ==
  ASSUME IInv, NEW x \in Scanners, srp_v_referenced_p(x)
  PROVE  IInv'
<1>1. scan[x] # NoScan /\ scan[x].hit = NULL /\ UNCHANGED <<ref, readers, ticks, destroyed>>
  BY DEF srp_v_referenced_p
<1>2. PICK k \in scan[x].todo :
        scan' = [scan EXCEPT ![x].todo = @ \ {k},
                             ![x].hit = IF hazard[k].sh_p = scan[x].srp THEN k ELSE NULL]
  BY DEF srp_v_referenced_p
<1> DEFINE hit == IF hazard[k].sh_p = scan[x].srp THEN k ELSE NULL
<1>3. scan[x] \in Scan /\ k \in Records /\ hit \in Records \cup {NULL}
  BY DEF IInv, Types, Scan
<1>4. scan' = [scan EXCEPT ![x] = [scan[x] EXCEPT !.todo = @ \ {k}, !.hit = hit]]
  BY <1>2 DEF IInv, Types
<1>5. /\ scan'[x].srp = scan[x].srp /\ scan'[x].v = scan[x].v
      /\ scan'[x].todo = scan[x].todo \ {k} /\ scan'[x].hit = hit
      /\ scan'[x] \in Scan
  BY <1>3, <1>4 DEF IInv, Types, Scan
<1>6. /\ \A y \in Scanners : y # x => scan'[y] = scan[y]
      /\ scan' \in [Scanners -> Scan]
  BY <1>4, <1>5 DEF IInv, Types, Scan
<1>7. scan[x].v \in Vals /\ scan[x].srp \in Srps /\ scan'[x] # NoScan
  BY <1>1, <1>5, SRPAssumption DEF IInv, ScansMeanIt, NoScan
<1>8. Types'
  BY <1>1, <1>6 DEF IInv, Types, readers, Scan
<1>9. ScansMeanIt'
  BY <1>5, <1>6, <1>7 DEF IInv, ScansMeanIt
<1>10. \A y \in Scanners : scan'[y].v = scan[y].v
  BY <1>5, <1>6
<1>11. OnePlace'
  BY <1>1, <1>10 DEF IInv, OnePlace
<1>12. Protected'
  <2> SUFFICES ASSUME NEW h \in Records, held[h] # NULL
               PROVE  \/ ref[hazard[h].sh_p] = held[h]
                      \/ \E y \in Scanners : AheadOfScan(h, y)'
                      \/ <<hazard[h].sh_p, held[h]>> \in ticks
    BY <1>1 DEF Protected, readers
  <2>1. CASE \E y \in Scanners : AheadOfScan(h, y)
    <3>1. PICK y \in Scanners : AheadOfScan(h, y)
      BY <2>1
    <3>2. CASE y # x
      BY <3>1, <3>2, <1>1, <1>6 DEF AheadOfScan, readers
    <3>3. CASE y = x
      <4>1. h \in scan[x].todo /\ scan[x].srp = hazard[h].sh_p
        BY <3>1, <3>3, <1>1, SRPAssumption DEF AheadOfScan, Records
      <4>2. h \in scan'[x].todo \/ scan'[x].hit = h
        BY <4>1, <1>5
      <4> QED BY <3>1, <3>3, <4>2, <1>1, <1>5 DEF AheadOfScan, readers
    <3> QED BY <3>2, <3>3
  <2> QED BY <2>1 DEF IInv, Protected
<1> QED BY <1>1, <1>8, <1>9, <1>11, <1>12, ReadersStay DEF IInv

\* The value of the record is not the scan's, and the record is done with; or
\* it is, and the value is looked for again later.
LEMMA ReferencedVStep ==
  ASSUME IInv, NEW x \in Scanners, srp_v_referenced_v(x)
  PROVE  IInv'
<1>1. scan[x].hit # NULL /\ UNCHANGED <<ref, readers, destroyed>>
  BY DEF srp_v_referenced_v
<1>2. scan[x] # NoScan /\ scan[x].v \in Vals /\ scan[x].srp \in Srps
  BY <1>1 DEF IInv, ScansMeanIt
<1>3. CASE hazard[scan[x].hit].sh_v # scan[x].v
  <2>1. ticks' = ticks /\ scan' = [scan EXCEPT ![x].hit = NULL]
    BY <1>3 DEF srp_v_referenced_v
  <2>2. scan[x] \in Scan
    BY DEF IInv, Types, Scan
  <2>3. scan' = [scan EXCEPT ![x] = [scan[x] EXCEPT !.hit = NULL]]
    BY <2>1 DEF IInv, Types
  <2>4. /\ scan'[x].srp = scan[x].srp /\ scan'[x].v = scan[x].v
        /\ scan'[x].todo = scan[x].todo /\ scan'[x].hit = NULL /\ scan'[x] \in Scan
    BY <2>2, <2>3 DEF IInv, Types, Scan
  <2>5. /\ \A y \in Scanners : y # x => scan'[y] = scan[y]
        /\ scan' \in [Scanners -> Scan]
    BY <2>3, <2>4 DEF IInv, Types, Scan
  <2>6. Types'
    BY <1>1, <2>1, <2>5 DEF IInv, Types, readers, Scan
  <2>7. ScansMeanIt'
    BY <1>2, <2>4, <2>5 DEF IInv, ScansMeanIt
  <2>8. \A y \in Scanners : scan'[y].v = scan[y].v
    BY <2>4, <2>5
  <2>9. OnePlace'
    BY <1>1, <2>1, <2>8 DEF IInv, OnePlace
  <2>10. Protected'
    <3> SUFFICES ASSUME NEW h \in Records, held[h] # NULL
                 PROVE  \/ ref[hazard[h].sh_p] = held[h]
                        \/ \E y \in Scanners : AheadOfScan(h, y)'
                        \/ <<hazard[h].sh_p, held[h]>> \in ticks
      BY <1>1, <2>1 DEF Protected, readers
    <3>1. CASE \E y \in Scanners : AheadOfScan(h, y)
      <4>1. PICK y \in Scanners : AheadOfScan(h, y)
        BY <3>1
      <4>2. CASE y # x
        BY <4>1, <4>2, <1>1, <2>5 DEF AheadOfScan, readers
      <4>3. CASE y = x
        <5>1. hazard[h].sh_v = held[h] /\ scan[x].v = held[h]
          BY <4>1, <4>3 DEF IInv, Recorded, AheadOfScan
        <5>2. h \in scan[x].todo
          BY <5>1, <4>1, <4>3, <1>3 DEF AheadOfScan
        <5> QED BY <5>2, <4>1, <4>3, <1>1, <2>4 DEF AheadOfScan, readers
      <4> QED BY <4>2, <4>3
    <3> QED BY <3>1 DEF IInv, Protected
  <2> QED BY <1>1, <2>6, <2>7, <2>9, <2>10, ReadersStay DEF IInv
<1>4. CASE hazard[scan[x].hit].sh_v = scan[x].v
  <2> DEFINE s == scan[x].srp
             v == scan[x].v
  <2>1. ticks' = ticks \cup {<<s, v>>} /\ scan' = [scan EXCEPT ![x] = NoScan]
    BY <1>4 DEF srp_v_referenced_v
  <2>2. /\ scan'[x] = NoScan /\ scan' \in [Scanners -> Scan]
        /\ \A y \in Scanners : y # x => scan'[y] = scan[y]
    BY <2>1, NoScanIsScan DEF IInv, Types, Scan
  <2>3. /\ v \in Vals /\ s \in Srps /\ v # NULL /\ v \notin destroyed
        /\ \A t \in Srps : ref[t] # v
        /\ \A y \in Scanners : y # x => scan[y].v # v
        /\ \A t \in Srps : <<t, v>> \notin ticks
    BY <1>2, SRPAssumption DEF IInv, OnePlace
  <2>4. Types'
    BY <1>1, <2>1, <2>2, <2>3 DEF IInv, Types, readers, Scan
  <2>5. ScansMeanIt'
    BY <2>2, NoScanIsScan DEF IInv, ScansMeanIt
  <2>6. \A y \in Scanners : scan'[y].v = IF y = x THEN NULL ELSE scan[y].v
    BY <2>2, NoScanIsScan
  <2>7. OnePlace'
    <3> HIDE DEF s, v
    <3>1. ASSUME NEW t \in Srps, ref'[t] # NULL
          PROVE  /\ ref'[t] \notin destroyed'
                 /\ \A u \in Srps : ref'[u] = ref'[t] => u = t
                 /\ \A y \in Scanners : scan'[y].v # ref'[t]
                 /\ \A u \in Srps : <<u, ref'[t]>> \notin ticks'
      BY <3>1, <1>1, <2>1, <2>3, <2>6 DEF IInv, OnePlace
    <3>2. ASSUME NEW y \in Scanners, scan'[y].v # NULL
          PROVE  /\ scan'[y].v \notin destroyed'
                 /\ \A z \in Scanners : scan'[z].v = scan'[y].v => z = y
                 /\ \A t \in Srps : <<t, scan'[y].v>> \notin ticks'
      BY <3>2, <1>1, <2>1, <2>3, <2>6 DEF IInv, OnePlace
    <3>3. ASSUME NEW t \in Srps, NEW u \in Vals, <<t, u>> \in ticks'
          PROVE  /\ u \notin destroyed'
                 /\ \A q \in Srps : <<q, u>> \in ticks' => q = t
      BY <3>3, <1>1, <2>1, <2>3 DEF IInv, OnePlace
    <3> QED BY <3>1, <3>2, <3>3 DEF OnePlace
  <2>8. Protected'
    <3> SUFFICES ASSUME NEW h \in Records, held[h] # NULL
                 PROVE  \/ ref[hazard[h].sh_p] = held[h]
                        \/ \E y \in Scanners : AheadOfScan(h, y)'
                        \/ <<hazard[h].sh_p, held[h]>> \in ticks'
      BY <1>1, <2>1 DEF Protected, readers
    <3>1. CASE \E y \in Scanners : AheadOfScan(h, y)
      <4>1. PICK y \in Scanners : AheadOfScan(h, y)
        BY <3>1
      <4>2. CASE y # x
        BY <4>1, <4>2, <1>1, <2>2 DEF AheadOfScan, readers
      <4>3. CASE y = x
        BY <4>1, <4>3, <2>1 DEF AheadOfScan
      <4> QED BY <4>2, <4>3
    <3> QED BY <3>1, <2>1 DEF IInv, Protected
  <2> QED BY <1>1, <2>4, <2>5, <2>7, <2>8, ReadersStay DEF IInv
<1> QED BY <1>3, <1>4

\* No record is left to look at, so nobody holds the value.
LEMMA DtorStep ==
  ASSUME IInv, NEW x \in Scanners, srp_v_dtor(x)
  PROVE  IInv'
<1> DEFINE v == scan[x].v
<1>1. /\ scan[x] # NoScan /\ scan[x].hit = NULL /\ scan[x].todo = {}
      /\ destroyed' = destroyed \cup {v} /\ scan' = [scan EXCEPT ![x] = NoScan]
      /\ UNCHANGED <<ref, readers, ticks>>
  BY DEF srp_v_dtor
<1>2. /\ v \in Vals /\ v # NULL /\ \A t \in Srps : ref[t] # v
      /\ \A y \in Scanners : y # x => scan[y].v # v
      /\ \A t \in Srps : <<t, v>> \notin ticks
  BY <1>1, SRPAssumption DEF IInv, ScansMeanIt, OnePlace
<1>3. /\ scan'[x] = NoScan /\ scan' \in [Scanners -> Scan]
      /\ \A y \in Scanners : y # x => scan'[y] = scan[y]
  BY <1>1, NoScanIsScan DEF IInv, Types, Scan
<1> HIDE DEF v
<1>4. Types'
  BY <1>1, <1>2, <1>3 DEF IInv, Types, readers, Scan
<1>5. ScansMeanIt'
  BY <1>3, NoScanIsScan DEF IInv, ScansMeanIt
<1>6. \A y \in Scanners : scan'[y].v = IF y = x THEN NULL ELSE scan[y].v
  BY <1>3, NoScanIsScan
<1>7. OnePlace'
  BY <1>1, <1>2, <1>6 DEF IInv, OnePlace
<1>8. Protected'
  <2> SUFFICES ASSUME NEW h \in Records, held[h] # NULL
               PROVE  \/ ref[hazard[h].sh_p] = held[h]
                      \/ \E y \in Scanners : AheadOfScan(h, y)'
                      \/ <<hazard[h].sh_p, held[h]>> \in ticks
    BY <1>1 DEF Protected, readers
  <2>1. CASE \E y \in Scanners : AheadOfScan(h, y)
    <3>1. PICK y \in Scanners : AheadOfScan(h, y)
      BY <2>1
    <3>2. y # x
      BY <3>1, <1>1, SRPAssumption DEF AheadOfScan, Records
    <3> QED BY <3>1, <3>2, <1>1, <1>3 DEF AheadOfScan, readers
  <2> QED BY <2>1 DEF IInv, Protected
<1> QED BY <1>1, <1>4, <1>5, <1>7, <1>8, ReadersStay DEF IInv

-----------------------------------------------------------------------------

LEMMA InvNext == TSO = FALSE /\ IInv /\ [Next]_vars => IInv'
<1> SUFFICES ASSUME TSO = FALSE, IInv, [Next]_vars PROVE IInv'
  OBVIOUS
<1>1. ASSUME NEW r \in Readers, Reader(r) PROVE IInv'
  BY <1>1, LoadStep, PublishStep, CheckStep, LeaveStep DEF Reader
<1>2. ASSUME NEW x \in Scanners, Scanner(x) PROVE IInv'
  <2>1. CASE refcnt_rele_wake(x)
    BY <2>1 DEF refcnt_rele_wake, readers, IInv, Types, ScansMeanIt, OnePlace,
       Publishing, PublishingBy, Recorded, Protected, AheadOfScan
  <2> QED BY <1>2, <2>1, ReferencedPStep, ReferencedVStep, DtorStep DEF Scanner
<1>3. CASE srp_finalize \/ refcnt_finalize
  BY <1>3 DEF srp_finalize, refcnt_finalize, readers, IInv, Types, ScansMeanIt, OnePlace,
     Publishing, PublishingBy, Recorded, Protected, AheadOfScan
<1>4. CASE UNCHANGED vars
  BY <1>4 DEF vars, gc, readers, IInv, Types, ScansMeanIt, OnePlace,
     Publishing, PublishingBy, Recorded, Protected, AheadOfScan
<1> QED BY <1>1, <1>2, <1>3, <1>4, EnterStep, FollowStep, UpdateStep, GcStep DEF Next

\* The inductive invariant holds whenever stores are seen in order.
THEOREM Invariance == ASSUME TSO = FALSE PROVE Spec => []IInv
<1>1. Init => IInv
  BY TSO = FALSE, InvInit
<1>2. IInv /\ [Next]_vars => IInv'
  BY TSO = FALSE, InvNext
<1> QED BY <1>1, <1>2, PTL DEF Spec

\* What srp_enter() and srp_follow() return is not destroyed before
\* srp_leave(), whatever the numbers of CPUs, records, srps and updaters.
THEOREM HeldStaysAlive == ASSUME TSO = FALSE PROVE Spec => []HeldAlive
<1>1. Spec => []IInv
  BY TSO = FALSE, Invariance
<1>2. IInv => HeldAlive
  BY InvAlive
<1> QED BY <1>1, <1>2, PTL
(***************************************************************************)
(* srp_finalize().  srp_gc_refcnt has one for the owner and one for each   *)
(* value that is not destroyed, so that it is 0 only when all are.         *)
(***************************************************************************)
Alive == Vals \ destroyed
Owned == IF fin = "none" THEN 1 ELSE 0
RefsCount == refs = Owned + Cardinality(Alive)

FInv ==
  /\ RefsCount /\ FinalizeWoken
  /\ waker \subseteq Scanners /\ fin \in {"none", "queued", "asleep", "done"}
  /\ fin = "done" => refs = 0

LEMMA AliveFinite == IsFiniteSet(Alive) /\ Cardinality(Alive) \in Nat
<1>1. Alive \in SUBSET Vals
  BY DEF Alive
<1> QED BY <1>1, SRPAssumption, FS_Subset, FS_CardinalityType

\* The count is 0 only when the owner has given up and all is destroyed.
LEMMA RefsShow ==
  ASSUME FInv
  PROVE  refs \in Nat /\ (refs = 0 => fin # "none" /\ Alive = {})
         /\ (Alive # {} => refs > 0)
<1>1. Cardinality(Alive) = 0 <=> Alive = {}
  BY AliveFinite, FS_EmptySet
<1>2. Owned \in 0..1 /\ (Owned = 0 => fin # "none")
  BY DEF Owned
<1> QED BY <1>1, <1>2, AliveFinite DEF FInv, RefsCount

LEMMA FinUpdate ==
  ASSUME IInv, FInv, NEW w \in Writers, NEW s \in Srps, NEW nv \in Vals \cup {NULL},
         srp_update(w, s, nv)
  PROVE  FInv'
<1>1. /\ fin = "none" /\ fin' = fin /\ waker' = waker
      /\ nv \in destroyed \cup {NULL} /\ refs' = refcnt_take(nv) /\ destroyed' = destroyed \ {nv}
  BY DEF srp_update
<1>2. RefsCount'
  <2>1. CASE nv = NULL
    <3>1. Alive' = Alive
      BY <1>1, <2>1, SRPAssumption DEF Alive, IInv, Types
    <3> QED BY <1>1, <2>1, <3>1 DEF FInv, RefsCount, Owned, refcnt_take
  <2>2. CASE nv # NULL
    <3>1. Alive' = Alive \cup {nv} /\ nv \notin Alive
      BY <1>1, <2>2 DEF Alive
    <3>2. Cardinality(Alive') = Cardinality(Alive) + 1
      BY <3>1, AliveFinite, FS_AddElement
    <3> QED BY <1>1, <2>2, <3>2, AliveFinite DEF FInv, RefsCount, Owned, refcnt_take
  <2> QED BY <2>1, <2>2
<1> QED BY <1>1, <1>2 DEF FInv, FinalizeWoken

LEMMA FinDtor ==
  ASSUME IInv, FInv, NEW x \in Scanners, srp_v_dtor(x)
  PROVE  FInv'
<1> DEFINE v == scan[x].v
<1>1. /\ destroyed' = destroyed \cup {v} /\ refs' = refs - 1 /\ fin' = fin
      /\ waker' = IF refs' = 0 THEN waker \cup {x} ELSE waker
  BY DEF srp_v_dtor
<1>2. v \in Alive
  BY SRPAssumption DEF srp_v_dtor, IInv, ScansMeanIt, OnePlace, Alive
<1> HIDE DEF v
<1>3. Alive' = Alive \ {v}
  BY <1>1 DEF Alive
<1>4. Cardinality(Alive') = Cardinality(Alive) - 1
  BY <1>2, <1>3, AliveFinite, FS_RemoveElement
<1>5. Owned' = Owned /\ Owned \in Nat
  BY <1>1 DEF Owned
<1>6. RefsCount'
  BY <1>1, <1>4, <1>5, AliveFinite DEF FInv, RefsCount
<1>7. refs \in Nat /\ refs > 0
  BY <1>2, RefsShow
<1> QED BY <1>1, <1>6, <1>7 DEF FInv, FinalizeWoken

LEMMA FinFinalize ==
  ASSUME FInv, srp_finalize \/ refcnt_finalize
  PROVE  FInv'
<1>1. destroyed' = destroyed /\ waker' = waker
  BY DEF srp_finalize, refcnt_finalize
<1>2. Alive' = Alive
  BY <1>1 DEF Alive
<1>3. CASE srp_finalize
  <2>1. fin = "none" /\ refs' = refs - 1 /\ fin' = IF refs' = 0 THEN "done" ELSE "queued"
    BY <1>3 DEF srp_finalize
  <2>2. RefsCount'
    BY <1>2, <2>1, AliveFinite DEF FInv, RefsCount, Owned
  <2> QED BY <1>1, <2>1, <2>2 DEF FInv, FinalizeWoken
<1>4. CASE refcnt_finalize
  <2>1. fin = "queued" /\ refs' = refs /\ fin' = IF refs = 0 THEN "done" ELSE "asleep"
    BY <1>4 DEF refcnt_finalize
  <2>2. RefsCount'
    BY <1>2, <2>1 DEF FInv, RefsCount, Owned
  <2> QED BY <1>1, <2>1, <2>2 DEF FInv, FinalizeWoken
<1> QED BY <1>3, <1>4

LEMMA FinWake ==
  ASSUME FInv, NEW x \in Scanners, refcnt_rele_wake(x)
  PROVE  FInv'
<1>1. /\ waker' = waker \ {x} /\ fin' = (IF fin = "asleep" THEN "queued" ELSE fin)
      /\ destroyed' = destroyed /\ refs' = refs
  BY DEF refcnt_rele_wake
<1>2. Alive' = Alive /\ Owned' = Owned
  BY <1>1 DEF Alive, Owned
<1>3. RefsCount'
  BY <1>1, <1>2 DEF FInv, RefsCount
<1> QED BY <1>1, <1>3 DEF FInv, FinalizeWoken

LEMMA FInvNext ==
  ASSUME IInv, FInv, [Next]_vars
  PROVE  FInv'
<1>1. CASE UNCHANGED <<destroyed, refs, waker, fin>>
  BY <1>1 DEF FInv, RefsCount, Alive, Owned, FinalizeWoken
<1>2. ASSUME NEW r \in Readers, Reader(r) PROVE FInv'
  BY <1>1, <1>2 DEF Reader, srp_v_load, srp_v_store, srp_v_check, srp_leave, gc
<1>3. ASSUME NEW r \in Readers, NEW s \in Srps, srp_enter(r, s) PROVE FInv'
  BY <1>1, <1>3 DEF srp_enter, gc
<1>4. ASSUME NEW r \in Readers, NEW i \in 1..NUM, NEW s \in Srps, NEW n \in Srps,
             NEW v \in Vals, srp_follow(r, i, s, v, n)
      PROVE  FInv'
  BY <1>1, <1>4 DEF srp_follow, gc
<1>5. ASSUME NEW x \in Scanners, Scanner(x) PROVE FInv'
  <2>1. CASE srp_v_referenced_p(x) \/ srp_v_referenced_v(x)
    BY <1>1, <2>1 DEF srp_v_referenced_p, srp_v_referenced_v
  <2> QED BY <1>5, <2>1, FinDtor, FinWake DEF Scanner
<1>6. CASE srp_v_gc
  BY <1>1, <1>6 DEF srp_v_gc
<1>7. CASE UNCHANGED vars
  BY <1>1, <1>7 DEF vars, gc
<1> QED BY <1>2, <1>3, <1>4, <1>5, <1>6, <1>7, FinUpdate, FinFinalize DEF Next

\* The reference count, with the invariant of the hazard records.
THEOREM RefsInvariance == ASSUME TSO = FALSE PROVE Spec => [](IInv /\ FInv)
<1>1. Init => FInv
  <2> SUFFICES ASSUME Init PROVE FInv
    OBVIOUS
  <2>1. Alive = {} /\ Owned = 1 /\ refs = 1
    BY DEF Init, Alive, Owned
  <2> QED BY <2>1, FS_EmptySet DEF Init, FInv, RefsCount, FinalizeWoken
<1>2. IInv /\ FInv /\ [Next]_vars => FInv'
  BY FInvNext
<1>3. Spec => []IInv
  BY TSO = FALSE, Invariance
<1> QED BY <1>1, <1>2, <1>3, PTL DEF Spec

\* Every variable keeps its type; srp_gc_refcnt, which refcnt_rele() counts
\* down, never goes below 0.
THEOREM TypeCorrect == ASSUME TSO = FALSE PROVE Spec => []TypeOK
<1>1. Spec => [](IInv /\ FInv)
  BY TSO = FALSE, RefsInvariance
<1>2. IInv /\ FInv => TypeOK
  BY RefsShow DEF IInv, FInv, Types, TypeOK
<1> QED BY <1>1, <1>2, PTL

\* srp_finalize() returns when the destructor of every value has been called.
THEOREM FinalizeWaitsForAll == ASSUME TSO = FALSE PROVE Spec => []FinalizeWaits
<1>1. Spec => [](IInv /\ FInv)
  BY TSO = FALSE, RefsInvariance
<1>2. FInv => FinalizeWaits
  BY RefsShow DEF FInv, FinalizeWaits, Removed, Alive
<1> QED BY <1>1, <1>2, PTL

\* refcnt_rele() and refcnt_finalize() do not miss each other: nobody sleeps
\* on a count of 0 without a wakeup under way.
THEOREM FinalizeNotForgotten == ASSUME TSO = FALSE PROVE Spec => []FinalizeWoken
<1>1. Spec => [](IInv /\ FInv)
  BY TSO = FALSE, RefsInvariance
<1>2. FInv => FinalizeWoken
  BY DEF FInv
<1> QED BY <1>1, <1>2, PTL
=============================================================================
