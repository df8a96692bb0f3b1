---------------------------- MODULE TripsProofs ----------------------------
(* Proofs about the trips: that the page and the tile read every journal the   *)
(* same way, and what the recorder's journals mean to both.  The passes over a *)
(* journal are recursive functions; what they compute is proved by induction   *)
(* over the places of the journal, as sets of numbers.                         *)
EXTENDS Trips, SequenceTheorems, WellFoundedInduction, TLAPS

-----------------------------------------------------------------------------
(* Induction                                                                   *)

LEMMA Least ==
  ASSUME NEW T \in SUBSET Nat, T # {}
  PROVE  \E x \in T : \A y \in T : x <= y
<1>1. PICK x \in T : \A y \in T : ~(<<y, x>> \in OpToRel(<, Nat))
  BY NatLessThanWellFounded, WFMin
<1>2. \A y \in T : ~(y < x)
  BY <1>1 DEF OpToRel
<1>q. QED
  BY <1>2

LEMMA UpTo ==
  ASSUME NEW n \in Nat, NEW T, 0 \in T, \A i \in 1 .. n : i - 1 \in T => i \in T
  PROVE  0 .. n \subseteq T
<1> DEFINE U == (0 .. n) \ T
<1>1. SUFFICES ASSUME U # {} PROVE FALSE
  OBVIOUS
<1>2. U \in SUBSET Nat
  OBVIOUS
<1>3. PICK x \in U : \A y \in U : x <= y
  <2> HIDE DEF U
  <2>q. QED
    BY <1>1, <1>2, Least
<1>4. x \in 1 .. n /\ x - 1 \in 0 .. n /\ x - 1 < x
  BY <1>3
<1>5. x - 1 \in T
  BY <1>3, <1>4
<1>q. QED
  BY <1>3, <1>4, <1>5

LEMMA Greatest ==
  ASSUME NEW n \in Nat, NEW T \in SUBSET (0 .. n), T # {}
  PROVE  \E x \in T : \A y \in T : y <= x
<1> DEFINE U == {n - y : y \in T}
<1>1. U \in SUBSET Nat /\ U # {}
  <2>1. \A y \in T : n - y \in Nat
    OBVIOUS
  <2>q. QED
    BY <2>1
<1>2. PICK u \in U : \A v \in U : u <= v
  BY <1>1, Least
<1>3. PICK x \in T : u = n - x
  BY <1>2
<1>4. \A y \in T : n - x <= n - y
  BY <1>2, <1>3
<1>5. x \in Nat /\ \A y \in T : y \in Nat
  OBVIOUS
<1> HIDE DEF U
<1>6. ASSUME NEW y \in T PROVE y <= x
  <2>1. n - x <= n - y /\ x \in Nat /\ y \in Nat
    BY <1>4, <1>5
  <2>q. QED
    BY <2>1
<1>q. QED
  BY <1>6

LEMMA MaxOf ==
  ASSUME NEW n \in Nat, NEW T \in SUBSET (0 .. n), T # {}
  PROVE  Max(T) \in T /\ \A y \in T : y <= Max(T)
BY Greatest DEF Max

LEMMA MinOf ==
  ASSUME NEW T \in SUBSET Nat, T # {}
  PROVE  Min(T) \in T /\ \A y \in T : Min(T) <= y
BY Least DEF Min

\* A recursive function along 0 .. n, of the steps G.
Steps(n, b, G, f) == f = [i \in 0 .. n |-> IF i = 0 THEN b ELSE G[i][f[i - 1]]]

LEMMA Recursion ==
  ASSUME NEW n \in Nat, NEW S, NEW b \in S, NEW G \in [1 .. n -> [S -> S]]
  PROVE  \E f \in [0 .. n -> S] : Steps(n, b, G, f)
<1> DEFINE P(m, f) == f[0] = b /\ \A i \in 1 .. m : f[i] = G[i][f[i - 1]]
           T == {m \in 0 .. n : \E f \in [0 .. m -> S] : P(m, f)}
<1>1. 0 \in T
  <2>1. [i \in 0 .. 0 |-> b] \in [0 .. 0 -> S] /\ P(0, [i \in 0 .. 0 |-> b])
    OBVIOUS
  <2>2. \E f \in [0 .. 0 -> S] : P(0, f)
    BY <2>1
  <2> HIDE DEF P
  <2>q. QED
    BY <2>2
<1>2. ASSUME NEW m \in 1 .. n, m - 1 \in T PROVE m \in T
  <2>1. PICK f \in [0 .. m - 1 -> S] : P(m - 1, f)
    BY <1>2
  <2> DEFINE g == [i \in 0 .. m |-> IF i = m THEN G[m][f[m - 1]] ELSE f[i]]
  <2>2. G[m][f[m - 1]] \in S
    OBVIOUS
  <2>3. g \in [0 .. m -> S]
    BY <2>2
  <2>4. P(m, g)
    <3>1. g[0] = b
      BY <2>1
    <3>2. ASSUME NEW i \in 1 .. m PROVE g[i] = G[i][g[i - 1]]
      <4>1. CASE i = m
        BY <4>1
      <4>2. CASE i # m
        <5>1. i \in 1 .. m - 1 /\ i - 1 \in 0 .. m /\ i - 1 # m /\ i \in 0 .. m
          BY <4>2
        <5>2. f[i] = G[i][f[i - 1]]
          BY <2>1, <5>1
        <5>q. QED
          BY <4>2, <5>1, <5>2
      <4>q. QED
        BY <4>1, <4>2
    <3>q. QED
      BY <3>1, <3>2
  <2> HIDE DEF g, P
  <2>5. \E h \in [0 .. m -> S] : P(m, h)
    BY <2>3, <2>4
  <2>q. QED
    BY <2>5
<1> HIDE DEF T
<1>3. 0 .. n \subseteq T
  BY <1>1, <1>2, UpTo
<1>4. PICK f \in [0 .. n -> S] : P(n, f)
  <2>1. n \in T
    BY <1>3
  <2>q. QED
    BY <2>1 DEF T
<1>5. f = [i \in 0 .. n |-> IF i = 0 THEN b ELSE G[i][f[i - 1]]]
  BY <1>4
<1>q. QED
  BY <1>5 DEF Steps
-----------------------------------------------------------------------------
(* Pass 2 of the page                                                          *)

Journal(ev) == Len(ev) \in Nat /\ DOMAIN ev = 1 .. Len(ev)

Marks == [kind : {"trip", "parking"}, start : Nat]
PageStates == [charging : {"none", "on", "off"}, absent : BOOLEAN, segs : Seq(Marks)]

\* No segment is open before power is known; then the last one is of the kind the state has.
Current(st) == IF st.charging = "none" THEN st.segs = <<>>
               ELSE st.segs # <<>> /\ Last(st.segs).kind = Kind(st)

\* The segments of t are those of s and others that start at i.
Grown(s, t, i) ==
  /\ Len(s) <= Len(t)
  /\ \A b \in 1 .. Len(s) : t[b] = s[b]
  /\ \A b \in Len(s) + 1 .. Len(t) : t[b].start = i

LEMMA Charging ==
  /\ DOMAIN Charges = {"charging_on", "charging_off"}
  /\ Charges["charging_on"] = "on" /\ Charges["charging_off"] = "off"
BY DEF Charges

LEMMA GrownTwice ==
  ASSUME NEW s \in Seq(Marks), NEW t \in Seq(Marks), NEW u \in Seq(Marks), NEW i, Grown(s, t, i), Grown(t, u, i)
  PROVE  Grown(s, u, i)
<1>1. Len(s) \in Nat /\ Len(t) \in Nat /\ Len(u) \in Nat
  OBVIOUS
<1>2. /\ Len(s) <= Len(t) /\ \A b \in 1 .. Len(s) : t[b] = s[b]
      /\ Len(t) <= Len(u) /\ \A b \in 1 .. Len(t) : u[b] = t[b]
  BY DEF Grown
<1>3. \A b \in Len(s) + 1 .. Len(t) : t[b].start = i
  BY DEF Grown
<1>4. \A b \in Len(t) + 1 .. Len(u) : u[b].start = i
  BY DEF Grown
<1>5. \A b \in 1 .. Len(s) : u[b] = s[b]
  <2>1. \A b \in 1 .. Len(s) : b \in 1 .. Len(t)
    BY <1>1, <1>2
  <2>q. QED
    BY <1>2, <2>1
<1>6. ASSUME NEW b \in Len(s) + 1 .. Len(u) PROVE u[b].start = i
  <2>1. CASE b <= Len(t)
    <3>1. b \in Len(s) + 1 .. Len(t) /\ b \in 1 .. Len(t)
      BY <1>1, <2>1
    <3>q. QED
      BY <1>2, <1>3, <3>1
  <2>2. CASE ~(b <= Len(t))
    <3>1. b \in Len(t) + 1 .. Len(u)
      BY <1>1, <2>2
    <3>q. QED
      BY <1>4, <3>1
  <2>q. QED
    BY <2>1, <2>2
<1>7. Len(s) <= Len(u)
  BY <1>1, <1>2
<1>q. QED
  BY <1>5, <1>6, <1>7 DEF Grown

LEMMA Lasting ==
  ASSUME NEW S, NEW s \in Seq(S), NEW x \in S
  PROVE  /\ Append(s, x) \in Seq(S) /\ Append(s, x) # <<>> /\ Last(Append(s, x)) = x
         /\ Len(Append(s, x)) = Len(s) + 1 /\ Append(s, x)[Len(s) + 1] = x
         /\ \A b \in 1 .. Len(s) : Append(s, x)[b] = s[b]
BY DEF Last

LEMMA ApplyIs ==
  ASSUME NEW st \in PageStates, NEW i \in Nat
  PROVE  /\ Apply(st, i) \in PageStates
         /\ Apply(st, i).charging = st.charging /\ Apply(st, i).absent = st.absent
         /\ Grown(st.segs, Apply(st, i).segs, i)
         /\ (st.charging = "none" => st.segs = <<>>) => Current(Apply(st, i))
<1>1. /\ st.charging \in {"none", "on", "off"} /\ st.absent \in BOOLEAN /\ st.segs \in Seq(Marks)
  BY DEF PageStates
<1>2. CASE st.charging = "none" \/ (st.segs # <<>> /\ Last(st.segs).kind = Kind(st))
  BY <1>1, <1>2 DEF Apply, Current, Grown
<1>3. CASE ~(st.charging = "none" \/ (st.segs # <<>> /\ Last(st.segs).kind = Kind(st)))
  <2> DEFINE m == [kind |-> Kind(st), start |-> i]
             a == Append(st.segs, m)
             t == [charging |-> st.charging, absent |-> st.absent, segs |-> a]
  <2>1. m \in Marks /\ m.kind = Kind(st) /\ m.start = i
    BY DEF Marks, Kind
  <2>2. Apply(st, i) = t
    BY <1>3 DEF Apply, PageStates
  <2> HIDE DEF m
  <2>3. /\ a \in Seq(Marks) /\ a # <<>> /\ Last(a) = m /\ Len(a) = Len(st.segs) + 1
        /\ a[Len(st.segs) + 1] = m /\ \A b \in 1 .. Len(st.segs) : a[b] = st.segs[b]
    BY <1>1, <2>1, Lasting
  <2> HIDE DEF a
  <2>4. Grown(st.segs, a, i)
    BY <1>1, <2>1, <2>3 DEF Grown
  <2>5. t \in PageStates /\ Kind(t) = Kind(st)
    BY <1>1, <2>3 DEF PageStates, Kind
  <2>6. Current(t)
    BY <1>3, <2>1, <2>3, <2>5 DEF Current
  <2>q. QED
    BY <2>2, <2>4, <2>5, <2>6
<1>q. QED
  BY <1>2, <1>3

Then(ev, real, absent, st, i) == Enter(ev, real, Open(absent, st, i), i)

\* What a record does to what is known of power and beacon.
Effect(ev, real, absent, st, i, t) ==
  /\ t.charging = IF ev[i].type \in DOMAIN Charges THEN Charges[ev[i].type] ELSE st.charging
  /\ t.absent <=> /\ ev[i].type \notin BEACON_CLEARS
                  /\ st.absent \/ i \in absent \/ (ev[i].type \notin DOMAIN Charges /\ i \in real)

LEMMA OpenIs ==
  ASSUME NEW st \in PageStates, Current(st), NEW i \in Nat, NEW absent
  PROVE  /\ Open(absent, st, i) \in PageStates /\ Current(Open(absent, st, i))
         /\ Open(absent, st, i).charging = st.charging
         /\ Open(absent, st, i).absent <=> st.absent \/ i \in absent
         /\ Grown(st.segs, Open(absent, st, i).segs, i)
<1> DEFINE s == [st EXCEPT !.absent = TRUE]
<1>1. s \in PageStates /\ s.charging = st.charging /\ s.absent = TRUE /\ s.segs = st.segs
  BY DEF PageStates
<1>2. st.charging = "none" => st.segs = <<>>
  BY DEF Current
<1>3. CASE i \in absent
  <2>1. Open(absent, st, i) = Apply(s, i)
    BY <1>3 DEF Open
  <2> HIDE DEF s
  <2>q. QED
    BY <1>1, <1>2, <1>3, <2>1, ApplyIs
<1>4. CASE i \notin absent
  <2>1. Grown(st.segs, st.segs, i)
    BY DEF Grown, PageStates
  <2>q. QED
    BY <1>4, <2>1 DEF Open
<1>q. QED
  BY <1>3, <1>4

LEMMA EnterIs ==
  ASSUME NEW ev, NEW i \in Nat, NEW real, i \in real => ev[i].type = "beacon_lost",
         NEW st \in PageStates, Current(st)
  PROVE  /\ Enter(ev, real, st, i) \in PageStates /\ Current(Enter(ev, real, st, i))
         /\ Effect(ev, real, {}, st, i, Enter(ev, real, st, i))
         /\ Grown(st.segs, Enter(ev, real, st, i).segs, i)
<1>1. st.charging = "none" => st.segs = <<>>
  BY DEF Current
<1>2. CASE ev[i].type \in DOMAIN Charges
  <2> DEFINE s == [st EXCEPT !.charging = Charges[ev[i].type]]
  <2>1. /\ s \in PageStates /\ s.charging = Charges[ev[i].type] /\ s.absent = st.absent /\ s.segs = st.segs
        /\ s.charging # "none" /\ ev[i].type \notin BEACON_CLEARS /\ i \notin real
    BY <1>2, Charging DEF PageStates, BEACON_CLEARS
  <2>2. Enter(ev, real, st, i) = Apply(s, i)
    BY <1>2, <2>1 DEF Enter
  <2> HIDE DEF s
  <2>q. QED
    BY <1>2, <2>1, <2>2, ApplyIs DEF Effect
<1>3. CASE ev[i].type \notin DOMAIN Charges /\ ev[i].type \in BEACON_CLEARS
  <2> DEFINE s == [st EXCEPT !.absent = FALSE]
  <2>1. s \in PageStates /\ s.charging = st.charging /\ s.absent = FALSE /\ s.segs = st.segs
    BY DEF PageStates
  <2>2. i \notin real
    BY <1>3 DEF BEACON_CLEARS
  <2>3. Enter(ev, real, st, i) = Apply(s, i)
    BY <1>3, <2>2 DEF Enter
  <2> HIDE DEF s
  <2>q. QED
    BY <1>1, <1>3, <2>1, <2>3, ApplyIs DEF Effect
<1>4. CASE ev[i].type \notin DOMAIN Charges /\ ev[i].type \notin BEACON_CLEARS /\ i \in real
  <2> DEFINE s == [st EXCEPT !.absent = TRUE]
  <2>1. s \in PageStates /\ s.charging = st.charging /\ s.absent = TRUE /\ s.segs = st.segs
    BY DEF PageStates
  <2>2. Enter(ev, real, st, i) = Apply(s, i)
    BY <1>4 DEF Enter
  <2> HIDE DEF s
  <2>q. QED
    BY <1>1, <1>4, <2>1, <2>2, ApplyIs DEF Effect
<1>5. CASE ev[i].type \notin DOMAIN Charges /\ ev[i].type \notin BEACON_CLEARS /\ i \notin real
  <2>1. Grown(st.segs, st.segs, i)
    BY DEF Grown, PageStates
  <2>2. Enter(ev, real, st, i) = st
    BY <1>5 DEF Enter
  <2>q. QED
    BY <1>5, <2>1, <2>2 DEF Effect
<1>q. QED
  BY <1>2, <1>3, <1>4, <1>5

LEMMA ThenIs ==
  ASSUME NEW ev, NEW i \in Nat, NEW real, NEW absent, i \in real => ev[i].type = "beacon_lost", NEW st \in PageStates, Current(st)
  PROVE  LET t == Then(ev, real, absent, st, i) IN
         /\ t \in PageStates /\ Current(t) /\ Effect(ev, real, absent, st, i, t) /\ Grown(st.segs, t.segs, i)
<1> DEFINE o == Open(absent, st, i)
           t == Enter(ev, real, o, i)
<1>1. /\ o \in PageStates /\ Current(o) /\ o.charging = st.charging
      /\ (o.absent <=> st.absent \/ i \in absent) /\ Grown(st.segs, o.segs, i)
  BY OpenIs
<1> HIDE DEF o
<1>2. t \in PageStates /\ Current(t) /\ Effect(ev, real, {}, o, i, t) /\ Grown(o.segs, t.segs, i)
  BY <1>1, EnterIs
<1> HIDE DEF t
<1>3. Effect(ev, real, absent, st, i, t)
  BY <1>1, <1>2 DEF Effect
<1>4. Grown(st.segs, t.segs, i)
  BY <1>1, <1>2, GrownTwice DEF PageStates
<1>q. QED
  BY <1>2, <1>3, <1>4 DEF Then, o, t


Blank == [charging |-> "none", absent |-> FALSE, segs |-> <<>>]

Marked(ev, real) == \A i \in real : ev[i].type = "beacon_lost"

PageSteps(ev, st) ==
  st = [i \in 0 .. Len(ev) |->
          IF i = 0 THEN Blank ELSE Then(ev, RealLoss(ev), AbsentSessionStart(ev), st[i - 1], i)]

LEMMA ReadingChosen ==
  ASSUME NEW ev
  PROVE  Reading(ev) = CHOOSE st : PageSteps(ev, st)
BY DEF Reading, PageSteps, Blank, Then

LEMMA RealLossIs ==
  ASSUME NEW ev
  PROVE  Marked(ev, RealLoss(ev)) /\ RealLoss(ev) \subseteq DOMAIN ev
BY DEF Marked, RealLoss

\* One pass over a journal, step by step: in every state of it the last segment is the current one.
LEMMA ReadingIs ==
  ASSUME NEW ev, Journal(ev)
  PROVE  /\ \A i \in 0 .. Len(ev) : Reading(ev)[i] \in PageStates /\ Current(Reading(ev)[i])
         /\ Reading(ev)[0] = Blank
         /\ \A i \in 1 .. Len(ev) :
              /\ Reading(ev)[i] = Then(ev, RealLoss(ev), AbsentSessionStart(ev), Reading(ev)[i - 1], i)
              /\ Effect(ev, RealLoss(ev), AbsentSessionStart(ev), Reading(ev)[i - 1], i, Reading(ev)[i])
              /\ Grown(Reading(ev)[i - 1].segs, Reading(ev)[i].segs, i)
<1> DEFINE real == RealLoss(ev)
           absent == AbsentSessionStart(ev)
           R == Reading(ev)
           S == {st \in PageStates : Current(st)}
           n == Len(ev)
<1>0. n \in Nat
  BY DEF Journal
<1>1. Marked(ev, real)
  BY RealLossIs
<1> HIDE DEF real, absent, n
<1>2. ASSUME NEW i \in 1 .. n, NEW st \in S
      PROVE  /\ Then(ev, real, absent, st, i) \in S /\ Effect(ev, real, absent, st, i, Then(ev, real, absent, st, i))
             /\ Grown(st.segs, Then(ev, real, absent, st, i).segs, i)
  <2>1. i \in Nat
    BY <1>0
  <2>2. i \in real => ev[i].type = "beacon_lost"
    BY <1>1 DEF Marked
  <2>q. QED
    BY <2>1, <2>2, ThenIs
<1>3. Blank \in S
  BY DEF Blank, PageStates, Current
<1> DEFINE G == [i \in 1 .. n |-> [st \in S |-> Then(ev, real, absent, st, i)]]
<1>4. G \in [1 .. n -> [S -> S]]
  BY <1>2
<1>5. PICK f \in [0 .. n -> S] : Steps(n, Blank, G, f)
  <2> HIDE DEF S, G
  <2>q. QED
    BY <1>0, <1>3, <1>4, Recursion
<1>6. f = [i \in 0 .. n |-> IF i = 0 THEN Blank ELSE Then(ev, real, absent, f[i - 1], i)]
  <2>1. f = [i \in 0 .. n |-> IF i = 0 THEN Blank ELSE G[i][f[i - 1]]]
    BY <1>5 DEF Steps
  <2>2. \A i \in 0 .. n : f[i] = IF i = 0 THEN Blank ELSE G[i][f[i - 1]]
    <3> HIDE DEF G
    <3>q. QED
      BY <2>1
  <2>3. ASSUME NEW i \in 1 .. n PROVE G[i][f[i - 1]] = Then(ev, real, absent, f[i - 1], i)
    <3>1. i - 1 \in 0 .. n
      BY <1>0
    <3>2. f[i - 1] \in S
      BY <3>1
    <3> HIDE DEF S
    <3>q. QED
      BY <3>2
  <2>4. \A i \in 0 .. n : f[i] = IF i = 0 THEN Blank ELSE Then(ev, real, absent, f[i - 1], i)
    <3> HIDE DEF G
    <3>1. \A i \in 0 .. n : i # 0 => i \in 1 .. n
      BY <1>0
    <3>q. QED
      BY <2>2, <2>3, <3>1
  <2>q. QED
    BY <2>4
<1>7. PageSteps(ev, f)
  BY <1>6 DEF PageSteps, real, absent, n
<1>8. PageSteps(ev, R)
  BY <1>7, ReadingChosen
<1> HIDE DEF R
<1>9. \A i \in 0 .. n : R[i] = IF i = 0 THEN Blank ELSE Then(ev, real, absent, R[i - 1], i)
  BY <1>8 DEF PageSteps, real, absent, n
<1>10. R[0] = Blank /\ \A i \in 1 .. n : R[i] = Then(ev, real, absent, R[i - 1], i)
  BY <1>0, <1>9
<1> DEFINE T == {i \in 0 .. n : R[i] \in S}
<1>11. 0 \in T
  BY <1>0, <1>3, <1>10
<1>12. \A i \in 1 .. n : i - 1 \in T => i \in T
  <2> HIDE DEF S
  <2>q. QED
    BY <1>0, <1>2, <1>10
<1>13. 0 .. n \subseteq T
  <2> HIDE DEF T
  <2>q. QED
    BY <1>0, <1>11, <1>12, UpTo
<1>14. \A i \in 0 .. n : R[i] \in S
  BY <1>13
<1>15. \A i \in 1 .. n : i - 1 \in 0 .. n /\ R[i - 1] \in S
  BY <1>0, <1>14
<1>16. \A i \in 1 .. n : /\ R[i] = Then(ev, real, absent, R[i - 1], i)
                         /\ Effect(ev, real, absent, R[i - 1], i, R[i])
                         /\ Grown(R[i - 1].segs, R[i].segs, i)
  <2> HIDE DEF S
  <2>q. QED
    BY <1>2, <1>10, <1>15
<1>q. QED
  BY <1>10, <1>14, <1>16 DEF R, real, absent, n


-----------------------------------------------------------------------------
(* The tile's scans find what the page's passes find                           *)

LEMMA SameLosses ==
  ASSUME NEW ev, Journal(ev)
  PROVE  TileLosses(ev) = RealLoss(ev)
<1> DEFINE n == Len(ev)
           Ends(i) == {j \in i + 1 .. n : ev[j].type \in BEACON_CLEARS \/ IsBeaconLostShutdown(ev[j])}
           Clear(k) == ev[k].type \in BEACON_CLEARS
           BeaconLost(k) == IsBeaconLostShutdown(ev[k])
<1>0. n \in Nat
  BY DEF Journal
<1>1. \A k : BeaconLost(k) => ~Clear(k)
  BY DEF IsBeaconLostShutdown, BEACON_CLEARS
<1>2. ASSUME NEW i \in DOMAIN ev
      PROVE  (Ends(i) # {} /\ BeaconLost(Min(Ends(i)))) <=>
             \E j \in i + 1 .. n : BeaconLost(j) /\ \A k \in i + 1 .. j - 1 : ~Clear(k)
  <2>1. i \in Nat /\ Ends(i) \in SUBSET Nat
    BY <1>0 DEF Journal
  <2>2. \A j : j \in Ends(i) <=> j \in i + 1 .. n /\ (Clear(j) \/ BeaconLost(j))
    OBVIOUS
  <2> HIDE DEF Clear, BeaconLost, n
  <2>3. ASSUME Ends(i) # {}, BeaconLost(Min(Ends(i)))
        PROVE  \E j \in i + 1 .. n : BeaconLost(j) /\ \A k \in i + 1 .. j - 1 : ~Clear(k)
    <3> DEFINE m == Min(Ends(i))
    <3>1. m \in Ends(i) /\ \A y \in Ends(i) : m <= y
      <4> HIDE DEF Ends
      <4>q. QED
        BY <2>1, <2>3, MinOf
    <3> HIDE DEF Ends, m
    <3>2. m \in i + 1 .. n /\ BeaconLost(m)
      BY <2>2, <2>3, <3>1 DEF m
    <3>3. ASSUME NEW k \in i + 1 .. m - 1 PROVE ~Clear(k)
      <4>1. k \in i + 1 .. n /\ ~(m <= k)
        BY <1>0, <2>1, <3>2
      <4>q. QED
        BY <2>2, <3>1, <4>1
    <3>q. QED
      BY <3>2, <3>3
  <2>4. ASSUME NEW j \in i + 1 .. n, BeaconLost(j), \A k \in i + 1 .. j - 1 : ~Clear(k)
        PROVE  Ends(i) # {} /\ BeaconLost(Min(Ends(i)))
    <3> DEFINE m == Min(Ends(i))
    <3>1. j \in Ends(i)
      BY <2>2, <2>4
    <3>2. m \in Ends(i) /\ \A y \in Ends(i) : m <= y
      <4> HIDE DEF Ends
      <4>q. QED
        BY <2>1, <3>1, MinOf
    <3> HIDE DEF Ends, m
    <3>3. m \in i + 1 .. n /\ m <= j
      BY <2>2, <3>1, <3>2
    <3>4. CASE m = j
      BY <2>4, <3>1, <3>4 DEF m
    <3>5. CASE m # j
      <4>1. m \in i + 1 .. j - 1
        BY <1>0, <2>1, <3>3, <3>5
      <4>2. ~Clear(m)
        BY <2>4, <4>1
      <4>3. BeaconLost(m)
        BY <2>2, <3>2, <4>2
      <4>q. QED
        BY <3>1, <4>3 DEF m
    <3>q. QED
      BY <3>4, <3>5
  <2>q. QED
    BY <2>3, <2>4
<1>3. TileLosses(ev) = {i \in DOMAIN ev : ev[i].type = "beacon_lost" /\ (Ends(i) # {} /\ BeaconLost(Min(Ends(i))))}
  BY DEF TileLosses
<1>4. RealLoss(ev) = {i \in DOMAIN ev : ev[i].type = "beacon_lost" /\
                        \E j \in i + 1 .. n : BeaconLost(j) /\ \A k \in i + 1 .. j - 1 : ~Clear(k)}
  BY DEF RealLoss
<1> HIDE DEF Ends, BeaconLost, Clear, n
<1>q. QED
  BY <1>2, <1>3, <1>4

\* The registers behind i records: o opened the session that is read.
Since(ev, i, o) ==
  /\ o \in 1 .. i + 1 /\ (o = 1 \/ Boundary(ev, o)) /\ (i = 0 => o = 1) /\ (i > 0 => o <= i)
  /\ \A k \in o + 1 .. i : ~Boundary(ev, k)

Ends(ev, o, i) == \E j \in o .. i : IsBeaconLostShutdown(ev[j]) /\ \A k \in j + 1 .. i : ev[k].type # "shutdown"
Saw(ev, o, i) == \E j \in o .. i : ev[j].type \in BEACON_CLEARS

Register(ev, r, i) ==
  /\ Since(ev, i, r.start)
  /\ i <= Len(ev) => (r.saw <=> Saw(ev, r.start, i)) /\ (r.ended <=> Ends(ev, r.start, i))
  /\ r.absent = {o \in AbsentSessionStart(ev) : o < r.start}

RegisterStates == [start : Nat, saw : BOOLEAN, ended : BOOLEAN, absent : SUBSET Nat]

\* What opens an absent session, in terms of the session's end e.
LEMMA AbsentAt ==
  ASSUME NEW ev, Journal(ev), NEW o \in 1 .. Len(ev), o = 1 \/ ev[o].type = "start",
         NEW e \in o .. Len(ev), e = Len(ev) \/ ev[e + 1].type = "start",
         \A k \in o + 1 .. e : ev[k].type # "start"
  PROVE  o \in AbsentSessionStart(ev) <=> Ends(ev, o, e) /\ ~Saw(ev, o, e)
<1> DEFINE n == Len(ev)
           X == SessionOf(ev, o)
           Y == {i \in X : ev[i].type = "shutdown"}
<1>a. n \in Nat /\ DOMAIN ev = 1 .. n
  BY DEF Journal
<1>b. o \in 1 .. n /\ e \in o .. n
  OBVIOUS
<1> HIDE DEF n
<1>0. n \in Nat /\ DOMAIN ev = 1 .. n /\ o \in Nat /\ e \in Nat /\ o \in 1 .. n /\ e \in o .. n
  BY <1>a, <1>b
<1>1. \A i : i \in X <=> i \in o .. e /\ ev[i].type # "start"
  <2>1. ASSUME NEW i \in X PROVE i \in o .. e /\ ev[i].type # "start"
    <3>1. i \in o .. n /\ \A k \in o .. i : ev[k].type = "start" => k = o /\ i # o
      BY DEF SessionOf, n
    <3>2. ~(e + 1 <= i)
      <4>1. SUFFICES ASSUME e + 1 <= i PROVE FALSE
        OBVIOUS
      <4>2. e + 1 \in o .. i /\ e # n /\ e + 1 # o
        BY <1>0, <3>1, <4>1
      <4>q. QED
        BY <3>1, <4>2 DEF n
    <3>3. i \in o .. i
      BY <1>0, <3>1
    <3>q. QED
      BY <1>0, <3>1, <3>2, <3>3
  <2>2. ASSUME NEW i \in o .. e, ev[i].type # "start" PROVE i \in X
    <3>1. i \in o .. n
      BY <1>0
    <3>2. ASSUME NEW k \in o .. i, ev[k].type = "start" PROVE k = o /\ i # o
      <4>1. k \notin o + 1 .. e
        BY <3>2
      <4>q. QED
        BY <1>0, <2>2, <3>2, <4>1
    <3>q. QED
      BY <3>1, <3>2 DEF SessionOf, n
  <2>q. QED
    BY <2>1, <2>2
<1>2. \A i : i \in Y <=> i \in o .. e /\ ev[i].type = "shutdown"
  BY <1>1
<1>3. Y \in SUBSET (0 .. e)
  BY <1>0, <1>2
<1>4. (\A i \in X : ev[i].type \notin BEACON_CLEARS) <=> ~Saw(ev, o, e)
  <2>1. \A i : ev[i].type \in BEACON_CLEARS => ev[i].type # "start"
    BY DEF BEACON_CLEARS
  <2> HIDE DEF X
  <2>q. QED
    BY <1>1, <2>1 DEF Saw
<1>5. (Y # {} /\ IsBeaconLostShutdown(ev[Max(Y)])) <=> Ends(ev, o, e)
  <2>1. ASSUME Y # {}, IsBeaconLostShutdown(ev[Max(Y)]) PROVE Ends(ev, o, e)
    <3>1. Max(Y) \in Y /\ \A y \in Y : y <= Max(Y)
      <4> HIDE DEF Y
      <4>q. QED
        BY <1>0, <1>3, <2>1, MaxOf
    <3> DEFINE m == Max(Y)
    <3> HIDE DEF m, Y
    <3>2. m \in o .. e
      BY <1>2, <3>1 DEF m
    <3>3. ASSUME NEW k \in m + 1 .. e PROVE ev[k].type # "shutdown"
      <4>1. k \in o .. e /\ ~(k <= m)
        BY <1>0, <3>2
      <4>q. QED
        BY <1>2, <3>1, <4>1 DEF m
    <3>4. IsBeaconLostShutdown(ev[m])
      BY <2>1 DEF m
    <3>q. QED
      BY <3>2, <3>3, <3>4 DEF Ends
  <2>2. ASSUME Ends(ev, o, e) PROVE Y # {} /\ IsBeaconLostShutdown(ev[Max(Y)])
    <3>1. PICK j \in o .. e : IsBeaconLostShutdown(ev[j]) /\ \A k \in j + 1 .. e : ev[k].type # "shutdown"
      BY <2>2 DEF Ends
    <3>2. j \in Y
      BY <1>2, <3>1 DEF IsBeaconLostShutdown
    <3>3. Max(Y) \in Y /\ \A y \in Y : y <= Max(Y)
      <4> HIDE DEF Y
      <4>q. QED
        BY <1>0, <1>3, <3>2, MaxOf
    <3> DEFINE m == Max(Y)
    <3> HIDE DEF m
    <3>4. m \in o .. e /\ ev[m].type = "shutdown" /\ j <= m
      BY <1>2, <3>2, <3>3 DEF m
    <3>5. m \notin j + 1 .. e
      BY <3>1, <3>4
    <3>6. m = j
      BY <1>0, <3>4, <3>5
    <3>q. QED
      BY <3>1, <3>2, <3>6 DEF m
  <2>q. QED
    BY <2>1, <2>2
<1>6. o \in AbsentSessionStart(ev) <=> /\ (Y # {} /\ IsBeaconLostShutdown(ev[Max(Y)]))
                                       /\ (\A i \in X : ev[i].type \notin BEACON_CLEARS)
  BY <1>0 DEF AbsentSessionStart
<1>q. QED
  BY <1>4, <1>5, <1>6

LEMMA SawNext ==
  ASSUME NEW ev, NEW o \in Nat, NEW i \in Nat, o <= i
  PROVE  /\ Saw(ev, o, i) <=> Saw(ev, o, i - 1) \/ ev[i].type \in BEACON_CLEARS
         /\ Ends(ev, o, i) <=> IF ev[i].type = "shutdown" THEN IsBeaconLostShutdown(ev[i]) ELSE Ends(ev, o, i - 1)
<1>1. \A j : j \in o .. i <=> j \in o .. i - 1 \/ j = i
  OBVIOUS
<1>2. Saw(ev, o, i) <=> Saw(ev, o, i - 1) \/ ev[i].type \in BEACON_CLEARS
  BY <1>1 DEF Saw
<1>3. IsBeaconLostShutdown(ev[i]) => ev[i].type = "shutdown"
  BY DEF IsBeaconLostShutdown
<1>4. CASE ev[i].type = "shutdown"
  <2>1. ASSUME Ends(ev, o, i) PROVE IsBeaconLostShutdown(ev[i])
    <3>1. PICK j \in o .. i : IsBeaconLostShutdown(ev[j]) /\ \A k \in j + 1 .. i : ev[k].type # "shutdown"
      BY <2>1 DEF Ends
    <3>2. i \notin j + 1 .. i
      BY <1>4, <3>1
    <3>3. j = i
      BY <3>2
    <3>q. QED
      BY <3>1, <3>3
  <2>2. ASSUME IsBeaconLostShutdown(ev[i]) PROVE Ends(ev, o, i)
    <3>1. i \in o .. i /\ \A k \in i + 1 .. i : ev[k].type # "shutdown"
      OBVIOUS
    <3>q. QED
      BY <2>2, <3>1 DEF Ends
  <2>q. QED
    BY <1>2, <1>4, <2>1, <2>2
<1>5. CASE ev[i].type # "shutdown"
  <2>1. ASSUME Ends(ev, o, i) PROVE Ends(ev, o, i - 1)
    <3>1. PICK j \in o .. i : IsBeaconLostShutdown(ev[j]) /\ \A k \in j + 1 .. i : ev[k].type # "shutdown"
      BY <2>1 DEF Ends
    <3>2. j # i
      BY <1>3, <1>5, <3>1
    <3>3. j \in o .. i - 1 /\ \A k \in j + 1 .. i - 1 : k \in j + 1 .. i
      BY <3>2
    <3>q. QED
      BY <3>1, <3>3 DEF Ends
  <2>2. ASSUME Ends(ev, o, i - 1) PROVE Ends(ev, o, i)
    <3>1. PICK j \in o .. i - 1 : IsBeaconLostShutdown(ev[j]) /\ \A k \in j + 1 .. i - 1 : ev[k].type # "shutdown"
      BY <2>2 DEF Ends
    <3>2. j \in o .. i /\ \A k \in j + 1 .. i : k = i \/ k \in j + 1 .. i - 1
      OBVIOUS
    <3>q. QED
      BY <1>5, <3>1, <3>2 DEF Ends
  <2>q. QED
    BY <1>2, <1>5, <2>1, <2>2
<1>q. QED
  BY <1>4, <1>5

LEMMA ScanIs ==
  ASSUME NEW ev, Journal(ev), NEW i \in 1 .. Len(ev) + 1,
         NEW r \in RegisterStates, Register(ev, r, i - 1)
  PROVE  Register(ev, Scan(ev, r, i), i)
<1> DEFINE n == Len(ev)
           o == r.start
           s == Scan(ev, r, i)
           A == AbsentSessionStart(ev)
<1>0. n \in Nat /\ DOMAIN ev = 1 .. n /\ i \in 1 .. n + 1
  BY DEF Journal
<1> HIDE DEF n
<1>1. /\ o \in Nat /\ o >= 1 /\ o <= i /\ (i = 1 => o = 1) /\ (i > 1 => o <= i - 1) /\ (o = 1 \/ Boundary(ev, o))
      /\ \A k \in o + 1 .. i - 1 : ~Boundary(ev, k)
  <2>1. Since(ev, i - 1, o)
    BY DEF Register
  <2>q. QED
    BY <1>0, <2>1 DEF Since
<1>2. r.saw \in BOOLEAN /\ r.ended \in BOOLEAN
  BY DEF RegisterStates
<1>3. i - 1 <= n => (r.saw <=> Saw(ev, o, i - 1)) /\ (r.ended <=> Ends(ev, o, i - 1))
  BY DEF Register, n
<1>4. r.absent = {p \in A : p < o}
  BY DEF Register
<1>5. i - 1 <= n /\ i - 1 \in Nat
  BY <1>0
<1>6. \A p \in A : p \in 1 .. n /\ (p = 1 \/ ev[p].type = "start")
  BY <1>0 DEF AbsentSessionStart
<1>7. CASE Boundary(ev, i)
  <2>1. /\ s.start = i /\ s.saw = FALSE /\ s.ended = FALSE
        /\ s.absent = IF r.ended /\ ~r.saw THEN r.absent \cup {o} ELSE r.absent
    BY <1>7 DEF Scan
  <2> HIDE DEF s
  <2>2. Since(ev, i, i)
    BY <1>0, <1>7 DEF Since
  <2>3. i <= n => ~Saw(ev, i, i) /\ ~Ends(ev, i, i)
    <3>1. SUFFICES ASSUME i <= n PROVE ~Saw(ev, i, i) /\ ~Ends(ev, i, i)
      OBVIOUS
    <3>2. ev[i].type = "start"
      BY <1>0, <1>7, <3>1 DEF Boundary, n
    <3>3. \A j \in i .. i : j = i
      BY <1>0
    <3>q. QED
      BY <3>2, <3>3 DEF Saw, Ends, IsBeaconLostShutdown, BEACON_CLEARS
  <2>4. s.absent = {p \in A : p < i}
    <3>1. CASE i = 1
      <4>1. ~Ends(ev, o, i - 1)
        BY <1>1, <3>1 DEF Ends
      <4>q. QED
        BY <1>1, <1>3, <1>4, <1>5, <2>1, <3>1, <4>1
    <3>2. CASE i # 1
      <4>1. o \in 1 .. n /\ i - 1 \in o .. n /\ o <= i - 1
        BY <1>0, <1>1, <3>2
      <4>2. o = 1 \/ ev[o].type = "start"
        BY <1>1, <4>1 DEF Boundary, n
      <4>3. i - 1 = n \/ ev[(i - 1) + 1].type = "start"
        BY <1>0, <1>7 DEF Boundary, n
      <4>4. \A k \in o + 1 .. i - 1 : ev[k].type # "start"
        BY <1>1 DEF Boundary
      <4>5. o \in A <=> Ends(ev, o, i - 1) /\ ~Saw(ev, o, i - 1)
        <5> HIDE DEF o
        <5>q. QED
          BY <4>1, <4>2, <4>3, <4>4, AbsentAt DEF n
      <4>6. o \in A <=> r.ended /\ ~r.saw
        BY <1>2, <1>3, <1>5, <4>5
      <4>7. \A p \in A : p < i <=> p < o \/ p = o
        <5>1. SUFFICES ASSUME NEW p \in A, p < i, o < p PROVE FALSE
          BY <1>0, <1>1, <1>6, <4>1
        <5>2. p \in o + 1 .. i - 1 /\ p # 1
          BY <1>0, <1>1, <1>6, <5>1
        <5>q. QED
          BY <1>6, <4>4, <5>2
      <4>8. ASSUME NEW p PROVE p \in s.absent <=> p \in A /\ p < i
        BY <1>4, <2>1, <4>6, <4>7, <4>8
      <4>q. QED
        BY <4>8
    <3>q. QED
      BY <3>1, <3>2
  <2>q. QED
    <3>1. /\ Since(ev, i, s.start) /\ s.absent = {p \in A : p < s.start}
          /\ i <= n => (s.saw <=> Saw(ev, s.start, i)) /\ (s.ended <=> Ends(ev, s.start, i))
      <4> HIDE DEF A
      <4>q. QED
        BY <2>1, <2>2, <2>3, <2>4
    <3>2. Register(ev, s, i)
      BY <3>1 DEF Register, n, A
    <3>q. QED
      BY <3>2 DEF s
<1>8. CASE ~Boundary(ev, i)
  <2>1. i <= n /\ i \in 1 .. n
    BY <1>0, <1>8 DEF Boundary, n
  <2>2. Since(ev, i, o)
    <3>1. \A k \in o + 1 .. i : k = i \/ k \in o + 1 .. i - 1
      BY <1>0, <1>1
    <3>q. QED
      BY <1>0, <1>1, <1>8, <3>1 DEF Since
  <2>3. /\ Saw(ev, o, i) <=> Saw(ev, o, i - 1) \/ ev[i].type \in BEACON_CLEARS
        /\ Ends(ev, o, i) <=> IF ev[i].type = "shutdown" THEN IsBeaconLostShutdown(ev[i]) ELSE Ends(ev, o, i - 1)
    <3> HIDE DEF o
    <3>q. QED
      BY <1>0, <1>1, SawNext
  <2>4. s.start = o /\ s.absent = r.absent /\ (s.saw <=> r.saw \/ ev[i].type \in BEACON_CLEARS)
        /\ (s.ended <=> IF ev[i].type = "shutdown" THEN IsBeaconLostShutdown(ev[i]) ELSE r.ended)
    <3>1. CASE ev[i].type \in BEACON_CLEARS
      <4>1. ev[i].type # "shutdown"
        BY <3>1 DEF BEACON_CLEARS
      <4>2. s = [r EXCEPT !.saw = TRUE]
        BY <1>8, <3>1, <4>1 DEF Scan
      <4> HIDE DEF s
      <4>q. QED
        BY <3>1, <4>1, <4>2 DEF RegisterStates
    <3>2. CASE ev[i].type = "shutdown"
      <4>1. ev[i].type \notin BEACON_CLEARS
        BY <3>2 DEF BEACON_CLEARS
      <4>2. s = [r EXCEPT !.ended = IsBeaconLostShutdown(ev[i])]
        BY <1>8, <3>2, <4>1 DEF Scan
      <4> HIDE DEF s
      <4>q. QED
        BY <3>2, <4>1, <4>2 DEF RegisterStates
    <3>3. CASE ev[i].type # "shutdown" /\ ev[i].type \notin BEACON_CLEARS
      <4>1. s = r
        BY <1>8, <3>3 DEF Scan
      <4> HIDE DEF s
      <4>q. QED
        BY <3>3, <4>1
    <3>q. QED
      BY <3>1, <3>2, <3>3
  <2>5. i <= n => (s.saw <=> Saw(ev, o, i)) /\ (s.ended <=> Ends(ev, o, i))
    BY <1>2, <1>3, <1>5, <2>3, <2>4
  <2>6. s.start = o /\ s.absent = {p \in A : p < s.start}
    <3> HIDE DEF s, A
    <3>q. QED
      BY <1>4, <2>4
  <2> HIDE DEF s, o
  <2>7. Since(ev, i, s.start) /\ (i <= n => (s.saw <=> Saw(ev, s.start, i)) /\ (s.ended <=> Ends(ev, s.start, i)))
    BY <2>2, <2>5, <2>6
  <2>8. Register(ev, s, i)
    BY <2>6, <2>7 DEF Register, n, A
  <2>q. QED
    BY <2>8 DEF s
<1>q. QED
  BY <1>7, <1>8

RegisterSteps(ev, r) ==
  r = [i \in 0 .. Len(ev) + 1 |->
         IF i = 0 THEN [start |-> 1, saw |-> FALSE, ended |-> FALSE, absent |-> {}] ELSE Scan(ev, r[i - 1], i)]

LEMMA RegistersChosen ==
  ASSUME NEW ev
  PROVE  Registers(ev) = CHOOSE r : RegisterSteps(ev, r)
BY DEF Registers, RegisterSteps

LEMMA ScanType ==
  ASSUME NEW ev, NEW i \in Nat, NEW r \in RegisterStates
  PROVE  Scan(ev, r, i) \in RegisterStates
<1>1. r.start \in Nat /\ r.saw \in BOOLEAN /\ r.ended \in BOOLEAN /\ r.absent \in SUBSET Nat
  BY DEF RegisterStates
<1>2. CASE Boundary(ev, i)
  <2>1. (r.absent \cup {r.start}) \in SUBSET Nat
    BY <1>1
  <2> DEFINE a == IF r.ended /\ ~r.saw THEN r.absent \cup {r.start} ELSE r.absent
  <2>2. a \in SUBSET Nat
    BY <1>1, <2>1
  <2>3. Scan(ev, r, i) = [start |-> i, saw |-> FALSE, ended |-> FALSE, absent |-> a]
    BY <1>2 DEF Scan
  <2> HIDE DEF a
  <2>q. QED
    BY <2>2, <2>3 DEF RegisterStates
<1>3. CASE ~Boundary(ev, i) /\ ev[i].type \in BEACON_CLEARS
  <2>1. ev[i].type # "shutdown"
    BY <1>3 DEF BEACON_CLEARS
  <2>2. Scan(ev, r, i) = [r EXCEPT !.saw = TRUE]
    BY <1>3, <2>1 DEF Scan
  <2>q. QED
    BY <1>1, <2>2 DEF RegisterStates
<1>4. CASE ~Boundary(ev, i) /\ ev[i].type = "shutdown"
  <2>1. ev[i].type \notin BEACON_CLEARS
    BY <1>4 DEF BEACON_CLEARS
  <2>2. Scan(ev, r, i) = [r EXCEPT !.ended = IsBeaconLostShutdown(ev[i])]
    BY <1>4, <2>1 DEF Scan
  <2>3. IsBeaconLostShutdown(ev[i]) \in BOOLEAN
    BY DEF IsBeaconLostShutdown
  <2>q. QED
    BY <1>1, <2>2, <2>3 DEF RegisterStates
<1>5. CASE ~Boundary(ev, i) /\ ev[i].type # "shutdown" /\ ev[i].type \notin BEACON_CLEARS
  <2>1. Scan(ev, r, i) = r
    BY <1>5 DEF Scan
  <2>q. QED
    BY <2>1
<1>q. QED
  BY <1>2, <1>3, <1>4, <1>5

LEMMA SameAbsence ==
  ASSUME NEW ev, Journal(ev)
  PROVE  TileAbsent(ev) = AbsentSessionStart(ev)
<1> DEFINE n == Len(ev)
           b == [start |-> 1, saw |-> FALSE, ended |-> FALSE, absent |-> {}]
           S == RegisterStates
           R == Registers(ev)
           G == [i \in 1 .. n + 1 |-> [r \in S |-> Scan(ev, r, i)]]
<1>0. n \in Nat /\ n + 1 \in Nat
  BY DEF Journal
<1> HIDE DEF n
<1>1. b \in S
  BY DEF RegisterStates
<1>2. \A i \in 1 .. n + 1 : \A r \in S : Scan(ev, r, i) \in S
  <2>1. \A i \in 1 .. n + 1 : i \in Nat
    BY <1>0
  <2>q. QED
    BY <2>1, ScanType
<1>3. G \in [1 .. n + 1 -> [S -> S]]
  BY <1>2
<1> HIDE DEF b, S
<1>4. PICK f \in [0 .. n + 1 -> S] : Steps(n + 1, b, G, f)
  <2> HIDE DEF G
  <2> DEFINE m == n + 1
  <2>1. m \in Nat /\ G \in [1 .. m -> [S -> S]]
    BY <1>0, <1>3
  <2> HIDE DEF m
  <2>2. \E f \in [0 .. m -> S] : Steps(m, b, G, f)
    BY <1>1, <2>1, Recursion
  <2>q. QED
    BY <2>2 DEF m
<1>5. f = [i \in 0 .. n + 1 |-> IF i = 0 THEN b ELSE Scan(ev, f[i - 1], i)]
  <2>1. f = [i \in 0 .. n + 1 |-> IF i = 0 THEN b ELSE G[i][f[i - 1]]]
    BY <1>4 DEF Steps
  <2>2. \A i \in 0 .. n + 1 : f[i] = IF i = 0 THEN b ELSE G[i][f[i - 1]]
    <3> HIDE DEF G
    <3>q. QED
      BY <2>1
  <2>3. ASSUME NEW i \in 1 .. n + 1 PROVE G[i][f[i - 1]] = Scan(ev, f[i - 1], i)
    <3>1. i - 1 \in 0 .. n + 1
      BY <1>0
    <3>q. QED
      BY <3>1
  <2>4. \A i \in 0 .. n + 1 : f[i] = IF i = 0 THEN b ELSE Scan(ev, f[i - 1], i)
    <3> HIDE DEF G
    <3>1. \A i \in 0 .. n + 1 : i # 0 => i \in 1 .. n + 1
      BY <1>0
    <3>q. QED
      BY <2>2, <2>3, <3>1
  <2>q. QED
    BY <2>4
<1>6. RegisterSteps(ev, R)
  <2>1. RegisterSteps(ev, f)
    BY <1>5 DEF RegisterSteps, b, n
  <2>q. QED
    BY <2>1, RegistersChosen
<1> HIDE DEF R
<1>7. R[0] = b /\ \A i \in 1 .. n + 1 : R[i] = Scan(ev, R[i - 1], i)
  <2>1. \A i \in 0 .. n + 1 : R[i] = IF i = 0 THEN b ELSE Scan(ev, R[i - 1], i)
    BY <1>6 DEF RegisterSteps, b, n
  <2>q. QED
    BY <1>0, <2>1
<1> DEFINE T == {i \in 0 .. n + 1 : R[i] \in S /\ Register(ev, R[i], i)}
<1>8. 0 \in T
  <2>1. b.start = 1 /\ b.saw = FALSE /\ b.ended = FALSE /\ b.absent = {}
    BY DEF b
  <2>2. Since(ev, 0, b.start)
    BY <2>1 DEF Since
  <2>3. ~Saw(ev, 1, 0) /\ ~Ends(ev, 1, 0)
    BY DEF Saw, Ends
  <2>4. {o \in AbsentSessionStart(ev) : o < b.start} = {}
    BY <2>1 DEF AbsentSessionStart, Journal
  <2>5. Register(ev, b, 0)
    BY <2>1, <2>2, <2>3, <2>4 DEF Register
  <2>q. QED
    BY <1>0, <1>1, <1>7, <2>5
<1>9. ASSUME NEW i \in 1 .. n + 1, i - 1 \in T PROVE i \in T
  <2>1. R[i - 1] \in RegisterStates /\ Register(ev, R[i - 1], i - 1)
    BY <1>9 DEF S
  <2>2. Register(ev, Scan(ev, R[i - 1], i), i)
    BY <2>1, ScanIs DEF n
  <2>3. R[i] = Scan(ev, R[i - 1], i) /\ R[i] \in S
    BY <1>2, <1>7, <2>1 DEF S
  <2>q. QED
    BY <1>0, <2>2, <2>3
<1>10. n + 1 \in T
  <2> DEFINE m == n + 1
  <2>1. m \in Nat /\ \A i \in 1 .. m : i - 1 \in T => i \in T
    BY <1>0, <1>9
  <2> HIDE DEF T, m
  <2>2. 0 .. m \subseteq T
    BY <1>8, <2>1, UpTo
  <2>q. QED
    BY <2>1, <2>2 DEF m
<1>11. R[n + 1].start = n + 1
  <2>1. Since(ev, n + 1, R[n + 1].start)
    BY <1>10 DEF Register
  <2>2. Boundary(ev, n + 1)
    BY DEF Boundary, n
  <2> DEFINE o == R[n + 1].start
  <2> HIDE DEF o
  <2>3. o \in 1 .. (n + 1) + 1 /\ o <= n + 1 /\ \A k \in o + 1 .. n + 1 : ~Boundary(ev, k)
    BY <1>0, <2>1 DEF Since, o
  <2>4. n + 1 \notin o + 1 .. n + 1
    BY <2>2, <2>3
  <2>5. o = n + 1
    BY <1>0, <2>3, <2>4
  <2>q. QED
    BY <2>5 DEF o
<1>12. R[n + 1].absent = AbsentSessionStart(ev)
  <2>1. R[n + 1].absent = {o \in AbsentSessionStart(ev) : o < n + 1}
    BY <1>10, <1>11 DEF Register
  <2>2. \A o \in AbsentSessionStart(ev) : o < n + 1
    BY <1>0 DEF AbsentSessionStart, Journal, n
  <2>q. QED
    BY <2>1, <2>2
<1>q. QED
  BY <1>12 DEF TileAbsent, R, n

-----------------------------------------------------------------------------
(* The tile keeps the page's last segment                                      *)

Tile(p) == [charging |-> p.charging, absent |-> p.absent,
            current |-> IF p.segs = <<>> THEN NoSegment ELSE Last(p.segs)]

TileThen(ev, real, absent, st, i) == TileEnter(ev, real, TileOpen(absent, st, i), i)

LEMMA TileIs ==
  ASSUME NEW p
  PROVE  /\ Tile(p).charging = p.charging /\ Tile(p).absent = p.absent
         /\ Tile(p).current = (IF p.segs = <<>> THEN NoSegment ELSE Last(p.segs))
BY DEF Tile

\* Two states whose parts are the same are the same tile.
LEMMA SameTile ==
  ASSUME NEW p, NEW q, p.charging = q.charging, p.absent = q.absent, p.segs = q.segs
  PROVE  Tile(p) = Tile(q)
BY DEF Tile

LEMMA AbsenceOfTile ==
  ASSUME NEW p, NEW q, q.charging = p.charging, q.segs = p.segs
  PROVE  [Tile(p) EXCEPT !.absent = q.absent] = Tile(q)
<1> DEFINE c == IF p.segs = <<>> THEN NoSegment ELSE Last(p.segs)
<1>1. Tile(p) = [charging |-> p.charging, absent |-> p.absent, current |-> c]
  BY DEF Tile
<1>2. Tile(q) = [charging |-> p.charging, absent |-> q.absent, current |-> c]
  BY DEF Tile
<1> HIDE DEF c
<1>q. QED
  BY <1>1, <1>2

LEMMA TileApplyIs ==
  ASSUME NEW p \in PageStates, NEW i \in Nat
  PROVE  TileApply(Tile(p), i) = Tile(Apply(p, i))
<1>1. /\ p.charging \in {"none", "on", "off"} /\ p.absent \in BOOLEAN /\ p.segs \in Seq(Marks)
  BY DEF PageStates
<1> DEFINE t == Tile(p)
<1>2. /\ t.charging = p.charging /\ t.absent = p.absent
      /\ t.current = (IF p.segs = <<>> THEN NoSegment ELSE Last(p.segs))
  BY TileIs
<1>3. t = [charging |-> p.charging, absent |-> p.absent, current |-> t.current]
  BY DEF Tile
<1> HIDE DEF t
<1>4. Kind(t) = Kind(p) /\ Kind(p) # "none"
  BY <1>2 DEF Kind
<1>5. CASE p.charging = "none"
  BY <1>2, <1>5 DEF Apply, TileApply, t
<1>6. CASE p.charging # "none" /\ p.segs # <<>> /\ Last(p.segs).kind = Kind(p)
  <2>1. Apply(p, i) = p
    BY <1>6 DEF Apply
  <2>2. t.current.kind = Kind(t)
    BY <1>2, <1>4, <1>6
  <2>3. TileApply(t, i) = t
    BY <2>2 DEF TileApply
  <2>q. QED
    BY <2>1, <2>3 DEF t
<1>7. CASE p.charging # "none" /\ (p.segs = <<>> \/ Last(p.segs).kind # Kind(p))
  <2> DEFINE m == [kind |-> Kind(p), start |-> i]
             a == Append(p.segs, m)
  <2>1. m \in Marks
    BY DEF Marks, Kind
  <2>2. a # <<>> /\ Last(a) = m
    <3> HIDE DEF m
    <3>q. QED
      BY <1>1, <2>1, Lasting
  <2>3. Apply(p, i) = [charging |-> p.charging, absent |-> p.absent, segs |-> a]
    BY <1>7 DEF Apply, PageStates
  <2>4. NoSegment.kind = "none"
    BY DEF NoSegment
  <2>5. t.current.kind # Kind(t)
    BY <1>2, <1>4, <1>7, <2>4
  <2>6. TileApply(t, i) = [t EXCEPT !.current = [kind |-> Kind(t), start |-> i]]
    BY <1>2, <1>7, <2>5 DEF TileApply
  <2>7. TileApply(t, i) = [charging |-> p.charging, absent |-> p.absent, current |-> m]
    BY <1>3, <1>4, <2>6
  <2> HIDE DEF m, a
  <2>8. Tile(Apply(p, i)) = [charging |-> p.charging, absent |-> p.absent, current |-> m]
    BY <2>2, <2>3 DEF Tile
  <2>q. QED
    BY <2>7, <2>8 DEF t
<1>q. QED
  BY <1>5, <1>6, <1>7

LEMMA TileOpenIs ==
  ASSUME NEW p \in PageStates, NEW i \in Nat, NEW absent
  PROVE  TileOpen(absent, Tile(p), i) = Tile(Open(absent, p, i))
<1> DEFINE s == [p EXCEPT !.absent = TRUE]
<1>1. s \in PageStates /\ s.charging = p.charging /\ s.absent = TRUE /\ s.segs = p.segs
  BY DEF PageStates
<1>2. CASE i \in absent
  <2>1. [Tile(p) EXCEPT !.absent = TRUE] = Tile(s)
    <3> HIDE DEF s
    <3>q. QED
      BY <1>1, AbsenceOfTile
  <2>2. TileOpen(absent, Tile(p), i) = TileApply(Tile(s), i)
    BY <1>2, <2>1 DEF TileOpen
  <2>3. Open(absent, p, i) = Apply(s, i)
    BY <1>2 DEF Open
  <2> HIDE DEF s
  <2>q. QED
    BY <1>1, <2>2, <2>3, TileApplyIs
<1>3. CASE i \notin absent
  BY <1>3 DEF TileOpen, Open
<1>q. QED
  BY <1>2, <1>3

LEMMA TileEnterIs ==
  ASSUME NEW p \in PageStates, NEW i \in Nat, NEW ev, NEW real, i \in real => ev[i].type = "beacon_lost"
  PROVE  TileEnter(ev, real, Tile(p), i) = Tile(Enter(ev, real, p, i))
<1>1. CASE ev[i].type \in DOMAIN Charges
  <2> DEFINE s == [p EXCEPT !.charging = Charges[ev[i].type]]
  <2>1. s \in PageStates /\ s.absent = p.absent /\ s.segs = p.segs /\ s.charging = Charges[ev[i].type]
        /\ ev[i].type \notin BEACON_CLEARS /\ i \notin real
    BY <1>1, Charging DEF PageStates, BEACON_CLEARS
  <2>2. Enter(ev, real, p, i) = Apply(s, i)
    BY <1>1, <2>1 DEF Enter
  <2>3. [Tile(p) EXCEPT !.charging = Charges[ev[i].type]] = Tile(s)
    BY <2>1 DEF Tile
  <2>4. TileEnter(ev, real, Tile(p), i) = TileApply(Tile(s), i)
    BY <1>1, <2>1, <2>3 DEF TileEnter
  <2> HIDE DEF s
  <2>q. QED
    BY <2>1, <2>2, <2>4, TileApplyIs
<1>2. CASE ev[i].type \notin DOMAIN Charges /\ ev[i].type \in BEACON_CLEARS
  <2> DEFINE s == [p EXCEPT !.absent = FALSE]
  <2>1. s \in PageStates /\ s.charging = p.charging /\ s.absent = FALSE /\ s.segs = p.segs
    BY DEF PageStates
  <2>2. i \notin real
    BY <1>2 DEF BEACON_CLEARS
  <2>3. Enter(ev, real, p, i) = Apply(s, i)
    BY <1>2, <2>2 DEF Enter
  <2>4. [Tile(p) EXCEPT !.absent = FALSE] = Tile(s)
    <3> HIDE DEF s
    <3>q. QED
      BY <2>1, AbsenceOfTile
  <2>5. TileEnter(ev, real, Tile(p), i) = TileApply(Tile(s), i)
    BY <1>2, <2>2, <2>4 DEF TileEnter
  <2> HIDE DEF s
  <2>q. QED
    BY <2>1, <2>3, <2>5, TileApplyIs
<1>3. CASE ev[i].type \notin DOMAIN Charges /\ ev[i].type \notin BEACON_CLEARS /\ i \in real
  <2> DEFINE s == [p EXCEPT !.absent = TRUE]
  <2>1. s \in PageStates /\ s.charging = p.charging /\ s.absent = TRUE /\ s.segs = p.segs
    BY DEF PageStates
  <2>3. Enter(ev, real, p, i) = Apply(s, i)
    BY <1>3 DEF Enter
  <2>4. [Tile(p) EXCEPT !.absent = TRUE] = Tile(s)
    <3> HIDE DEF s
    <3>q. QED
      BY <2>1, AbsenceOfTile
  <2>5. TileEnter(ev, real, Tile(p), i) = TileApply(Tile(s), i)
    BY <1>3, <2>4 DEF TileEnter
  <2> HIDE DEF s
  <2>q. QED
    BY <2>1, <2>3, <2>5, TileApplyIs
<1>4. CASE ev[i].type \notin DOMAIN Charges /\ ev[i].type \notin BEACON_CLEARS /\ i \notin real
  BY <1>4 DEF Enter, TileEnter
<1>q. QED
  BY <1>1, <1>2, <1>3, <1>4

TileSteps(ev, st) ==
  st = [i \in 0 .. Len(ev) |->
          IF i = 0 THEN [charging |-> "none", absent |-> FALSE, current |-> NoSegment]
          ELSE TileThen(ev, TileLosses(ev), TileAbsent(ev), st[i - 1], i)]

LEMMA TileReadingChosen ==
  ASSUME NEW ev
  PROVE  TileReading(ev) = CHOOSE st : TileSteps(ev, st)
BY DEF TileReading, TileSteps, TileThen

LEMMA TileReadingIs ==
  ASSUME NEW ev, Journal(ev)
  PROVE  \A i \in 0 .. Len(ev) : TileReading(ev)[i] = Tile(Reading(ev)[i])
<1> DEFINE n == Len(ev)
           real == RealLoss(ev)
           absent == AbsentSessionStart(ev)
           R == Reading(ev)
           S == TileReading(ev)
           b == [charging |-> "none", absent |-> FALSE, current |-> NoSegment]
           f == [i \in 0 .. n |-> Tile(R[i])]
<1>0. n \in Nat
  BY DEF Journal
<1>1. /\ \A i \in 0 .. n : R[i] \in PageStates /\ Current(R[i])
      /\ R[0] = Blank
      /\ \A i \in 1 .. n : R[i] = Then(ev, real, absent, R[i - 1], i)
  BY ReadingIs
<1>2. Marked(ev, real)
  BY RealLossIs
<1> HIDE DEF R, n, real, absent
<1>3. Tile(Blank) = b
  BY DEF Tile, Blank
<1>4. ASSUME NEW i \in 1 .. n
      PROVE  TileThen(ev, real, absent, Tile(R[i - 1]), i) = Tile(R[i])
  <2>1. i \in Nat /\ i - 1 \in 0 .. n
    BY <1>0
  <2>2. R[i - 1] \in PageStates /\ Current(R[i - 1])
    BY <1>1, <2>1
  <2>3. Open(absent, R[i - 1], i) \in PageStates
    BY <2>1, <2>2, OpenIs
  <2>4. i \in real => ev[i].type = "beacon_lost"
    BY <1>2 DEF Marked
  <2>5. TileOpen(absent, Tile(R[i - 1]), i) = Tile(Open(absent, R[i - 1], i))
    BY <2>1, <2>2, TileOpenIs
  <2>6. TileEnter(ev, real, Tile(Open(absent, R[i - 1], i)), i) = Tile(Enter(ev, real, Open(absent, R[i - 1], i), i))
    BY <2>1, <2>3, <2>4, TileEnterIs
  <2>7. R[i] = Then(ev, real, absent, R[i - 1], i)
    BY <1>1
  <2>q. QED
    BY <2>5, <2>6, <2>7 DEF TileThen, Then
<1>5. \A i \in 0 .. n : f[i] = IF i = 0 THEN b ELSE TileThen(ev, real, absent, f[i - 1], i)
  <2>1. f[0] = b
    <3>1. 0 \in 0 .. n
      BY <1>0
    <3> HIDE DEF b
    <3>q. QED
      BY <1>1, <1>3, <3>1
  <2>2. ASSUME NEW i \in 1 .. n PROVE f[i] = TileThen(ev, real, absent, f[i - 1], i)
    <3>1. i \in 0 .. n /\ i - 1 \in 0 .. n
      BY <1>0
    <3>2. f[i] = Tile(R[i]) /\ f[i - 1] = Tile(R[i - 1])
      BY <3>1
    <3>q. QED
      BY <1>4, <3>2
  <2>3. \A i \in 0 .. n : i # 0 => i \in 1 .. n
    BY <1>0
  <2> HIDE DEF f, b
  <2>q. QED
    BY <2>1, <2>2, <2>3
<1>6. f = [i \in 0 .. n |-> IF i = 0 THEN b ELSE TileThen(ev, real, absent, f[i - 1], i)]
  <2> DEFINE g == [i \in 0 .. n |-> IF i = 0 THEN b ELSE TileThen(ev, real, absent, f[i - 1], i)]
  <2>1. f = [i \in 0 .. n |-> f[i]] /\ g = [i \in 0 .. n |-> g[i]]
    OBVIOUS
  <2>2. \A i \in 0 .. n : f[i] = g[i]
    <3> HIDE DEF f, b
    <3>q. QED
      BY <1>5
  <2> HIDE DEF f, g
  <2>3. f = g
    BY <2>1, <2>2
  <2>q. QED
    BY <2>3 DEF g
<1>7. TileLosses(ev) = real /\ TileAbsent(ev) = absent
  BY SameLosses, SameAbsence DEF real, absent
<1>8. TileSteps(ev, S)
  <2> HIDE DEF f
  <2>1. TileSteps(ev, f)
    BY <1>6, <1>7 DEF TileSteps, n
  <2>q. QED
    BY <2>1, TileReadingChosen
<1> HIDE DEF S
<1>9. \A i \in 0 .. n : S[i] = IF i = 0 THEN b ELSE TileThen(ev, real, absent, S[i - 1], i)
  BY <1>7, <1>8 DEF TileSteps, n
<1> DEFINE T == {i \in 0 .. n : S[i] = Tile(R[i])}
<1>10. 0 \in T
  <2>1. 0 \in 0 .. n
    BY <1>0
  <2> HIDE DEF b
  <2>q. QED
    BY <1>1, <1>3, <1>9, <2>1
<1>11. \A i \in 1 .. n : i - 1 \in T => i \in T
  <2> HIDE DEF b
  <2>q. QED
    BY <1>0, <1>4, <1>9
<1>12. 0 .. n \subseteq T
  <2> HIDE DEF T
  <2>q. QED
    BY <1>0, <1>10, <1>11, UpTo
<1>13. \A i \in 0 .. n : S[i] = Tile(R[i])
  BY <1>12
<1>q. QED
  BY <1>13 DEF S, R, n

(* For every journal, also one that no recorder writes, the tile shows the     *)
(* segment that the page has open: _last_segment with its two scans computes   *)
(* what passes 1, 1b and 2 of buildBlocks do.                                  *)
THEOREM TileIsPage ==
  ASSUME NEW ev, Journal(ev)
  PROVE  LastSegment(ev) = IF Segments(ev) = <<>> THEN NoSegment ELSE Last(Segments(ev))
<1>1. Len(ev) \in 0 .. Len(ev)
  BY DEF Journal
<1>2. TileReading(ev)[Len(ev)] = Tile(Reading(ev)[Len(ev)])
  BY <1>1, TileReadingIs
<1>q. QED
  BY <1>2, TileIs DEF LastSegment, Segments

-----------------------------------------------------------------------------
(* What the page shows at a record is the state of the pass behind it          *)

Later(s, t, i) ==
  /\ Len(s) <= Len(t)
  /\ \A b \in 1 .. Len(s) : t[b] = s[b]
  /\ \A b \in Len(s) + 1 .. Len(t) : t[b].start > i

LEMMA GrownLater ==
  ASSUME NEW s \in Seq(Marks), NEW t \in Seq(Marks), NEW u \in Seq(Marks), NEW i \in Nat, NEW k \in Nat, i < k,
         Later(s, t, i), Grown(t, u, k)
  PROVE  Later(s, u, i)
<1>1. Len(s) \in Nat /\ Len(t) \in Nat /\ Len(u) \in Nat
  OBVIOUS
<1>2. /\ Len(s) <= Len(t) /\ \A b \in 1 .. Len(s) : t[b] = s[b]
      /\ Len(t) <= Len(u) /\ \A b \in 1 .. Len(t) : u[b] = t[b]
  BY DEF Grown, Later
<1>3. \A b \in Len(s) + 1 .. Len(t) : t[b].start > i
  BY DEF Later
<1>4. \A b \in Len(t) + 1 .. Len(u) : u[b].start = k
  BY DEF Grown
<1>5. \A b \in 1 .. Len(s) : u[b] = s[b]
  <2>1. \A b \in 1 .. Len(s) : b \in 1 .. Len(t)
    BY <1>1, <1>2
  <2>q. QED
    BY <1>2, <2>1
<1>6. ASSUME NEW b \in Len(s) + 1 .. Len(u) PROVE u[b].start > i
  <2>1. CASE b <= Len(t)
    <3>1. b \in Len(s) + 1 .. Len(t) /\ b \in 1 .. Len(t)
      BY <1>1, <2>1
    <3>2. t[b].start > i /\ u[b] = t[b]
      BY <1>2, <1>3, <3>1
    <3>q. QED
      BY <3>2
  <2>2. CASE ~(b <= Len(t))
    <3>1. b \in Len(t) + 1 .. Len(u)
      BY <1>1, <2>2
    <3>2. u[b].start = k
      BY <1>4, <3>1
    <3>q. QED
      BY <3>2
  <2>q. QED
    BY <2>1, <2>2
<1>7. Len(s) <= Len(u)
  BY <1>1, <1>2
<1>q. QED
  BY <1>5, <1>6, <1>7 DEF Later

LEMMA LaterOn ==
  ASSUME NEW ev, Journal(ev), NEW i \in 0 .. Len(ev)
  PROVE  \A k \in i .. Len(ev) : Later(Reading(ev)[i].segs, Reading(ev)[k].segs, i)
<1> DEFINE n == Len(ev)
           R == Reading(ev)
<1>a. n \in Nat
  BY DEF Journal
<1>1. /\ \A k \in 0 .. n : R[k] \in PageStates
      /\ \A k \in 1 .. n : Grown(R[k - 1].segs, R[k].segs, k)
  BY ReadingIs
<1>b. i \in 0 .. n
  OBVIOUS
<1> HIDE DEF n, R
<1>0. n \in Nat /\ i \in 0 .. n /\ i \in Nat /\ n - i \in Nat
  BY <1>a, <1>b
<1>2. \A k \in 0 .. n : R[k].segs \in Seq(Marks)
  BY <1>1 DEF PageStates
<1> DEFINE T == {d \in 0 .. n - i : Later(R[i].segs, R[i + d].segs, i)}
<1>3. 0 \in T
  <2>1. Later(R[i].segs, R[i].segs, i)
    BY <1>0, <1>2 DEF Later
  <2>q. QED
    BY <1>0, <2>1
<1>4. ASSUME NEW d \in 1 .. n - i, d - 1 \in T PROVE d \in T
  <2> DEFINE k == i + d
  <2>1. k \in 1 .. n /\ k \in Nat /\ i < k /\ k - 1 = i + (d - 1) /\ k - 1 \in 0 .. n /\ k \in 0 .. n
    BY <1>0
  <2> HIDE DEF k
  <2>2. Later(R[i].segs, R[k - 1].segs, i)
    BY <1>4, <2>1
  <2>3. Grown(R[k - 1].segs, R[k].segs, k)
    BY <1>1, <2>1
  <2>4. Later(R[i].segs, R[k].segs, i)
    BY <1>0, <1>2, <2>1, <2>2, <2>3, GrownLater
  <2>5. Later(R[i].segs, R[i + d].segs, i)
    BY <2>4 DEF k
  <2>6. d \in 0 .. n - i
    BY <1>0
  <2>q. QED
    BY <2>5, <2>6
<1>5. 0 .. n - i \subseteq T
  <2> DEFINE m == n - i
  <2>1. m \in Nat /\ \A d \in 1 .. m : d - 1 \in T => d \in T
    BY <1>0, <1>4
  <2> HIDE DEF T, m
  <2>2. 0 .. m \subseteq T
    BY <1>3, <2>1, UpTo
  <2>q. QED
    BY <2>2 DEF m
<1>6. ASSUME NEW k \in i .. n PROVE Later(R[i].segs, R[k].segs, i)
  <2>1. k - i \in 0 .. n - i /\ i + (k - i) = k
    BY <1>0
  <2>2. Later(R[i].segs, R[i + (k - i)].segs, i)
    BY <1>5, <2>1
  <2>q. QED
    BY <2>1, <2>2
<1>q. QED
  BY <1>6 DEF n, R

LEMMA Starts ==
  ASSUME NEW ev, Journal(ev)
  PROVE  \A i \in 0 .. Len(ev) : \A b \in 1 .. Len(Reading(ev)[i].segs) : Reading(ev)[i].segs[b].start \in 1 .. i
<1> DEFINE n == Len(ev)
           R == Reading(ev)
<1>0. n \in Nat
  BY DEF Journal
<1>1. /\ \A k \in 0 .. n : R[k] \in PageStates
      /\ R[0] = Blank
      /\ \A k \in 1 .. n : Grown(R[k - 1].segs, R[k].segs, k)
  BY ReadingIs
<1> HIDE DEF n, R
<1>2. \A k \in 0 .. n : R[k].segs \in Seq(Marks)
  BY <1>1 DEF PageStates
<1> DEFINE T == {i \in 0 .. n : \A b \in 1 .. Len(R[i].segs) : R[i].segs[b].start \in 1 .. i}
<1>3. 0 \in T
  <2>1. R[0].segs = <<>>
    BY <1>1 DEF Blank
  <2>q. QED
    BY <1>0, <2>1
<1>4. ASSUME NEW i \in 1 .. n, i - 1 \in T PROVE i \in T
  <2>1. i - 1 \in 0 .. n /\ i \in 0 .. n
    BY <1>0
  <2> DEFINE s == R[i - 1].segs
             t == R[i].segs
  <2>2. Len(s) \in Nat /\ Len(t) \in Nat
    BY <1>2, <2>1
  <2>3. \A b \in 1 .. Len(s) : s[b].start \in 1 .. i - 1
    BY <1>4
  <2>4. Grown(s, t, i)
    BY <1>1
  <2> HIDE DEF s, t
  <2>5. ASSUME NEW b \in 1 .. Len(t) PROVE t[b].start \in 1 .. i
    <3>1. CASE b <= Len(s)
      <4>1. b \in 1 .. Len(s)
        BY <2>2, <3>1
      <4>2. t[b] = s[b] /\ s[b].start \in 1 .. i - 1
        BY <2>3, <2>4, <4>1 DEF Grown
      <4>q. QED
        BY <2>1, <4>2
    <3>2. CASE ~(b <= Len(s))
      <4>1. b \in Len(s) + 1 .. Len(t)
        BY <2>2, <3>2
      <4>q. QED
        BY <2>1, <2>4, <4>1 DEF Grown
    <3>q. QED
      BY <3>1, <3>2
  <2>q. QED
    BY <2>1, <2>5 DEF t
<1>5. 0 .. n \subseteq T
  <2> HIDE DEF T
  <2>q. QED
    BY <1>0, <1>3, <1>4, UpTo
<1>q. QED
  BY <1>5 DEF n, R

\* The segments behind record i are those of the page that start by it.
LEMMA SegmentsAt ==
  ASSUME NEW ev, Journal(ev), NEW i \in 0 .. Len(ev)
  PROVE  /\ {b \in DOMAIN Segments(ev) : Segments(ev)[b].start <= i} = 1 .. Len(Reading(ev)[i].segs)
         /\ \A b \in 1 .. Len(Reading(ev)[i].segs) : Segments(ev)[b] = Reading(ev)[i].segs[b]
<1> DEFINE n == Len(ev)
           s == Reading(ev)[i].segs
           t == Segments(ev)
<1>1. n \in i .. n /\ n \in 0 .. n /\ i \in Nat
  BY DEF Journal
<1>2. s \in Seq(Marks) /\ t \in Seq(Marks)
  <2>1. Reading(ev)[i] \in PageStates /\ Reading(ev)[n] \in PageStates
    BY <1>1, ReadingIs
  <2>q. QED
    BY <2>1 DEF PageStates, Segments
<1>3. Later(s, t, i)
  <2>1. Later(Reading(ev)[i].segs, Reading(ev)[n].segs, i)
    BY <1>1, LaterOn
  <2>q. QED
    BY <2>1 DEF Segments
<1>4. \A b \in 1 .. Len(s) : s[b].start \in 1 .. i
  BY Starts
<1> HIDE DEF s, t
<1>5. DOMAIN t = 1 .. Len(t) /\ Len(t) \in Nat /\ Len(s) \in Nat
  BY <1>2
<1>6. Len(s) <= Len(t) /\ (\A b \in 1 .. Len(s) : t[b] = s[b]) /\ (\A b \in Len(s) + 1 .. Len(t) : t[b].start > i)
  BY <1>3 DEF Later
<1>7. ASSUME NEW b \in 1 .. Len(s) PROVE b \in DOMAIN t /\ t[b].start <= i
  <2>1. b \in DOMAIN t /\ t[b] = s[b] /\ s[b].start \in 1 .. i
    BY <1>4, <1>5, <1>6
  <2>q. QED
    BY <1>1, <2>1
<1>8. ASSUME NEW b \in DOMAIN t, t[b].start <= i PROVE b \in 1 .. Len(s)
  <2>1. t[b] \in Marks
    BY <1>2
  <2>2. t[b].start \in Nat
    BY <2>1 DEF Marks
  <2>3. ~(t[b].start > i)
    BY <1>1, <1>8, <2>2
  <2>4. b \notin Len(s) + 1 .. Len(t)
    BY <1>6, <2>3
  <2>q. QED
    BY <1>5, <2>4
<1>9. {b \in DOMAIN t : t[b].start <= i} = 1 .. Len(s)
  BY <1>7, <1>8
<1>q. QED
  BY <1>6, <1>9 DEF s, t

LEMMA MaxBlock ==
  ASSUME NEW m \in Nat
  PROVE  Max({0} \cup 1 .. m) = m
<1> DEFINE T == {0} \cup 1 .. m
<1>1. T \in SUBSET (0 .. m) /\ T # {} /\ m \in T
  OBVIOUS
<1> HIDE DEF T
<1>2. Max(T) \in T /\ \A y \in T : y <= Max(T)
  BY <1>1, MaxOf
<1>3. Max(T) \in 0 .. m /\ m <= Max(T)
  BY <1>1, <1>2
<1>4. Max(T) = m
  BY <1>3
<1>q. QED
  BY <1>4 DEF T

\* The block of a record: none while power is unknown, then of the kind of that state.
LEMMA BlockIs ==
  ASSUME NEW ev, Journal(ev), NEW i \in 0 .. Len(ev)
  PROVE  LET b == BlockAt(Segments(ev), i)
             st == Reading(ev)[i]
         IN  /\ b = Len(st.segs)
             /\ b > 0 <=> st.charging # "none"
             /\ b > 0 => Segments(ev)[b].kind = Kind(st)
<1> DEFINE st == Reading(ev)[i]
           b == BlockAt(Segments(ev), i)
<1>1. st \in PageStates /\ Current(st)
  BY ReadingIs
<1>2. st.segs \in Seq(Marks) /\ Len(st.segs) \in Nat
  BY <1>1 DEF PageStates
<1>3. b = Len(st.segs)
  <2>1. {c \in DOMAIN Segments(ev) : Segments(ev)[c].start <= i} = 1 .. Len(st.segs)
    BY SegmentsAt
  <2> DEFINE m == Len(st.segs)
  <2> HIDE DEF m
  <2>2. Max({0} \cup {c \in DOMAIN Segments(ev) : Segments(ev)[c].start <= i}) = Max({0} \cup 1 .. m)
    BY <2>1 DEF m
  <2>3. m \in Nat
    BY <1>2 DEF m
  <2>q. QED
    BY <2>2, <2>3, MaxBlock DEF BlockAt, m
<1>4. \A c \in 1 .. Len(st.segs) : Segments(ev)[c] = st.segs[c]
  BY SegmentsAt
<1> HIDE DEF b, st
<1>5. b > 0 <=> st.segs # <<>>
  BY <1>2, <1>3
<1>6. st.segs # <<>> <=> st.charging # "none"
  BY <1>1 DEF Current
<1>7. ASSUME b > 0 PROVE Segments(ev)[b].kind = Kind(st)
  <2>1. Last(st.segs).kind = Kind(st) /\ Last(st.segs) = st.segs[b]
    BY <1>1, <1>3, <1>5, <1>6, <1>7 DEF Current, Last
  <2>2. b \in 1 .. Len(st.segs)
    BY <1>2, <1>3, <1>7
  <2>q. QED
    BY <1>4, <2>1, <2>2
<1>q. QED
  BY <1>3, <1>5, <1>6, <1>7 DEF b, st

-----------------------------------------------------------------------------
(* One record more does not change what was read up to a clear                 *)

Extends(ev, fv) == Len(fv) = Len(ev) + 1 /\ \A i \in 1 .. Len(ev) : fv[i] = ev[i]

LEMMA LossesBefore ==
  ASSUME NEW ev, NEW fv, Journal(ev), Journal(fv), Extends(ev, fv),
         NEW last \in 1 .. Len(ev), ev[last].type \in BEACON_CLEARS, NEW i \in 1 .. last
  PROVE  i \in RealLoss(fv) <=> i \in RealLoss(ev)
<1> DEFINE n == Len(ev)
<1>a. n \in Nat /\ DOMAIN ev = 1 .. n /\ Len(fv) = n + 1 /\ DOMAIN fv = 1 .. n + 1
  BY DEF Journal, Extends
<1>b. last \in 1 .. n
  OBVIOUS
<1>c. \A k \in 1 .. n : fv[k] = ev[k]
  BY DEF Extends
<1> HIDE DEF n
<1>0. last \in Nat /\ i \in Nat /\ i \in 1 .. n /\ i \in 1 .. n + 1
  BY <1>a, <1>b
<1>1. ASSUME i \in RealLoss(fv) PROVE i \in RealLoss(ev)
  <2>1. fv[i].type = "beacon_lost"
    BY <1>1 DEF RealLoss
  <2>2. PICK j \in i + 1 .. n + 1 : IsBeaconLostShutdown(fv[j]) /\ \A k \in i + 1 .. j - 1 : fv[k].type \notin BEACON_CLEARS
    BY <1>1, <1>a DEF RealLoss
  <2>3. i # last /\ j # last
    <3>1. fv[last].type \in BEACON_CLEARS
      BY <1>b, <1>c
    <3>q. QED
      BY <2>1, <2>2, <3>1 DEF BEACON_CLEARS, IsBeaconLostShutdown
  <2>4. last \notin i + 1 .. j - 1
    BY <1>b, <1>c, <2>2
  <2>5. j < last
    BY <1>0, <1>b, <2>3, <2>4
  <2>6. j \in i + 1 .. n /\ j \in 1 .. n /\ \A k \in i + 1 .. j - 1 : k \in 1 .. n
    BY <1>0, <1>a, <1>b, <2>5
  <2>7. IsBeaconLostShutdown(ev[j]) /\ \A k \in i + 1 .. j - 1 : ev[k].type \notin BEACON_CLEARS
    BY <1>c, <2>2, <2>6
  <2>q. QED
    BY <1>0, <1>a, <1>c, <2>1, <2>6, <2>7 DEF RealLoss, n
<1>2. ASSUME i \in RealLoss(ev) PROVE i \in RealLoss(fv)
  <2>1. ev[i].type = "beacon_lost"
    BY <1>2 DEF RealLoss
  <2>2. PICK j \in i + 1 .. n : IsBeaconLostShutdown(ev[j]) /\ \A k \in i + 1 .. j - 1 : ev[k].type \notin BEACON_CLEARS
    BY <1>2, <1>a DEF RealLoss, n
  <2>3. j \in i + 1 .. n + 1 /\ j \in 1 .. n /\ \A k \in i + 1 .. j - 1 : k \in 1 .. n
    BY <1>0, <1>a
  <2>4. IsBeaconLostShutdown(fv[j]) /\ \A k \in i + 1 .. j - 1 : fv[k].type \notin BEACON_CLEARS
    BY <1>c, <2>2, <2>3
  <2>q. QED
    BY <1>0, <1>a, <1>c, <2>1, <2>3, <2>4 DEF RealLoss
<1>q. QED
  BY <1>1, <1>2

\* A session without a clear that started by the clear ended before it.
LEMMA AbsenceBefore ==
  ASSUME NEW ev, NEW fv, Journal(ev), Journal(fv), Extends(ev, fv),
         NEW last \in 1 .. Len(ev), ev[last].type \in BEACON_CLEARS, NEW o \in 1 .. last
  PROVE  o \in AbsentSessionStart(fv) <=> o \in AbsentSessionStart(ev)
<1> DEFINE n == Len(ev)
           X == SessionOf(ev, o)
           Y == SessionOf(fv, o)
<1>a. n \in Nat /\ DOMAIN ev = 1 .. n /\ Len(fv) = n + 1 /\ DOMAIN fv = 1 .. n + 1
  BY DEF Journal, Extends
<1>b. last \in 1 .. n
  OBVIOUS
<1>c. \A k \in 1 .. n : fv[k] = ev[k]
  BY DEF Extends
<1> HIDE DEF n
<1>0. last \in Nat /\ o \in Nat /\ o \in 1 .. n /\ o \in 1 .. n + 1
  BY <1>a, <1>b
<1>1. \A i : i \in X <=> i \in o .. n /\ \A k \in o .. i : ev[k].type = "start" => k = o /\ i # o
  BY DEF SessionOf, n
<1>2. \A i : i \in Y <=> i \in o .. n + 1 /\ \A k \in o .. i : fv[k].type = "start" => k = o /\ i # o
  BY <1>a DEF SessionOf
<1> HIDE DEF X, Y
<1>3. ASSUME NEW i \in 1 .. n PROVE i \in X <=> i \in Y
  <2>1. \A k \in o .. i : fv[k] = ev[k]
    <3>1. \A k \in o .. i : k \in 1 .. n
      BY <1>0, <1>a
    <3>q. QED
      BY <1>c, <3>1
  <2>2. i \in o .. n <=> i \in o .. n + 1
    BY <1>0, <1>a
  <2>q. QED
    BY <1>1, <1>2, <2>1, <2>2
<1>4. ev[last].type \in BEACON_CLEARS /\ fv[last].type \in BEACON_CLEARS
  BY <1>b, <1>c
<1>5. CASE last \in X
  <2>1. last \in Y
    BY <1>3, <1>5, <1>b
  <2>q. QED
    BY <1>4, <1>5, <2>1 DEF AbsentSessionStart, X, Y
<1>6. CASE last \notin X
  <2>1. last \in o .. n
    BY <1>0, <1>a, <1>b
  <2>2. PICK s \in o .. last : ev[s].type = "start" /\ ~(s = o /\ last # o)
    BY <1>1, <1>6, <2>1
  <2>3. s # last /\ s \in 1 .. n
    <3>1. s # last
      BY <1>4, <2>2 DEF BEACON_CLEARS
    <3>2. s \in 1 .. n
      BY <1>0, <1>a, <1>b
    <3>q. QED
      BY <3>1, <3>2
  <2>4. n + 1 \notin Y
    <3>1. s \in o .. n + 1 /\ s # o /\ fv[s].type = "start"
      BY <1>0, <1>a, <1>b, <1>c, <2>2, <2>3
    <3>q. QED
      BY <1>2, <3>1
  <2>5. X = Y
    <3>1. X \subseteq 1 .. n /\ Y \subseteq 1 .. n
      <4>1. \A i \in Y : i \in 1 .. n + 1 /\ i # n + 1
        BY <1>0, <1>a, <1>2, <2>4
      <4>2. \A i \in 1 .. n + 1 : i # n + 1 => i \in 1 .. n
        BY <1>a
      <4>3. \A i \in X : i \in 1 .. n
        BY <1>0, <1>a, <1>1
      <4>q. QED
        BY <4>1, <4>2, <4>3
    <3>q. QED
      BY <1>3, <3>1
  <2>6. \A i \in X : ev[i] = fv[i]
    <3>1. \A i \in X : i \in 1 .. n
      BY <1>0, <1>a, <1>1
    <3>q. QED
      BY <1>c, <3>1
  <2> DEFINE U == {i \in X : ev[i].type = "shutdown"}
             V == {i \in Y : fv[i].type = "shutdown"}
  <2>7. U = V
    BY <2>5, <2>6
  <2>8. U # {} => ev[Max(U)] = fv[Max(U)]
    <3>1. U \in SUBSET (0 .. n)
      BY <1>0, <1>a, <1>1
    <3>2. U # {} => Max(U) \in U
      <4> HIDE DEF U
      <4>q. QED
        BY <1>a, <3>1, MaxOf
    <3>q. QED
      BY <2>6, <3>2
  <2>9. o \in {i \in DOMAIN ev : i = 1 \/ ev[i].type = "start"} <=> o \in {i \in DOMAIN fv : i = 1 \/ fv[i].type = "start"}
    BY <1>0, <1>a, <1>c
  <2>10. o \in AbsentSessionStart(ev) <=> /\ o \in {i \in DOMAIN ev : i = 1 \/ ev[i].type = "start"}
                                          /\ U # {} /\ IsBeaconLostShutdown(ev[Max(U)])
                                          /\ \A i \in X : ev[i].type \notin BEACON_CLEARS
    BY DEF AbsentSessionStart, X
  <2>11. o \in AbsentSessionStart(fv) <=> /\ o \in {i \in DOMAIN fv : i = 1 \/ fv[i].type = "start"}
                                          /\ V # {} /\ IsBeaconLostShutdown(fv[Max(V)])
                                          /\ \A i \in Y : fv[i].type \notin BEACON_CLEARS
    BY DEF AbsentSessionStart, Y
  <2>12. (\A i \in X : ev[i].type \notin BEACON_CLEARS) <=> (\A i \in Y : fv[i].type \notin BEACON_CLEARS)
    BY <2>5, <2>6
  <2> HIDE DEF U, V
  <2>q. QED
    BY <2>7, <2>8, <2>9, <2>10, <2>11, <2>12
<1>q. QED
  BY <1>5, <1>6

LEMMA SameReading ==
  ASSUME NEW ev, NEW fv, Journal(ev), Journal(fv), Extends(ev, fv),
         NEW last \in 0 .. Len(ev), last > 0 => ev[last].type \in BEACON_CLEARS
  PROVE  Reading(fv)[last] = Reading(ev)[last]
<1> DEFINE R == Reading(ev)
           Q == Reading(fv)
           real == RealLoss(ev)
           absent == AbsentSessionStart(ev)
           real2 == RealLoss(fv)
           absent2 == AbsentSessionStart(fv)
           n == Len(ev)
<1>a. n \in Nat /\ last \in 0 .. n
  BY DEF Journal
<1>b. Len(fv) = n + 1
  BY DEF Extends
<1>c. \A i \in 1 .. n : fv[i] = ev[i]
  BY DEF Extends
<1>1. R[0] = Blank /\ \A i \in 1 .. n : R[i] = Then(ev, real, absent, R[i - 1], i)
  BY ReadingIs
<1>2. Q[0] = Blank /\ \A i \in 1 .. n + 1 : Q[i] = Then(fv, real2, absent2, Q[i - 1], i)
  BY <1>b, ReadingIs
<1>3. ASSUME NEW i \in 1 .. last
      PROVE  (i \in real2 <=> i \in real) /\ (i \in absent2 <=> i \in absent)
  <2>1. last \in 1 .. Len(ev) /\ ev[last].type \in BEACON_CLEARS
    BY <1>3, <1>a
  <2>q. QED
    BY <2>1, LossesBefore, AbsenceBefore
<1> HIDE DEF R, Q, real, absent, real2, absent2, n
<1>4. last \in Nat /\ \A i \in 1 .. last : i \in 1 .. n /\ i \in 1 .. n + 1
  BY <1>a
<1> DEFINE T == {i \in 0 .. last : Q[i] = R[i]}
<1>5. 0 \in T
  BY <1>1, <1>2, <1>4
<1>6. ASSUME NEW i \in 1 .. last, i - 1 \in T PROVE i \in T
  <2>1. Q[i - 1] = R[i - 1] /\ fv[i] = ev[i]
    BY <1>4, <1>6, <1>c
  <2>2. R[i] = Then(ev, real, absent, R[i - 1], i) /\ Q[i] = Then(fv, real2, absent2, R[i - 1], i)
    BY <1>1, <1>2, <1>4, <2>1
  <2>3. \A st : Open(absent, st, i) = Open(absent2, st, i)
    BY <1>3 DEF Open
  <2>4. \A st : Enter(ev, real, st, i) = Enter(fv, real2, st, i)
    BY <1>3, <2>1 DEF Enter
  <2>5. Then(ev, real, absent, R[i - 1], i) = Then(fv, real2, absent2, R[i - 1], i)
    BY <2>3, <2>4 DEF Then
  <2>q. QED
    BY <1>4, <2>2, <2>5
<1>7. 0 .. last \subseteq T
  <2> HIDE DEF T
  <2>q. QED
    BY <1>4, <1>5, <1>6, UpTo
<1>8. last \in T
  BY <1>4, <1>7
<1>q. QED
  BY <1>8 DEF Q, R

Until(segs, last) == {<<b, segs[b]>> : b \in {c \in DOMAIN segs : segs[c].start <= last}}

LEMMA UntilStands ==
  ASSUME NEW ev, NEW fv, Journal(ev), Journal(fv), Extends(ev, fv),
         NEW last \in 0 .. Len(ev), last > 0 => ev[last].type \in BEACON_CLEARS
  PROVE  Until(Segments(fv), last) = Until(Segments(ev), last)
<1> DEFINE s == Reading(ev)[last].segs
<1>1. Reading(fv)[last].segs = s
  BY SameReading
<1>2. last \in 0 .. Len(fv)
  BY DEF Extends, Journal
<1>3. /\ {b \in DOMAIN Segments(ev) : Segments(ev)[b].start <= last} = 1 .. Len(s)
      /\ \A b \in 1 .. Len(s) : Segments(ev)[b] = s[b]
  BY SegmentsAt
<1>4. /\ {b \in DOMAIN Segments(fv) : Segments(fv)[b].start <= last} = 1 .. Len(s)
      /\ \A b \in 1 .. Len(s) : Segments(fv)[b] = s[b]
  <2>1. /\ {b \in DOMAIN Segments(fv) : Segments(fv)[b].start <= last} = 1 .. Len(Reading(fv)[last].segs)
        /\ \A b \in 1 .. Len(Reading(fv)[last].segs) : Segments(fv)[b] = Reading(fv)[last].segs[b]
    BY <1>2, SegmentsAt
  <2> HIDE DEF s
  <2>q. QED
    BY <1>1, <2>1
<1> DEFINE D == 1 .. Len(s)
<1> HIDE DEF s, D
<1>5. Until(Segments(ev), last) = {<<b, Segments(ev)[b]>> : b \in D}
  BY <1>3 DEF Until, D
<1>6. Until(Segments(fv), last) = {<<b, Segments(fv)[b]>> : b \in D}
  BY <1>4 DEF Until, D
<1>7. \A b \in D : Segments(ev)[b] = Segments(fv)[b]
  BY <1>3, <1>4 DEF D
<1>q. QED
  BY <1>5, <1>6, <1>7

-----------------------------------------------------------------------------
(* The inductive invariant                                                     *)

Types == {"start", "charging_on", "charging_off", "beacon_found", "beacon_lost", "beacon_enabled",
          "beacon_disabled", "shutdown", "jpeg", "h264"}
Records == [type : Types, reason : {"none", "beacon_lost", "power_loss", "forced"}, clip : Clips \cup {"none"}]

TypeOK ==
  /\ power \in BOOLEAN /\ device \in {"off", "up", "dying"}
  /\ config \in [enabled : BOOLEAN, target : BOOLEAN]
  /\ mon \in [running : BOOLEAN, ever : BOOLEAN, silence : 0 .. 2, present : BOOLEAN]
  /\ reading \in {"none", "on", "off", "blocked"} /\ core \in {"none", "on", "off", "unknown"}
  /\ why \in {"none", "beacon_lost", "power_loss", "forced"}
  /\ mail \in Seq(Records) /\ journal \in Seq(Records)
  /\ touched \in BOOLEAN /\ missed \in BOOLEAN
  /\ since \in 0 .. Len(journal)

\* No record of s behind place i is of one of the types.
NoneBehind(s, i, types) == \A k \in i + 1 .. Len(s) : s[k].type \notin types
NoneOf(s, types) == \A k \in DOMAIN s : s[k].type \notin types

Silent == device = "off" => mail = <<>>

\* The bus carries the records of the power plugin only.
Carried == NoneOf(mail, {"start", "charging_on", "charging_off", "jpeg", "h264"})

\* A running device has no shutdown on its way, and the journal opens a session after each one.
Opened ==
  device = "up" =>
    /\ NoneOf(mail, {"shutdown"})
    /\ \A i \in DOMAIN journal :
         journal[i].type = "shutdown" => \E k \in i + 1 .. Len(journal) : journal[k].type = "start"

Powered ==
  core = "on" =>
    \E i \in DOMAIN journal :
      journal[i].type = "charging_on" /\ NoneBehind(journal, i, {"charging_on", "charging_off"})

Monitor ==
  /\ mon.present => mon.running /\ mon.ever /\ mon.silence < 2
  /\ mon.running => Active

\* From a blocking reading on the monitor reports no loss any more.
Blocked == reading = "blocked" \/ (device = "dying" /\ why = "beacon_lost") => (mon.present => IsPresent)

\* A beacon that is reported present has a record that says so, in this session, if none was lost.
Found ==
  device # "off" /\ mon.present /\ ~missed /\ NoneOf(mail, BEACON_CLEARS) =>
    \E c \in DOMAIN journal : journal[c].type \in BEACON_CLEARS /\ NoneBehind(journal, c, {"start"})

\* With the beacon not in use, what is on its way ends with the record that says so.
EndsOff(s) ==
  \A k \in DOMAIN s :
    s[k].type # "shutdown" => \E l \in DOMAIN s : k <= l /\ s[l].type = "beacon_disabled"

Switched == ~Active => EndsOff(mail)

\* That record is not on its way, nor is it lost.
Off == ~Active /\ ~missed /\ NoneOf(mail, {"beacon_disabled"})

SomeLost(s) == \E k \in DOMAIN s : IsBeaconLostShutdown(s[k])

\* A shutdown for the beacon that is decided although it is not in use any more: the record is
\* in the journal, and no loss behind it.
Overtaken ==
  Off /\ (reading = "blocked" \/ SomeLost(mail)) =>
    \E c \in DOMAIN journal :
      journal[c].type = "beacon_disabled" /\ NoneBehind(journal, c, {"start", "beacon_lost"})

\* A shutdown for the beacon is answered: by a clear behind it, or by the switch in its session.
AnsweredAt(s, j) ==
  \/ \E c \in j + 1 .. Len(s) : s[c].type \in BEACON_CLEARS
  \/ \E c \in DOMAIN s :
       /\ c < j /\ s[c].type = "beacon_disabled" /\ NoneBehind(s, c, {"beacon_lost"})
       /\ \A k \in c + 1 .. j : s[k].type # "start"

Answered ==
  Off => \A j \in DOMAIN journal : IsBeaconLostShutdown(journal[j]) => AnsweredAt(journal, j)

\* What opens an absence that reaches the end of the journal.
Opens(o) == /\ o \in DOMAIN journal /\ journal[o].type \in {"start", "beacon_lost"}
            /\ NoneBehind(journal, o, BEACON_CLEARS \cup {"start"})

\* On its way are shutdowns alone, or a loss and shutdowns behind it.
AllDown(s) == \A k \in DOMAIN s : s[k].type = "shutdown"
LossLast(s) == \E m \in DOMAIN s : s[m].type = "beacon_lost" /\ \A k \in m + 1 .. Len(s) : s[k].type = "shutdown"

\* While the beacon is away, what was written since it is known is an absence.
Absence ==
  device # "off" /\ Active /\ ~mon.present /\ ~touched =>
    \/ AllDown(mail) /\ \E o \in 1 .. since + 1 : Opens(o)
    \/ LossLast(mail)

\* A shutdown for the beacon that no record of these types follows.
LostUntil(s, types) == \E m \in DOMAIN s : IsBeaconLostShutdown(s[m]) /\ NoneBehind(s, m, types)

\* The shutdown for the beacon is the last one, and no loss is reported behind it; unless the
\* beacon is back, or a record was lost since.
Dying ==
  device = "dying" /\ why = "beacon_lost" /\ ~mon.present /\ ~touched =>
    \/ LostUntil(mail, {"shutdown", "beacon_lost"})
    \/ /\ NoneOf(mail, {"shutdown", "beacon_lost"})
       /\ LostUntil(journal, {"start", "shutdown", "beacon_lost"})

\* An absence of the journal: from its opening o to the end e of its session.
Absent(o, e) ==
  /\ o \in DOMAIN journal /\ e \in o .. Len(journal) /\ journal[o].type \in {"start", "beacon_lost"}
  /\ \A k \in o + 1 .. e : journal[k].type \notin BEACON_CLEARS \cup {"start"}
  /\ Ends(journal, o, e)
  /\ IF e = Len(journal) THEN device = "off" ELSE journal[e + 1].type = "start"

Parked == \A i \in parked : i \in Nat /\ \E o \in 1 .. i : \E e \in i .. Len(journal) : Absent(o, e)

Inv == /\ TypeOK /\ Silent /\ Carried /\ Opened /\ Powered /\ Monitor /\ Blocked
       /\ Found /\ Switched /\ Overtaken /\ Answered /\ Absence /\ Dying /\ Parked

LEMMA SeqFacts ==
  ASSUME NEW S, NEW s \in Seq(S), NEW x \in S
  PROVE  /\ Len(s) \in Nat /\ DOMAIN s = 1 .. Len(s) /\ \A i \in 1 .. Len(s) : s[i] \in S
         /\ Append(s, x) \in Seq(S) /\ Len(Append(s, x)) = Len(s) + 1
         /\ DOMAIN Append(s, x) = 1 .. Len(s) + 1
         /\ \A i \in 1 .. Len(s) : Append(s, x)[i] = s[i]
         /\ Append(s, x)[Len(s) + 1] = x
OBVIOUS

LEMMA TailFacts ==
  ASSUME NEW S, NEW s \in Seq(S), s # <<>>
  PROVE  /\ Head(s) \in S /\ Head(s) = s[1] /\ 1 \in DOMAIN s
         /\ Tail(s) \in Seq(S) /\ Len(Tail(s)) = Len(s) - 1 /\ Len(Tail(s)) \in Nat
         /\ DOMAIN Tail(s) = 1 .. Len(s) - 1
         /\ \A i \in 1 .. Len(s) - 1 : Tail(s)[i] = s[i + 1] /\ i + 1 \in DOMAIN s
OBVIOUS

LEMMA EventIs ==
  /\ \A t \in Types : Event(t) \in Records /\ Event(t).type = t
  /\ \A r \in {"none", "beacon_lost", "power_loss", "forced"} :
       /\ Record("shutdown", r) \in Records /\ Record("shutdown", r).type = "shutdown"
       /\ Record("shutdown", r).reason = r
  /\ BeaconActive(FALSE) \in Records /\ BeaconActive(FALSE).type = "beacon_disabled"
  /\ BeaconActive(TRUE) \in Records /\ BeaconActive(TRUE).type = "beacon_enabled"
BY DEF Event, Record, Records, Types, BeaconActive

-----------------------------------------------------------------------------
(* The types                                                                   *)

LEMMA TypeInit == Init => TypeOK
<1> SUFFICES ASSUME Init PROVE TypeOK
  OBVIOUS
<1>1. config \in [enabled : BOOLEAN, target : BOOLEAN]
  <2>1. PICK e \in BOOLEAN : config = [enabled |-> e, target |-> TRUE]
    BY DEF Init
  <2>q. QED
    BY <2>1
<1>2. mon \in [running : BOOLEAN, ever : BOOLEAN, silence : 0 .. 2, present : BOOLEAN]
  BY DEF Init, Fresh
<1>3. journal = <<>> /\ mail = <<>> /\ <<>> \in Seq(Records) /\ Len(<<>>) = 0
  BY DEF Init
<1>4. since \in 0 .. Len(journal)
  <2>1. since = 0 /\ Len(journal) = 0
    BY <1>3 DEF Init
  <2>q. QED
    BY <2>1
<1>5. mail \in Seq(Records) /\ journal \in Seq(Records)
  BY <1>3
<1>q. QED
  BY <1>1, <1>2, <1>4, <1>5 DEF Init, TypeOK

LEMMA TypeNext == TypeOK /\ [Next]_vars => TypeOK'
<1> SUFFICES ASSUME TypeOK, [Next]_vars PROVE TypeOK'
  OBVIOUS
<1>1. /\ power \in BOOLEAN /\ device \in {"off", "up", "dying"}
      /\ config \in [enabled : BOOLEAN, target : BOOLEAN]
      /\ mon \in [running : BOOLEAN, ever : BOOLEAN, silence : 0 .. 2, present : BOOLEAN]
      /\ reading \in {"none", "on", "off", "blocked"} /\ core \in {"none", "on", "off", "unknown"}
      /\ why \in {"none", "beacon_lost", "power_loss", "forced"}
      /\ mail \in Seq(Records) /\ journal \in Seq(Records)
      /\ touched \in BOOLEAN /\ missed \in BOOLEAN /\ since \in 0 .. Len(journal)
  BY DEF TypeOK
<1>2. Len(journal) \in Nat
  BY <1>1
<1>w. ASSUME NEW e \in Records, Write(e)
      PROVE  journal' \in Seq(Records) /\ since' \in 0 .. Len(journal')
  <2>1. journal' = Append(journal, e) /\ since' = IF Away THEN since ELSE Len(journal) + 1
    BY <1>w DEF Write
  <2>2. journal' \in Seq(Records) /\ Len(journal') = Len(journal) + 1
    BY <1>1, <2>1
  <2>q. QED
    BY <1>1, <1>2, <2>1, <2>2
<1>u. ASSUME Unwritten PROVE journal' = journal /\ since' = since
  BY <1>u DEF Unwritten
<1>m. ASSUME NEW e \in Records PROVE Append(mail, e) \in Seq(Records)
  BY <1>1
<1>3. CASE Start
  <2>1. config.target \in BOOLEAN
    BY <1>1
  <2>2. journal' = Append(journal, Event("start")) /\ since' = Len(journal)
    BY <1>3 DEF Start
  <2>3. journal' \in Seq(Records) /\ since' \in 0 .. Len(journal')
    <3>1. Event("start") \in Records
      BY EventIs DEF Types
    <3>q. QED
      BY <1>1, <1>2, <2>2, <3>1
  <2>4. mail' \in Seq(Records)
    <3>1. <<BeaconActive(FALSE)>> \in Seq(Records) /\ <<>> \in Seq(Records)
      BY EventIs DEF BeaconActive, Types
    <3>q. QED
      BY <1>3, <3>1 DEF Start
  <2>5. mon' \in [running : BOOLEAN, ever : BOOLEAN, silence : 0 .. 2, present : BOOLEAN]
    <3>1. PICK b \in BOOLEAN : mon' = [running |-> b, ever |-> FALSE, silence |-> 0, present |-> FALSE]
      BY <1>3 DEF Start, Fresh
    <3>q. QED
      BY <3>1
  <2>6. power' \in BOOLEAN /\ device' = "up" /\ why' = "none" /\ reading' = "none" /\ core' = "none"
        /\ touched' = FALSE /\ config' = config /\ missed' = missed
    <3>1. power' \in {power, TRUE}
      BY <1>3 DEF Start
    <3>q. QED
      BY <1>1, <1>3, <3>1 DEF Start
  <2>7. since' \in 0 .. Len(journal') /\ config' \in [enabled : BOOLEAN, target : BOOLEAN] /\ missed' \in BOOLEAN
    BY <1>1, <2>3, <2>6
  <2>8. /\ power' \in BOOLEAN /\ device' \in {"off", "up", "dying"} /\ why' \in {"none", "beacon_lost", "power_loss", "forced"}
        /\ reading' \in {"none", "on", "off", "blocked"} /\ core' \in {"none", "on", "off", "unknown"}
        /\ touched' \in BOOLEAN
    BY <2>6
  <2> HIDE <2>6
  <2>q. QED
    BY <2>3, <2>4, <2>5, <2>7, <2>8 DEF TypeOK
<1>4. CASE PowerCut
  <2>1. power' \in BOOLEAN /\ Unwritten
        /\ UNCHANGED <<device, why, config, mon, reading, core, mail, touched, missed>>
    BY <1>4 DEF PowerCut
  <2>q. QED
    BY <1>1, <1>u, <2>1 DEF TypeOK
<1>5. CASE CheckCharging
  <2>1. PICK status \in {IF power THEN "on" ELSE "off", "unknown"} :
          /\ core' = status
          /\ IF status = "unknown" THEN Unwritten
             ELSE Write(Event(IF status = "on" THEN "charging_on" ELSE "charging_off"))
    BY <1>5 DEF CheckCharging
  <2>2. core' \in {"none", "on", "off", "unknown"}
    BY <2>1
  <2>3. journal' \in Seq(Records) /\ since' \in 0 .. Len(journal')
    <3>1. CASE status = "unknown"
      BY <1>1, <1>u, <2>1, <3>1
    <3>2. CASE status # "unknown"
      <4>1. Event("charging_on") \in Records /\ Event("charging_off") \in Records
        BY EventIs DEF Types
      <4>q. QED
        BY <1>w, <2>1, <3>2, <4>1
    <3>q. QED
      BY <3>1, <3>2
  <2>q. QED
    BY <1>1, <1>5, <2>2, <2>3 DEF CheckCharging, TypeOK
<1>6. CASE Detect
  <2>1. mon' \in [running : BOOLEAN, ever : BOOLEAN, silence : 0 .. 2, present : BOOLEAN]
    <3>1. mon' = [mon EXCEPT !.ever = TRUE, !.silence = 0]
      BY <1>6 DEF Detect
    <3>2. mon' = [running |-> mon.running, ever |-> TRUE, silence |-> 0, present |-> mon.present]
      BY <1>1, <3>1
    <3>3. mon.running \in BOOLEAN /\ mon.present \in BOOLEAN /\ 0 \in 0 .. 2
      BY <1>1
    <3>q. QED
      BY <3>2, <3>3
  <2>q. QED
    BY <1>1, <1>6, <1>u, <2>1 DEF Detect, TypeOK, bounds
<1>7. CASE Silence
  <2>1. mon' = [mon EXCEPT !.silence = @ + 1] /\ mon.silence < 2 /\ mon.silence \in 0 .. 2
    BY <1>1, <1>7 DEF Silence
  <2>2. mon.silence + 1 \in 0 .. 2
    BY <2>1
  <2>3. mon' \in [running : BOOLEAN, ever : BOOLEAN, silence : 0 .. 2, present : BOOLEAN]
    BY <1>1, <2>1, <2>2
  <2>q. QED
    BY <1>1, <1>7, <1>u, <2>3 DEF Silence, TypeOK, bounds
<1>8. CASE PresenceTick
  <2>1. IsPresent \in BOOLEAN
    BY <1>1 DEF IsPresent
  <2>2. mon' \in [running : BOOLEAN, ever : BOOLEAN, silence : 0 .. 2, present : BOOLEAN]
    <3>1. mon' = [mon EXCEPT !.present = IsPresent]
      BY <1>8 DEF PresenceTick
    <3>q. QED
      BY <1>1, <2>1, <3>1
  <2>3. mail' \in Seq(Records)
    <3>1. Event("beacon_found") \in Records /\ Event("beacon_lost") \in Records
      BY EventIs DEF Types
    <3>q. QED
      BY <1>8, <1>m, <3>1 DEF PresenceTick
  <2>4. touched' \in BOOLEAN
    BY <1>1, <1>8, <2>1 DEF PresenceTick
  <2>q. QED
    BY <1>1, <1>8, <1>u, <2>2, <2>3, <2>4 DEF PresenceTick, TypeOK, bounds
<1>9. CASE Configure
  <2>1. PICK enabled \in BOOLEAN, target \in BOOLEAN : config' = [enabled |-> enabled, target |-> target]
    BY <1>9 DEF Configure
  <2>2. config' \in [enabled : BOOLEAN, target : BOOLEAN]
    BY <2>1
  <2>3. mon' \in [running : BOOLEAN, ever : BOOLEAN, silence : 0 .. 2, present : BOOLEAN]
    <3>1. PICK b \in BOOLEAN : mon' = [running |-> b, ever |-> FALSE, silence |-> 0, present |-> FALSE]
      BY <1>9 DEF Configure, Fresh
    <3>q. QED
      BY <3>1
  <2>4. mail' \in Seq(Records)
    <3>1. mail' = Announced(config'.enabled /\ config'.target)
      BY <1>9 DEF Configure
    <3>2. \A b \in BOOLEAN : Announced(b) \in Seq(Records)
      <4>1. \A b \in BOOLEAN : BeaconActive(b) \in Records
        BY EventIs
      <4>q. QED
        BY <1>1, <1>m, <4>1 DEF Announced
    <3> DEFINE b == config'.enabled /\ config'.target
    <3>3. b \in BOOLEAN
      OBVIOUS
    <3> HIDE DEF b
    <3>4. mail' = Announced(b)
      BY <3>1 DEF b
    <3>q. QED
      BY <3>2, <3>3, <3>4
  <2>q. QED
    BY <1>1, <1>9, <1>u, <2>2, <2>3, <2>4 DEF Configure, TypeOK
<1>10. CASE Read
  <2>1. reading' \in {"none", "on", "off", "blocked"}
    BY <1>10 DEF Read
  <2>q. QED
    BY <1>1, <1>10, <1>u, <2>1 DEF Read, TypeOK, bounds
<1>11. CASE Decide
  <2>1. \/ UNCHANGED <<device, why, mail>>
        \/ device' = "dying" /\ why' \in {"beacon_lost", "power_loss"} /\ mail' = Append(mail, Record("shutdown", why'))
    BY <1>11 DEF Decide
  <2>2. mail' \in Seq(Records) /\ why' \in {"none", "beacon_lost", "power_loss", "forced"} /\ device' \in {"off", "up", "dying"}
    <3>1. Record("shutdown", "beacon_lost") \in Records /\ Record("shutdown", "power_loss") \in Records
      BY EventIs
    <3>q. QED
      BY <1>1, <1>m, <2>1, <3>1
  <2>q. QED
    BY <1>1, <1>11, <1>u, <2>2 DEF Decide, TypeOK, bounds
<1>12. CASE Forced
  <2>1. Record("shutdown", "forced") \in Records
    BY EventIs
  <2>q. QED
    BY <1>1, <1>12, <1>u, <1>m, <2>1 DEF Forced, TypeOK
<1>13. CASE Deliver
  <2>1. Head(mail) \in Records /\ Tail(mail) \in Seq(Records)
    BY <1>1, <1>13, TailFacts DEF Deliver
  <2>2. journal' \in Seq(Records) /\ since' \in 0 .. Len(journal')
    BY <1>13, <1>w, <2>1 DEF Deliver
  <2>3. missed' \in BOOLEAN /\ mail' \in Seq(Records)
    BY <1>1, <1>13, <2>1 DEF Deliver
  <2>q. QED
    BY <1>1, <1>13, <2>2, <2>3 DEF Deliver, TypeOK, bounds
<1>14. CASE PowerDown
  BY <1>1, <1>14, <1>u DEF PowerDown, TypeOK, bounds
<1>15. CASE Crash
  <2>1. mail' \in Seq(Records) /\ missed' \in BOOLEAN
    BY <1>1, <1>15 DEF Crash
  <2>q. QED
    BY <1>1, <1>15, <1>u, <2>1 DEF Crash, TypeOK
<1>16. CASE Recorded
  <2>1. PICK clip \in Clips, type \in {"jpeg", "h264"} : Write([Event(type) EXCEPT !.clip = clip])
    BY <1>16 DEF Recorded
  <2>2. [Event(type) EXCEPT !.clip = clip] \in Records
    BY DEF Event, Record, Records, Types
  <2>3. journal' \in Seq(Records) /\ since' \in 0 .. Len(journal')
    BY <1>w, <2>1, <2>2
  <2>q. QED
    BY <1>1, <1>16, <2>3 DEF Recorded, TypeOK, bounds
<1>17. CASE UNCHANGED vars
  BY <1>1, <1>17 DEF vars, history, bounds, TypeOK
<1>18. CASE Lost
  <2>1. mail' \in Seq(Records)
    BY <1>1, <1>18, TailFacts DEF Lost
  <2>2. missed' \in BOOLEAN /\ touched' \in BOOLEAN
    BY <1>1, <1>18 DEF Lost
  <2>q. QED
    BY <1>1, <1>18, <1>u, <2>1, <2>2 DEF Lost, TypeOK
<1>q. QED
  BY <1>3, <1>4, <1>5, <1>6, <1>7, <1>8, <1>9, <1>10, <1>11, <1>12, <1>13, <1>14, <1>15, <1>16, <1>17, <1>18 DEF Next

PlainTypes == {"charging_on", "charging_off", "jpeg", "h264"}

\* t is s, or s and one more record of the given types.
Grew(s, t, types) ==
  /\ Len(s) \in Nat /\ Len(t) \in Nat /\ DOMAIN s = 1 .. Len(s) /\ DOMAIN t = 1 .. Len(t)
  /\ Len(s) <= Len(t) /\ Len(t) <= Len(s) + 1
  /\ \A i \in 1 .. Len(s) : t[i] = s[i]
  /\ \A i \in Len(s) + 1 .. Len(t) : t[i].type \in types

LEMMA GrewNone ==
  ASSUME NEW s \in Seq(Records), NEW types
  PROVE  Grew(s, s, types)
BY DEF Grew

LEMMA GrewOne ==
  ASSUME NEW s \in Seq(Records), NEW e \in Records, NEW types, e.type \in types
  PROVE  Grew(s, Append(s, e), types)
<1>1. /\ Len(s) \in Nat /\ DOMAIN s = 1 .. Len(s) /\ Len(Append(s, e)) = Len(s) + 1
      /\ DOMAIN Append(s, e) = 1 .. Len(s) + 1
      /\ \A i \in 1 .. Len(s) : Append(s, e)[i] = s[i]
      /\ Append(s, e)[Len(s) + 1] = e
  BY SeqFacts
<1>2. \A i \in Len(s) + 1 .. Len(s) + 1 : i = Len(s) + 1
  BY <1>1
<1>q. QED
  BY <1>1, <1>2 DEF Grew

LEMMA GrewBehind ==
  ASSUME NEW s, NEW t, NEW types, NEW none, Grew(s, t, types), types \cap none = {},
         NEW i \in DOMAIN s, NoneBehind(s, i, none)
  PROVE  i \in DOMAIN t /\ t[i] = s[i] /\ NoneBehind(t, i, none)
<1>1. /\ Len(s) \in Nat /\ Len(t) \in Nat /\ i \in 1 .. Len(s) /\ DOMAIN t = 1 .. Len(t) /\ Len(s) <= Len(t)
      /\ t[i] = s[i]
  BY DEF Grew
<1>2. ASSUME NEW k \in i + 1 .. Len(t) PROVE t[k].type \notin none
  <2>1. CASE k <= Len(s)
    <3>1. k \in i + 1 .. Len(s) /\ k \in 1 .. Len(s)
      BY <1>1, <2>1
    <3>q. QED
      BY <3>1 DEF NoneBehind, Grew
  <2>2. CASE ~(k <= Len(s))
    <3>1. k \in Len(s) + 1 .. Len(t)
      BY <1>1, <2>2
    <3>q. QED
      BY <3>1 DEF Grew
  <2>q. QED
    BY <2>1, <2>2
<1>q. QED
  BY <1>1, <1>2 DEF NoneBehind

\* What an added record says of the sequence.
LEMMA Added ==
  ASSUME NEW s \in Seq(Records), NEW e \in Records
  PROVE  LET t == Append(s, e) IN
         /\ Len(t) \in DOMAIN t /\ t[Len(t)] = e /\ Len(t) = Len(s) + 1
         /\ \A i \in DOMAIN t : i = Len(t) \/ (i \in DOMAIN s /\ t[i] = s[i])
         /\ \A i \in DOMAIN s : i \in DOMAIN t /\ t[i] = s[i]
         /\ \A none : NoneBehind(t, Len(t), none)
         /\ \A none : NoneOf(t, none) <=> NoneOf(s, none) /\ e.type \notin none
<1> DEFINE t == Append(s, e)
<1>1. /\ Len(s) \in Nat /\ DOMAIN s = 1 .. Len(s) /\ Len(t) = Len(s) + 1 /\ DOMAIN t = 1 .. Len(s) + 1
      /\ \A i \in 1 .. Len(s) : t[i] = s[i]
      /\ t[Len(s) + 1] = e
  BY SeqFacts
<1> HIDE DEF t
<1>2. Len(t) \in DOMAIN t /\ t[Len(t)] = e /\ Len(t) = Len(s) + 1
  BY <1>1
<1>3. \A i \in DOMAIN t : i = Len(t) \/ (i \in DOMAIN s /\ t[i] = s[i])
  BY <1>1
<1>4. \A i \in DOMAIN s : i \in DOMAIN t /\ t[i] = s[i]
  BY <1>1
<1>5. \A none : NoneBehind(t, Len(t), none)
  <2>1. Len(t) + 1 .. Len(t) = {}
    BY <1>1
  <2>q. QED
    BY <2>1 DEF NoneBehind
<1>6. \A none : NoneOf(t, none) <=> NoneOf(s, none) /\ e.type \notin none
  BY <1>2, <1>3, <1>4 DEF NoneOf
<1>q. QED
  BY <1>2, <1>3, <1>4, <1>5, <1>6 DEF t

LEMMA NoneAdded ==
  ASSUME NEW s \in Seq(Records), NEW e \in Records, NEW none, NoneOf(s, none), e.type \notin none
  PROVE  NoneOf(Append(s, e), none)
BY Added

\* What a taken record leaves.
LEMMA Taken ==
  ASSUME NEW s \in Seq(Records), s # <<>>
  PROVE  /\ Head(s) \in Records /\ Tail(s) \in Seq(Records) /\ 1 \in DOMAIN s /\ Head(s) = s[1]
         /\ \A i \in DOMAIN Tail(s) : i + 1 \in DOMAIN s /\ Tail(s)[i] = s[i + 1] /\ i \in Nat
         /\ \A i \in DOMAIN s : i \in Nat /\ (i = 1 \/ (i - 1 \in DOMAIN Tail(s) /\ Tail(s)[i - 1] = s[i]))
         /\ \A none : NoneOf(s, none) <=> NoneOf(Tail(s), none) /\ Head(s).type \notin none
<1>1. /\ Head(s) \in Records /\ Head(s) = s[1] /\ 1 \in DOMAIN s
      /\ Tail(s) \in Seq(Records) /\ Len(Tail(s)) = Len(s) - 1 /\ Len(Tail(s)) \in Nat
      /\ DOMAIN Tail(s) = 1 .. Len(s) - 1
      /\ \A i \in 1 .. Len(s) - 1 : Tail(s)[i] = s[i + 1] /\ i + 1 \in DOMAIN s
  BY TailFacts
<1>2. DOMAIN s = 1 .. Len(s) /\ Len(s) \in Nat
  OBVIOUS
<1> DEFINE t == Tail(s)
<1> HIDE DEF t
<1>3. \A i \in DOMAIN t : i + 1 \in DOMAIN s /\ t[i] = s[i + 1] /\ i \in Nat
  BY <1>1, <1>2 DEF t
<1>4. \A i \in DOMAIN s : i \in Nat /\ (i = 1 \/ (i - 1 \in DOMAIN t /\ t[i - 1] = s[i]))
  <2>1. ASSUME NEW i \in DOMAIN s, i # 1 PROVE i - 1 \in DOMAIN t /\ t[i - 1] = s[i]
    <3>1. i - 1 \in 1 .. Len(s) - 1 /\ (i - 1) + 1 = i
      BY <1>2, <2>1
    <3>2. t[i - 1] = s[(i - 1) + 1]
      BY <1>1, <3>1 DEF t
    <3>q. QED
      BY <1>1, <3>1, <3>2 DEF t
  <2>q. QED
    BY <1>2, <2>1
<1>5. \A none : NoneOf(s, none) <=> NoneOf(t, none) /\ Head(s).type \notin none
  BY <1>1, <1>3, <1>4 DEF NoneOf
<1>q. QED
  BY <1>1, <1>3, <1>4, <1>5 DEF t

-----------------------------------------------------------------------------
(* The actions, by what they do to journal and mail                            *)

Same == UNCHANGED <<device, why, config, mon, reading, mail, touched, missed, parked>>

Plain == Unwritten \/ (device # "off" /\ \E e \in Records : e.type \in PlainTypes /\ Write(e))

LEMMA Quiet ==
  ASSUME PowerCut \/ CheckCharging \/ Recorded \/ UNCHANGED vars
  PROVE  Same /\ Plain
<1>1. CASE PowerCut
  BY <1>1 DEF PowerCut, Same, Plain
<1>2. CASE CheckCharging
  <2>1. Same
    BY <1>2 DEF CheckCharging, Same
  <2>2. Unwritten \/ Write(Event("charging_on")) \/ Write(Event("charging_off"))
    BY <1>2 DEF CheckCharging
  <2>3. /\ Event("charging_on") \in Records /\ Event("charging_on").type \in PlainTypes
        /\ Event("charging_off") \in Records /\ Event("charging_off").type \in PlainTypes
    BY EventIs DEF Types, PlainTypes
  <2>4. device # "off"
    BY <1>2 DEF CheckCharging
  <2>q. QED
    BY <2>1, <2>2, <2>3, <2>4 DEF Plain
<1>3. CASE Recorded
  <2>1. Same
    BY <1>3 DEF Recorded, Same
  <2>2. PICK clip \in Clips, type \in {"jpeg", "h264"} : Write([Event(type) EXCEPT !.clip = clip])
    BY <1>3 DEF Recorded
  <2> DEFINE e == [Event(type) EXCEPT !.clip = clip]
  <2>3. e \in Records /\ e.type \in PlainTypes
    BY DEF Event, Record, Records, Types, PlainTypes
  <2> HIDE DEF e
  <2>4. Write(e)
    BY <2>2 DEF e
  <2>5. device # "off"
    BY <1>3 DEF Recorded
  <2>q. QED
    BY <2>1, <2>3, <2>4, <2>5 DEF Plain
<1>4. CASE UNCHANGED vars
  BY <1>4 DEF vars, history, Same, Plain, Unwritten
<1>q. QED
  BY <1>1, <1>2, <1>3, <1>4

LEMMA PlainGrew ==
  ASSUME TypeOK, Plain
  PROVE  Grew(journal, journal', PlainTypes)
<1>1. journal \in Seq(Records)
  BY DEF TypeOK
<1>2. CASE Unwritten
  BY <1>1, <1>2, GrewNone DEF Unwritten
<1>3. ASSUME NEW e \in Records, e.type \in PlainTypes, Write(e) PROVE Grew(journal, journal', PlainTypes)
  BY <1>1, <1>3, GrewOne DEF Write
<1>q. QED
  BY <1>2, <1>3 DEF Plain

\* The other actions, but for what they do to the monitor.
LEMMA Kept ==
  /\ Detect \/ Silence \/ Read => UNCHANGED <<device, why, config, mail, touched, missed, parked, journal, since>>
  /\ PresenceTick => UNCHANGED <<device, why, config, reading, missed, parked, journal, since>>
  /\ Configure => UNCHANGED <<device, why, reading, missed, parked, journal, since>>
  /\ Decide => UNCHANGED <<config, mon, touched, missed, parked, journal, since>>
  /\ Forced => UNCHANGED <<config, mon, reading, touched, missed, parked, journal, since>>
  /\ PowerDown => UNCHANGED <<why, config, mon, reading, mail, touched, missed, journal, since>>
  /\ Crash => UNCHANGED <<why, config, mon, reading, touched, parked, journal, since>>
  /\ Lost => UNCHANGED <<device, why, config, mon, reading, parked, journal, since>>
BY DEF Detect, Silence, Read, PresenceTick, Configure, Decide, Forced, PowerDown, Crash, Lost, Unwritten

Calm == Same /\ Plain

-----------------------------------------------------------------------------
(* The clauses of the invariant, one at a time                                 *)

LEMMA Cases ==
  ASSUME [Next]_vars
  PROVE  \/ Calm \/ Start \/ Detect \/ Silence \/ PresenceTick \/ Configure \/ Read \/ Decide \/ Forced
         \/ Deliver \/ Lost \/ PowerDown \/ Crash
<1>1. PowerCut \/ CheckCharging \/ Recorded \/ UNCHANGED vars => Calm
  BY Quiet DEF Calm
<1>q. QED
  BY <1>1 DEF Next

LEMMA SilentNext ==
  ASSUME Silent, [Next]_vars
  PROVE  Silent'
<1>1. CASE Calm
  BY <1>1 DEF Calm, Same, Silent
<1>2. CASE Start
  BY <1>2 DEF Start, Silent
<1>3. CASE Detect \/ Silence \/ PresenceTick \/ Configure \/ Read
  BY <1>3 DEF Detect, Silence, PresenceTick, Configure, Read, Silent
<1>4. CASE Decide \/ Forced \/ Deliver \/ Lost
  BY <1>4 DEF Decide, Forced, Deliver, Lost, Silent
<1>5. CASE PowerDown \/ Crash
  BY <1>5 DEF PowerDown, Crash, Silent
<1>q. QED
  BY <1>1, <1>2, <1>3, <1>4, <1>5, Cases

LEMMA CarriedNext ==
  ASSUME TypeOK, Carried, [Next]_vars
  PROVE  Carried'
<1> DEFINE none == {"start", "charging_on", "charging_off", "jpeg", "h264"}
<1>1. mail \in Seq(Records) /\ NoneOf(mail, none)
  BY DEF TypeOK, Carried
<1>2. ASSUME NEW e \in Records, e.type \notin none, mail' = Append(mail, e) PROVE NoneOf(mail', none)
  <2> HIDE DEF none
  <2>q. QED
    BY <1>1, <1>2, Added
<1>3. /\ Event("beacon_found") \in Records /\ Event("beacon_found").type \notin none
      /\ Event("beacon_lost") \in Records /\ Event("beacon_lost").type \notin none
      /\ Event("beacon_enabled") \in Records /\ Event("beacon_enabled").type \notin none
      /\ Event("beacon_disabled") \in Records /\ Event("beacon_disabled").type \notin none
  BY EventIs DEF Types
<1>4. /\ Record("shutdown", "beacon_lost") \in Records /\ Record("shutdown", "beacon_lost").type \notin none
      /\ Record("shutdown", "power_loss") \in Records /\ Record("shutdown", "power_loss").type \notin none
      /\ Record("shutdown", "forced") \in Records /\ Record("shutdown", "forced").type \notin none
  BY EventIs
<1>5. mail' = mail => NoneOf(mail', none)
  BY <1>1
<1>6. mail' = <<>> => NoneOf(mail', none)
  BY DEF NoneOf
<1> HIDE DEF none
<1>7. CASE Calm \/ Detect \/ Silence \/ Read \/ PowerDown
  BY <1>5, <1>7, Kept DEF Calm, Same, Carried, none
<1>8. CASE Start
  <2>1. mail' = <<>> \/ mail' = <<Event("beacon_disabled")>>
    BY <1>8 DEF Start, BeaconActive
  <2>2. NoneOf(<<Event("beacon_disabled")>>, none)
    BY <1>3 DEF NoneOf
  <2>q. QED
    BY <1>6, <2>1, <2>2 DEF Carried, none
<1>9. CASE PresenceTick
  <2>1. mail' = Append(mail, Event("beacon_found")) \/ mail' = Append(mail, Event("beacon_lost"))
    BY <1>9 DEF PresenceTick
  <2>q. QED
    BY <1>2, <1>3, <2>1 DEF Carried, none
<1>10. CASE Configure
  <2>1. mail' = mail \/ mail' = Append(mail, Event("beacon_enabled")) \/ mail' = Append(mail, Event("beacon_disabled"))
    BY <1>10 DEF Configure, Announced, BeaconActive
  <2>q. QED
    BY <1>2, <1>3, <1>5, <2>1 DEF Carried, none
<1>11. CASE Decide
  <2>1. mail' = mail \/ mail' = Append(mail, Record("shutdown", "beacon_lost"))
        \/ mail' = Append(mail, Record("shutdown", "power_loss"))
    BY <1>11 DEF Decide
  <2>q. QED
    BY <1>2, <1>4, <1>5, <2>1 DEF Carried, none
<1>12. CASE Forced
  <2>1. mail' = Append(mail, Record("shutdown", "forced"))
    BY <1>12 DEF Forced
  <2>q. QED
    BY <1>2, <1>4, <2>1 DEF Carried, none
<1>13. CASE Deliver \/ Lost
  <2>1. mail # <<>> /\ mail' = Tail(mail)
    BY <1>13 DEF Deliver, Lost
  <2>q. QED
    BY <1>1, <2>1, Taken DEF Carried, none
<1>14. CASE Crash
  BY <1>6, <1>14 DEF Crash, Carried, none
<1>q. QED
  BY <1>7, <1>8, <1>9, <1>10, <1>11, <1>12, <1>13, <1>14, Cases

\* No record but a shutdown breaks this clause, and a start restores it.
LEMMA OpenedGrew ==
  ASSUME NEW s, NEW t, NEW types, Grew(s, t, types), "shutdown" \notin types,
         \A i \in DOMAIN s : s[i].type = "shutdown" => \E k \in i + 1 .. Len(s) : s[k].type = "start"
  PROVE  \A i \in DOMAIN t : t[i].type = "shutdown" => \E k \in i + 1 .. Len(t) : t[k].type = "start"
<1> SUFFICES ASSUME NEW i \in DOMAIN t, t[i].type = "shutdown"
             PROVE  \E k \in i + 1 .. Len(t) : t[k].type = "start"
  OBVIOUS
<1>1. Len(s) \in Nat /\ Len(t) \in Nat /\ i \in 1 .. Len(t) /\ DOMAIN s = 1 .. Len(s) /\ Len(s) <= Len(t)
  BY DEF Grew
<1>2. i <= Len(s)
  <2>1. i \in Len(s) + 1 .. Len(t) => t[i].type \in types
    BY DEF Grew
  <2>q. QED
    BY <1>1, <2>1
<1>3. i \in DOMAIN s /\ s[i] = t[i]
  BY <1>1, <1>2 DEF Grew
<1>4. PICK k \in i + 1 .. Len(s) : s[k].type = "start"
  BY <1>3
<1>5. k \in 1 .. Len(s) /\ k \in i + 1 .. Len(t)
  BY <1>1
<1>6. t[k].type = "start"
  BY <1>4, <1>5 DEF Grew
<1>q. QED
  BY <1>5, <1>6

LEMMA OpenedNext ==
  ASSUME TypeOK, Opened, [Next]_vars
  PROVE  Opened'
<1>1. journal \in Seq(Records) /\ mail \in Seq(Records)
  BY DEF TypeOK
<1>2. CASE Calm
  <2>1. Grew(journal, journal', PlainTypes) /\ "shutdown" \notin PlainTypes
    BY <1>2, PlainGrew DEF Calm, PlainTypes
  <2>2. UNCHANGED <<device, mail>>
    BY <1>2 DEF Calm, Same
  <2>3. CASE device = "up"
    <3>1. \A i \in DOMAIN journal' :
            journal'[i].type = "shutdown" => \E k \in i + 1 .. Len(journal') : journal'[k].type = "start"
      BY <2>1, <2>3, OpenedGrew DEF Opened
    <3>q. QED
      BY <2>2, <2>3, <3>1 DEF Opened
  <2>4. CASE device # "up"
    BY <2>2, <2>4 DEF Opened
  <2>q. QED
    BY <2>3, <2>4
<1>3. CASE Start
  <2>1. journal' = Append(journal, Event("start")) /\ (mail' = <<>> \/ mail' = <<BeaconActive(FALSE)>>)
    BY <1>3 DEF Start
  <2>2. NoneOf(mail', {"shutdown"})
    <3>1. Event("beacon_disabled").type # "shutdown"
      BY EventIs DEF Types
    <3>2. NoneOf(<<Event("beacon_disabled")>>, {"shutdown"}) /\ NoneOf(<<>>, {"shutdown"})
      BY <3>1 DEF NoneOf
    <3>q. QED
      BY <2>1, <3>2 DEF BeaconActive
  <2>3. Event("start") \in Records /\ Event("start").type = "start"
    BY EventIs DEF Types
  <2> DEFINE t == Append(journal, Event("start"))
  <2>4. /\ Len(t) \in DOMAIN t /\ t[Len(t)].type = "start"
        /\ \A i \in DOMAIN t : i = Len(t) \/ i \in DOMAIN journal
        /\ Len(t) = Len(journal) + 1
    BY <1>1, <2>3, Added
  <2> HIDE DEF t
  <2>5. ASSUME NEW i \in DOMAIN t, t[i].type = "shutdown" PROVE \E k \in i + 1 .. Len(t) : t[k].type = "start"
    <3>1. i \in DOMAIN journal
      BY <2>4, <2>5
    <3>2. Len(journal) \in Nat /\ i \in 1 .. Len(journal)
      BY <1>1, <3>1
    <3>3. Len(t) \in i + 1 .. Len(t)
      BY <2>4, <3>2
    <3>q. QED
      BY <2>4, <3>3
  <2>q. QED
    BY <2>1, <2>2, <2>5 DEF Opened, t
<1>4. CASE Detect \/ Silence \/ Read
  BY <1>4, Kept DEF Opened
<1>5. CASE PresenceTick
  <2>1. mail' = Append(mail, Event("beacon_found")) \/ mail' = Append(mail, Event("beacon_lost"))
    BY <1>5 DEF PresenceTick
  <2>2. /\ Event("beacon_found") \in Records /\ Event("beacon_found").type # "shutdown"
        /\ Event("beacon_lost") \in Records /\ Event("beacon_lost").type # "shutdown"
    BY EventIs DEF Types
  <2>3. NoneOf(mail, {"shutdown"}) => NoneOf(mail', {"shutdown"})
    <3> DEFINE none == {"shutdown"}
    <3>1. \A e \in Records : e.type # "shutdown" => e.type \notin none
      OBVIOUS
    <3> HIDE DEF none
    <3>2. NoneOf(mail, none) => NoneOf(mail', none)
      BY <1>1, <2>1, <2>2, <3>1, NoneAdded
    <3>q. QED
      BY <3>2 DEF none
  <2>4. UNCHANGED <<device, journal>>
    BY <1>5, Kept
  <2>q. QED
    BY <2>3, <2>4 DEF Opened
<1>6. CASE Configure
  <2>1. mail' = mail \/ mail' = Append(mail, Event("beacon_enabled")) \/ mail' = Append(mail, Event("beacon_disabled"))
    BY <1>6 DEF Configure, Announced, BeaconActive
  <2>2. /\ Event("beacon_enabled") \in Records /\ Event("beacon_enabled").type # "shutdown"
        /\ Event("beacon_disabled") \in Records /\ Event("beacon_disabled").type # "shutdown"
    BY EventIs DEF Types
  <2>3. NoneOf(mail, {"shutdown"}) => NoneOf(mail', {"shutdown"})
    <3> DEFINE none == {"shutdown"}
    <3>1. \A e \in Records : e.type # "shutdown" => e.type \notin none
      OBVIOUS
    <3> HIDE DEF none
    <3>2. NoneOf(mail, none) => NoneOf(mail', none)
      BY <1>1, <2>1, <2>2, <3>1, NoneAdded
    <3>q. QED
      BY <3>2 DEF none
  <2>4. UNCHANGED <<device, journal>>
    BY <1>6, Kept
  <2>q. QED
    BY <2>3, <2>4 DEF Opened
<1>7. CASE Decide
  <2>1. (UNCHANGED <<device, mail>> \/ device' = "dying") /\ UNCHANGED journal
    BY <1>7, Kept DEF Decide
  <2>q. QED
    BY <2>1 DEF Opened
<1>8. CASE Forced \/ PowerDown \/ Crash
  BY <1>8 DEF Forced, PowerDown, Crash, Opened
<1>9. CASE Deliver
  <2>1. mail # <<>> /\ journal' = Append(journal, Head(mail)) /\ mail' = Tail(mail) /\ device' = device
    BY <1>9 DEF Deliver, Write
  <2>2. CASE device = "up"
    <3>1. NoneOf(mail, {"shutdown"})
      BY <2>2 DEF Opened
    <3>2. NoneOf(mail', {"shutdown"}) /\ Head(mail).type \notin {"shutdown"} /\ Head(mail) \in Records
      BY <1>1, <2>1, <3>1, Taken
    <3>3. Grew(journal, journal', {Head(mail).type}) /\ "shutdown" \notin {Head(mail).type}
      BY <1>1, <2>1, <3>2, GrewOne
    <3>4. \A i \in DOMAIN journal' :
            journal'[i].type = "shutdown" => \E k \in i + 1 .. Len(journal') : journal'[k].type = "start"
      BY <2>2, <3>3, OpenedGrew DEF Opened
    <3>q. QED
      BY <3>2, <3>4 DEF Opened
  <2>3. CASE device # "up"
    BY <2>1, <2>3 DEF Opened
  <2>q. QED
    BY <2>2, <2>3
<1>10. CASE Lost
  <2>1. mail # <<>> /\ mail' = Tail(mail) /\ UNCHANGED <<device, journal>>
    BY <1>10, Kept DEF Lost
  <2>2. NoneOf(mail, {"shutdown"}) => NoneOf(mail', {"shutdown"})
    BY <1>1, <2>1, Taken
  <2>q. QED
    BY <2>1, <2>2 DEF Opened
<1>q. QED
  BY <1>2, <1>3, <1>4, <1>5, <1>6, <1>7, <1>8, <1>9, <1>10, Cases

LEMMA PoweredNext ==
  ASSUME TypeOK, Carried, Powered, [Next]_vars
  PROVE  Powered'
<1> DEFINE none == {"charging_on", "charging_off"}
<1>1. journal \in Seq(Records)
  BY DEF TypeOK
<1>2. ASSUME core' = core, NEW types, types \cap none = {}, Grew(journal, journal', types) PROVE Powered'
  <2>1. SUFFICES ASSUME core = "on"
                 PROVE  \E i \in DOMAIN journal' :
                          journal'[i].type = "charging_on" /\ NoneBehind(journal', i, none)
    BY <1>2 DEF Powered
  <2>2. PICK i \in DOMAIN journal : journal[i].type = "charging_on" /\ NoneBehind(journal, i, none)
    BY <2>1 DEF Powered
  <2> HIDE DEF none
  <2>3. i \in DOMAIN journal' /\ journal'[i] = journal[i] /\ NoneBehind(journal', i, none)
    BY <1>2, <2>2, GrewBehind
  <2>q. QED
    BY <2>2, <2>3
<1>3. ASSUME core' = core, UNCHANGED journal PROVE Powered'
  BY <1>3 DEF Powered
<1>4. CASE PowerCut \/ Detect \/ Silence \/ PresenceTick \/ Configure \/ Read \/ Decide \/ Forced \/ PowerDown \/ Crash
           \/ Lost \/ UNCHANGED vars
  BY <1>3, <1>4 DEF PowerCut, Detect, Silence, PresenceTick, Configure, Read, Decide, Forced, PowerDown, Crash, Lost, vars, Unwritten
<1>5. CASE Start
  BY <1>5 DEF Start, Powered
<1>6. CASE CheckCharging
  <2>1. PICK status \in {IF power THEN "on" ELSE "off", "unknown"} :
          /\ core' = status
          /\ status # "unknown" => Write(Event(IF status = "on" THEN "charging_on" ELSE "charging_off"))
    BY <1>6 DEF CheckCharging
  <2>2. CASE status # "on"
    BY <2>1, <2>2 DEF Powered
  <2>3. CASE status = "on"
    <3>1. journal' = Append(journal, Event("charging_on"))
      BY <2>1, <2>3 DEF Write
    <3>2. Event("charging_on") \in Records /\ Event("charging_on").type = "charging_on"
      BY EventIs DEF Types
    <3>3. /\ Len(journal') \in DOMAIN journal' /\ journal'[Len(journal')].type = "charging_on"
          /\ NoneBehind(journal', Len(journal'), none)
      <4> HIDE DEF none
      <4>q. QED
        BY <1>1, <3>1, <3>2, Added
    <3>q. QED
      BY <3>3 DEF Powered
  <2>q. QED
    BY <2>2, <2>3
<1>7. CASE Recorded
  <2>1. PICK clip \in Clips, type \in {"jpeg", "h264"} : Write([Event(type) EXCEPT !.clip = clip])
    BY <1>7 DEF Recorded
  <2> DEFINE e == [Event(type) EXCEPT !.clip = clip]
  <2>2. e \in Records /\ e.type \in {"jpeg", "h264"}
    BY DEF Event, Record, Records, Types
  <2>3. journal' = Append(journal, e)
    BY <2>1 DEF Write
  <2> HIDE DEF e
  <2>4. Grew(journal, journal', {"jpeg", "h264"})
    BY <1>1, <2>2, <2>3, GrewOne
  <2>5. core' = core /\ {"jpeg", "h264"} \cap none = {}
    BY <1>7 DEF Recorded
  <2>q. QED
    BY <1>2, <2>4, <2>5
<1>8. CASE Deliver
  <2>1. /\ mail # <<>> /\ journal' = Append(journal, Head(mail)) /\ mail' = Tail(mail) /\ core' = core
    BY <1>8 DEF Deliver, Write
  <2>2. Head(mail) \in Records /\ Head(mail).type \notin {"start", "charging_on", "charging_off", "jpeg", "h264"}
    BY <2>1, Taken DEF Carried, TypeOK
  <2>3. Grew(journal, journal', {Head(mail).type}) /\ {Head(mail).type} \cap none = {}
    BY <1>1, <2>1, <2>2, GrewOne
  <2>q. QED
    BY <1>2, <2>1, <2>3
<1>q. QED
  BY <1>4, <1>5, <1>6, <1>7, <1>8 DEF Next

LEMMA MonitorNext ==
  ASSUME TypeOK, Monitor, [Next]_vars
  PROVE  Monitor'
<1>1. /\ mon \in [running : BOOLEAN, ever : BOOLEAN, silence : 0 .. 2, present : BOOLEAN]
      /\ mon.running \in BOOLEAN /\ mon.ever \in BOOLEAN /\ mon.silence \in 0 .. 2 /\ mon.present \in BOOLEAN
  BY DEF TypeOK
<1>2. (mon.present => mon.running /\ mon.ever /\ mon.silence < 2) /\ (mon.running => Active)
  BY DEF Monitor
<1>3. CASE Calm \/ Read \/ Decide \/ Forced \/ Deliver \/ Lost \/ PowerDown \/ Crash
  <2>1. UNCHANGED <<mon, config>>
    BY <1>3, Kept DEF Calm, Same, Read, Deliver
  <2>q. QED
    BY <2>1 DEF Monitor, Active
<1>4. CASE Start \/ Configure
  <2>1. /\ mon' = Fresh(TRUE) \/ mon' = Fresh(FALSE)
        /\ mon' = Fresh(FALSE) \/ Active'
    BY <1>4 DEF Start, Configure, Active
  <2>2. /\ mon'.present = FALSE
        /\ mon'.running => Active'
    BY <2>1 DEF Fresh
  <2>q. QED
    BY <2>2 DEF Monitor
<1>5. CASE Detect
  <2>1. mon' = [mon EXCEPT !.ever = TRUE, !.silence = 0] /\ config' = config
    BY <1>5 DEF Detect
  <2>2. mon'.running = mon.running /\ mon'.ever = TRUE /\ mon'.silence = 0 /\ mon'.present = mon.present
    BY <1>1, <2>1
  <2>q. QED
    BY <1>2, <2>1, <2>2 DEF Monitor, Active
<1>6. CASE Silence
  <2>1. mon' = [mon EXCEPT !.silence = @ + 1] /\ config' = config /\ (mon.running => mon.present = IsPresent)
    BY <1>6 DEF Silence
  <2>2. mon'.running = mon.running /\ mon'.ever = mon.ever /\ mon'.silence = mon.silence + 1 /\ mon'.present = mon.present
    BY <1>1, <2>1
  <2>3. mon.present => mon.silence = 0
    BY <1>2, <2>1 DEF IsPresent
  <2>4. mon'.present => mon'.running /\ mon'.ever /\ mon'.silence < 2
    BY <1>2, <2>2, <2>3
  <2>q. QED
    BY <1>2, <2>1, <2>2, <2>4 DEF Monitor, Active
<1>7. CASE PresenceTick
  <2>1. mon' = [mon EXCEPT !.present = IsPresent] /\ config' = config /\ mon.running
    BY <1>7 DEF PresenceTick
  <2>2. mon'.running = mon.running /\ mon'.ever = mon.ever /\ mon'.silence = mon.silence /\ mon'.present = IsPresent
    BY <1>1, <2>1
  <2>3. mon'.present => mon'.running /\ mon'.ever /\ mon'.silence < 2
    <3>1. IsPresent => mon.ever /\ mon.silence < 2
      BY DEF IsPresent
    <3>q. QED
      BY <2>1, <2>2, <3>1
  <2>q. QED
    BY <1>2, <2>1, <2>2, <2>3 DEF Monitor, Active
<1>q. QED
  BY <1>3, <1>4, <1>5, <1>6, <1>7, Cases

LEMMA BlockedNext ==
  ASSUME TypeOK, Monitor, Blocked, [Next]_vars
  PROVE  Blocked'
<1>1. /\ mon \in [running : BOOLEAN, ever : BOOLEAN, silence : 0 .. 2, present : BOOLEAN]
      /\ mon.running \in BOOLEAN /\ mon.ever \in BOOLEAN /\ mon.silence \in 0 .. 2 /\ mon.present \in BOOLEAN
  BY DEF TypeOK
<1>2. mon.present => mon.running /\ mon.ever /\ mon.silence < 2
  BY DEF Monitor
<1>3. CASE Calm \/ Deliver \/ Lost
  <2>1. UNCHANGED <<mon, reading, device, why>>
    BY <1>3, Kept DEF Calm, Same, Deliver
  <2>q. QED
    BY <2>1 DEF Blocked, IsPresent
<1>4. CASE Start \/ Configure
  <2>1. mon' = Fresh(TRUE) \/ mon' = Fresh(FALSE)
    BY <1>4 DEF Start, Configure
  <2>2. mon'.present = FALSE
    BY <2>1 DEF Fresh
  <2>q. QED
    BY <2>2 DEF Blocked
<1>5. CASE Detect
  <2>1. mon' = [mon EXCEPT !.ever = TRUE, !.silence = 0]
    BY <1>5 DEF Detect
  <2>2. mon'.ever = TRUE /\ mon'.silence = 0
    BY <1>1, <2>1
  <2>q. QED
    BY <2>2 DEF Blocked, IsPresent
<1>6. CASE Silence
  <2>1. device' = "up" /\ reading' # "blocked"
    BY <1>6 DEF Silence
  <2>q. QED
    BY <2>1 DEF Blocked
<1>7. CASE PresenceTick
  <2>1. mon' = [mon EXCEPT !.present = IsPresent]
    BY <1>7 DEF PresenceTick
  <2>2. mon'.ever = mon.ever /\ mon'.silence = mon.silence /\ mon'.present = IsPresent
    BY <1>1, <2>1
  <2>q. QED
    BY <2>2 DEF Blocked, IsPresent
<1>8. CASE Read
  <2>1. UNCHANGED <<mon, device>> /\ device = "up" /\ (reading' = "blocked" => BeaconBlocksPower)
    BY <1>8 DEF Read
  <2>2. IsLost => ~mon.present
    BY <1>1, <1>2 DEF IsLost
  <2>q. QED
    BY <2>1, <2>2 DEF Blocked, BeaconBlocksPower
<1>9. CASE Decide
  <2>1. /\ UNCHANGED mon /\ reading' = "none" /\ device = "up"
        /\ \/ device' = "up"
           \/ device' = "dying" /\ (why' = "beacon_lost" => reading = "blocked")
    BY <1>9 DEF Decide
  <2>q. QED
    BY <2>1 DEF Blocked, IsPresent
<1>10. CASE Forced
  <2>1. UNCHANGED <<mon, reading>> /\ why' = "forced"
    BY <1>10 DEF Forced
  <2>q. QED
    BY <2>1 DEF Blocked, IsPresent
<1>11. CASE PowerDown \/ Crash
  <2>1. UNCHANGED <<mon, reading>> /\ device' = "off"
    BY <1>11 DEF PowerDown, Crash
  <2>q. QED
    BY <2>1 DEF Blocked, IsPresent
<1>q. QED
  BY <1>3, <1>4, <1>5, <1>6, <1>7, <1>8, <1>9, <1>10, <1>11, Cases

\* A delivered record is the journal's last.
LEMMA Delivered ==
  ASSUME TypeOK, Deliver
  PROVE  /\ mail # <<>> /\ Head(mail) \in Records /\ mail' = Tail(mail) /\ journal' = Append(journal, Head(mail))
         /\ Len(journal') \in DOMAIN journal' /\ journal'[Len(journal')] = Head(mail)
         /\ \A none : NoneBehind(journal', Len(journal'), none)
         /\ \A none : NoneOf(mail, none) <=> NoneOf(mail', none) /\ Head(mail).type \notin none
         /\ \A types : Head(mail).type \in types => Grew(journal, journal', types)
         /\ UNCHANGED <<device, why, config, mon, reading, touched>>
<1>1. mail # <<>> /\ mail' = Tail(mail) /\ journal' = Append(journal, Head(mail))
      /\ UNCHANGED <<device, why, config, mon, reading, touched>>
  BY DEF Deliver, Write
<1>2. mail \in Seq(Records) /\ journal \in Seq(Records)
  BY DEF TypeOK
<1> DEFINE e == Head(mail)
<1>3. e \in Records /\ \A none : NoneOf(mail, none) <=> NoneOf(mail', none) /\ e.type \notin none
  BY <1>1, <1>2, Taken
<1> HIDE DEF e
<1>4. journal' = Append(journal, e)
  BY <1>1 DEF e
<1>5. /\ Len(journal') \in DOMAIN journal' /\ journal'[Len(journal')] = e
      /\ \A none : NoneBehind(journal', Len(journal'), none)
  BY <1>2, <1>3, <1>4, Added
<1>6. \A types : e.type \in types => Grew(journal, journal', types)
  BY <1>2, <1>3, <1>4, GrewOne
<1>q. QED
  BY <1>1, <1>3, <1>4, <1>5, <1>6 DEF e

LEMMA FoundNext ==
  ASSUME TypeOK, Carried, Monitor, Found, [Next]_vars
  PROVE  Found'
<1> DEFINE C == BEACON_CLEARS
           start == {"start"}
<1>1. mail \in Seq(Records) /\ mon.present \in BOOLEAN
      /\ mon \in [running : BOOLEAN, ever : BOOLEAN, silence : 0 .. 2, present : BOOLEAN]
  BY DEF TypeOK
<1>2. ASSUME NEW types, Grew(journal, journal', types), types \cap start = {},
             device' # "off" => device # "off", mon'.present => mon.present, ~missed' => ~missed,
             NoneOf(mail', C) => NoneOf(mail, C)
      PROVE  Found'
  <2>1. SUFFICES ASSUME device' # "off", mon'.present, ~missed', NoneOf(mail', C)
                 PROVE  \E c \in DOMAIN journal' : journal'[c].type \in C /\ NoneBehind(journal', c, start)
    BY DEF Found
  <2>2. PICK c \in DOMAIN journal : journal[c].type \in C /\ NoneBehind(journal, c, start)
    BY <1>2, <2>1 DEF Found
  <2> HIDE DEF C, start
  <2>3. c \in DOMAIN journal' /\ journal'[c] = journal[c] /\ NoneBehind(journal', c, start)
    BY <1>2, <2>2, GrewBehind
  <2>q. QED
    BY <2>2, <2>3
<1>3. UNCHANGED journal => Grew(journal, journal', {}) /\ {} \cap start = {}
  BY GrewNone DEF TypeOK
<1>4. ASSUME NEW e \in Records, mail' = Append(mail, e) PROVE NoneOf(mail', C) => NoneOf(mail, C) /\ e.type \notin C
  <2> HIDE DEF C
  <2>q. QED
    BY <1>1, <1>4, Added
<1>5. CASE Calm
  <2>1. Grew(journal, journal', PlainTypes) /\ PlainTypes \cap start = {}
    BY <1>5, PlainGrew DEF Calm, PlainTypes
  <2>2. UNCHANGED <<device, mon, mail, missed>>
    BY <1>5 DEF Calm, Same
  <2>q. QED
    BY <1>2, <2>1, <2>2
<1>6. CASE Detect \/ Silence \/ Read
  <2>1. UNCHANGED <<device, mail, missed, journal>>
    BY <1>6, Kept
  <2>2. mon'.present = mon.present
    BY <1>1, <1>6 DEF Detect, Silence, Read
  <2>q. QED
    BY <1>2, <1>3, <2>1, <2>2
<1>7. CASE PresenceTick
  <2>1. UNCHANGED <<device, journal>> /\ mon' = [mon EXCEPT !.present = IsPresent]
        /\ mail' = Append(mail, Event(IF IsPresent THEN "beacon_found" ELSE "beacon_lost"))
    BY <1>7, Kept DEF PresenceTick
  <2>2. CASE IsPresent
    <3>1. mail' = Append(mail, Event("beacon_found"))
      BY <2>1, <2>2
    <3>2. Event("beacon_found") \in Records /\ Event("beacon_found").type \in C
      BY EventIs DEF Types, BEACON_CLEARS
    <3>3. ~NoneOf(mail', C)
      <4> HIDE DEF C
      <4>q. QED
        BY <1>4, <3>1, <3>2
    <3>q. QED
      BY <3>3 DEF Found
  <2>3. CASE ~IsPresent
    <3>1. mon'.present = FALSE
      BY <1>1, <2>1, <2>3 DEF IsPresent
    <3>q. QED
      BY <3>1 DEF Found
  <2>q. QED
    BY <2>2, <2>3
<1>8. CASE Start \/ Configure
  <2>1. mon' = Fresh(TRUE) \/ mon' = Fresh(FALSE)
    BY <1>8 DEF Start, Configure
  <2>2. mon'.present = FALSE
    BY <2>1 DEF Fresh
  <2>q. QED
    BY <2>2 DEF Found
<1>9. CASE Decide \/ Forced
  <2>1. UNCHANGED <<mon, missed, journal>> /\ device # "off"
    BY <1>9, Kept DEF Decide, Forced
  <2>2. mail' = mail \/ mail' = Append(mail, Record("shutdown", "beacon_lost"))
        \/ mail' = Append(mail, Record("shutdown", "power_loss")) \/ mail' = Append(mail, Record("shutdown", "forced"))
    BY <1>9 DEF Decide, Forced
  <2>3. NoneOf(mail', C) => NoneOf(mail, C)
    <3>1. /\ Record("shutdown", "beacon_lost") \in Records
          /\ Record("shutdown", "power_loss") \in Records
          /\ Record("shutdown", "forced") \in Records
      BY EventIs
    <3> HIDE DEF C
    <3>q. QED
      BY <1>4, <2>2, <3>1
  <2>q. QED
    BY <1>2, <1>3, <2>1, <2>3
<1>10. CASE PowerDown \/ Crash
  BY <1>10 DEF PowerDown, Crash, Found
<1>11. CASE Deliver
  <2>1. UNCHANGED <<device, mon>>
    BY <1>11, Delivered
  <2>2. CASE Head(mail).type \in C
    <3>1. Len(journal') \in DOMAIN journal' /\ journal'[Len(journal')].type \in C /\ NoneBehind(journal', Len(journal'), start)
      <4> HIDE DEF C, start
      <4>q. QED
        BY <1>11, <2>2, Delivered
    <3>q. QED
      BY <3>1 DEF Found
  <2>3. CASE Head(mail).type \notin C
    <3>1. NoneOf(mail', C) => NoneOf(mail, C)
      <4> HIDE DEF C
      <4>q. QED
        BY <1>11, <2>3, Delivered
    <3>2. Head(mail).type \notin {"start", "charging_on", "charging_off", "jpeg", "h264"}
      BY <1>11, Delivered DEF Carried
    <3>3. Grew(journal, journal', {Head(mail).type}) /\ {Head(mail).type} \cap start = {}
      BY <1>11, <3>2, Delivered
    <3>4. ~missed' => ~missed
      BY <1>11, <2>3 DEF Deliver
    <3>q. QED
      BY <1>2, <2>1, <3>1, <3>3, <3>4
  <2>q. QED
    BY <2>2, <2>3
<1>12. CASE Lost
  <2>1. /\ UNCHANGED <<device, mon, journal>> /\ mail # <<>> /\ mail' = Tail(mail)
        /\ missed' = (missed \/ Head(mail).type \in C)
    BY <1>12, Kept DEF Lost
  <2>2. ~missed' => ~missed /\ (NoneOf(mail', C) => NoneOf(mail, C))
    <3>1. NoneOf(mail, C) <=> NoneOf(mail', C) /\ Head(mail).type \notin C
      <4> HIDE DEF C
      <4>q. QED
        BY <1>1, <2>1, Taken
    <3>q. QED
      BY <2>1, <3>1
  <2>3. CASE missed'
    BY <2>3 DEF Found
  <2>q. QED
    BY <1>2, <1>3, <2>1, <2>2, <2>3
<1>q. QED
  BY <1>12, <1>5, <1>6, <1>7, <1>8, <1>9, <1>10, <1>11, Cases

\* The mail, by what is sent.
LEMMA Sent ==
  ASSUME TypeOK
  PROVE  /\ PresenceTick => \E e \in Records :
              mail' = Append(mail, e) /\ e.type = IF IsPresent THEN "beacon_found" ELSE "beacon_lost"
         /\ Configure => \/ mail' = mail /\ (Active' <=> Active)
                         \/ \E e \in Records : mail' = Append(mail, e) /\ e.type = "beacon_enabled" /\ Active'
                         \/ \E e \in Records : mail' = Append(mail, e) /\ e.type = "beacon_disabled" /\ ~Active'
         /\ Decide => /\ device = "up" /\ reading' = "none"
                      /\ \/ UNCHANGED <<device, why, mail>>
                         \/ \E e \in Records :
                              /\ mail' = Append(mail, e) /\ e.type = "shutdown" /\ e.reason = why'
                              /\ device' = "dying" /\ (why' = "beacon_lost" <=> reading = "blocked")
         /\ Forced => \E e \in Records : mail' = Append(mail, e) /\ e.type = "shutdown" /\ e.reason = "forced"
         /\ Start => \/ mail' = <<>> /\ (Active \/ ~config.target)
                     \/ \E e \in Records : mail' = Append(<<>>, e) /\ e.type = "beacon_disabled" /\ ~Active
<1>1. ASSUME PresenceTick
      PROVE  \E e \in Records : mail' = Append(mail, e) /\ e.type = IF IsPresent THEN "beacon_found" ELSE "beacon_lost"
  <2>1. mail' = Append(mail, Event(IF IsPresent THEN "beacon_found" ELSE "beacon_lost"))
    BY <1>1 DEF PresenceTick
  <2>2. /\ Event("beacon_found") \in Records /\ Event("beacon_found").type = "beacon_found"
        /\ Event("beacon_lost") \in Records /\ Event("beacon_lost").type = "beacon_lost"
    BY EventIs DEF Types
  <2>3. CASE IsPresent
    BY <2>1, <2>2, <2>3
  <2>4. CASE ~IsPresent
    BY <2>1, <2>2, <2>4
  <2>q. QED
    BY <2>3, <2>4
<1>2. ASSUME Configure
      PROVE  \/ mail' = mail /\ (Active' <=> Active)
             \/ \E e \in Records : mail' = Append(mail, e) /\ e.type = "beacon_enabled" /\ Active'
             \/ \E e \in Records : mail' = Append(mail, e) /\ e.type = "beacon_disabled" /\ ~Active'
  <2>0. config \in [enabled : BOOLEAN, target : BOOLEAN]
    BY DEF TypeOK
  <2>1. PICK enabled \in BOOLEAN, target \in BOOLEAN : config' = [enabled |-> enabled, target |-> target]
    BY <1>2 DEF Configure
  <2>2. config'.enabled \in BOOLEAN /\ config'.target \in BOOLEAN
    BY <2>1
  <2>3. Active' \in BOOLEAN /\ Active \in BOOLEAN /\ (Active' <=> config'.enabled /\ config'.target)
    BY <2>0, <2>2 DEF Active
  <2>4. mail' = IF (config'.enabled /\ config'.target) # Active
                THEN Append(mail, Event(IF config'.enabled /\ config'.target THEN "beacon_enabled" ELSE "beacon_disabled"))
                ELSE mail
    BY <1>2 DEF Configure, Announced, BeaconActive
  <2>5. /\ Event("beacon_enabled") \in Records /\ Event("beacon_enabled").type = "beacon_enabled"
        /\ Event("beacon_disabled") \in Records /\ Event("beacon_disabled").type = "beacon_disabled"
    BY EventIs DEF Types
  <2>6. CASE config'.enabled /\ config'.target
    BY <2>3, <2>4, <2>5, <2>6
  <2>7. CASE ~(config'.enabled /\ config'.target)
    BY <2>3, <2>4, <2>5, <2>7
  <2>q. QED
    BY <2>6, <2>7
<1>3. ASSUME Decide
      PROVE  /\ device = "up" /\ reading' = "none"
             /\ \/ UNCHANGED <<device, why, mail>>
                \/ \E e \in Records :
                     /\ mail' = Append(mail, e) /\ e.type = "shutdown" /\ e.reason = why'
                     /\ device' = "dying" /\ (why' = "beacon_lost" <=> reading = "blocked")
  <2>1. \A r \in {"beacon_lost", "power_loss"} :
          /\ Record("shutdown", r) \in Records /\ Record("shutdown", r).type = "shutdown"
          /\ Record("shutdown", r).reason = r
    BY EventIs
  <2>2. /\ device = "up" /\ reading' = "none"
        /\ \/ UNCHANGED <<device, why, mail>>
           \/ /\ device' = "dying" /\ mail' = Append(mail, Record("shutdown", why'))
              /\ why' = IF reading = "blocked" THEN "beacon_lost" ELSE "power_loss"
    BY <1>3 DEF Decide
  <2>q. QED
    BY <2>1, <2>2
<1>4. ASSUME Forced
      PROVE  \E e \in Records : mail' = Append(mail, e) /\ e.type = "shutdown" /\ e.reason = "forced"
  <2>1. /\ Record("shutdown", "forced") \in Records /\ Record("shutdown", "forced").type = "shutdown"
        /\ Record("shutdown", "forced").reason = "forced"
    BY EventIs
  <2>q. QED
    BY <1>4, <2>1 DEF Forced
<1>5. ASSUME Start
      PROVE  \/ mail' = <<>> /\ (Active \/ ~config.target)
             \/ \E e \in Records : mail' = Append(<<>>, e) /\ e.type = "beacon_disabled" /\ ~Active
  <2>1. mail' = IF ~Active /\ config.target THEN <<Event("beacon_disabled")>> ELSE <<>>
    BY <1>5 DEF Start, BeaconActive
  <2>2. Event("beacon_disabled") \in Records /\ Event("beacon_disabled").type = "beacon_disabled"
    BY EventIs DEF Types
  <2>3. \A e : Append(<<>>, e) = <<e>>
    OBVIOUS
  <2>q. QED
    BY <2>1, <2>2, <2>3
<1>q. QED
  BY <1>1, <1>2, <1>3, <1>4, <1>5

LEMMA SwitchedNext ==
  ASSUME TypeOK, Monitor, Switched, [Next]_vars
  PROVE  Switched'
<1>1. mail \in Seq(Records)
  BY DEF TypeOK
<1>2. ASSUME NEW e \in Records, mail' = Append(mail, e),
             e.type = "beacon_disabled" \/ (e.type = "shutdown" /\ EndsOff(mail))
      PROVE  EndsOff(mail')
  <2>1. /\ Len(mail') \in DOMAIN mail' /\ mail'[Len(mail')] = e
        /\ \A i \in DOMAIN mail' : i = Len(mail') \/ (i \in DOMAIN mail /\ mail'[i] = mail[i])
        /\ \A i \in DOMAIN mail : i \in DOMAIN mail' /\ mail'[i] = mail[i]
    BY <1>1, <1>2, Added
  <2>2. DOMAIN mail' = 1 .. Len(mail') /\ Len(mail') \in Nat
    BY <1>1, <1>2, SeqFacts
  <2>3. CASE e.type = "beacon_disabled"
    <3>1. \A k \in DOMAIN mail' : k <= Len(mail')
      BY <2>2
    <3>q. QED
      BY <2>1, <2>3, <3>1 DEF EndsOff
  <2>4. CASE e.type = "shutdown" /\ EndsOff(mail)
    <3>1. ASSUME NEW k \in DOMAIN mail', mail'[k].type # "shutdown"
          PROVE  \E l \in DOMAIN mail' : k <= l /\ mail'[l].type = "beacon_disabled"
      <4>1. k \in DOMAIN mail /\ mail[k].type # "shutdown"
        BY <2>1, <2>4, <3>1
      <4>2. PICK l \in DOMAIN mail : k <= l /\ mail[l].type = "beacon_disabled"
        BY <2>4, <4>1 DEF EndsOff
      <4>q. QED
        BY <2>1, <4>2
    <3>q. QED
      BY <3>1 DEF EndsOff
  <2>q. QED
    BY <1>2, <2>3, <2>4
<1>3. mail' = <<>> => EndsOff(mail')
  BY DEF EndsOff
<1>4. CASE Calm \/ Detect \/ Silence \/ Read \/ PowerDown
  <2>1. UNCHANGED <<config, mail>>
    BY <1>4, Kept DEF Calm, Same
  <2>q. QED
    BY <2>1 DEF Switched, Active
<1>5. CASE Start
  <2>1. mail' = <<>> \/ \E e \in Records : mail' = Append(<<>>, e) /\ e.type = "beacon_disabled"
    BY <1>5, Sent
  <2>2. ASSUME NEW e \in Records, mail' = Append(<<>>, e), e.type = "beacon_disabled" PROVE EndsOff(mail')
    <3>1. \A k \in DOMAIN Append(<<>>, e) : k = 1 /\ Append(<<>>, e)[k] = e
      OBVIOUS
    <3>q. QED
      BY <2>2, <3>1 DEF EndsOff
  <2>q. QED
    BY <1>3, <2>1, <2>2 DEF Switched
<1>6. CASE PresenceTick
  <2>1. mon.running /\ config' = config
    BY <1>6 DEF PresenceTick
  <2>q. QED
    BY <2>1 DEF Monitor, Switched, Active
<1>7. CASE Configure
  <2>1. CASE mail' = mail /\ (Active' <=> Active)
    BY <2>1 DEF Switched
  <2>2. CASE Active'
    BY <2>2 DEF Switched
  <2>3. ASSUME NEW e \in Records, mail' = Append(mail, e), e.type = "beacon_disabled" PROVE Switched'
    BY <1>2, <2>3 DEF Switched
  <2>q. QED
    BY <1>7, <2>1, <2>2, <2>3, Sent
<1>8. CASE Decide \/ Forced
  <2>1. config' = config
    BY <1>8, Kept
  <2>2. mail' = mail \/ \E e \in Records : mail' = Append(mail, e) /\ e.type = "shutdown"
    BY <1>8, Sent
  <2>q. QED
    BY <1>2, <2>1, <2>2 DEF Switched, Active
<1>9. CASE Deliver \/ Lost
  <2>1. mail # <<>> /\ mail' = Tail(mail) /\ config' = config
    BY <1>9, Delivered, Kept DEF Lost
  <2>2. /\ \A i \in DOMAIN mail' : i + 1 \in DOMAIN mail /\ mail'[i] = mail[i + 1] /\ i \in Nat
        /\ \A i \in DOMAIN mail : i \in Nat /\ (i = 1 \/ (i - 1 \in DOMAIN mail' /\ mail'[i - 1] = mail[i]))
    BY <1>1, <2>1, Taken
  <2>3. ASSUME EndsOff(mail), NEW k \in DOMAIN mail', mail'[k].type # "shutdown"
        PROVE  \E l \in DOMAIN mail' : k <= l /\ mail'[l].type = "beacon_disabled"
    <3>1. k \in Nat /\ k + 1 \in DOMAIN mail /\ mail[k + 1].type # "shutdown" /\ k # 0
      <4>1. DOMAIN mail' = 1 .. Len(mail')
        BY <1>1, <2>1
      <4>q. QED
        BY <2>2, <2>3, <4>1
    <3>2. PICK l \in DOMAIN mail : k + 1 <= l /\ mail[l].type = "beacon_disabled"
      BY <2>3, <3>1 DEF EndsOff
    <3>3. l \in Nat /\ l # 1
      BY <2>2, <3>1, <3>2
    <3>4. l - 1 \in DOMAIN mail' /\ mail'[l - 1] = mail[l] /\ k <= l - 1
      BY <2>2, <3>1, <3>2, <3>3
    <3>q. QED
      BY <3>2, <3>4
  <2>4. EndsOff(mail) => EndsOff(mail')
    BY <2>3 DEF EndsOff
  <2>q. QED
    BY <2>1, <2>4 DEF Switched, Active
<1>10. CASE Crash
  BY <1>3, <1>10 DEF Crash, Switched
<1>q. QED
  BY <1>4, <1>5, <1>6, <1>7, <1>8, <1>9, <1>10, Cases

\* What a delivery says while the beacon is not in use: the record that says so, with nothing of
\* its kind behind it, or a shutdown.
LEMMA OffDeliver ==
  ASSUME TypeOK, Carried, Switched, Deliver, Off'
  PROVE  \/ Head(mail).type = "beacon_disabled"
         \/ Head(mail).type = "shutdown" /\ Off
<1> DEFINE none == {"beacon_disabled"}
           e == Head(mail)
<1>1. /\ mail # <<>> /\ e \in Records /\ mail' = Tail(mail) /\ config' = config
      /\ \A x : NoneOf(mail, x) <=> NoneOf(mail', x) /\ e.type \notin x
  <2> HIDE DEF e
  <2>1. \A x : NoneOf(mail, x) <=> NoneOf(mail', x) /\ Head(mail).type \notin x
    BY Delivered
  <2>q. QED
    BY <2>1, Delivered DEF e
<1>2. ~Active /\ NoneOf(mail', none)
  BY <1>1 DEF Off, Active
<1>3. mail \in Seq(Records) /\ e = mail[1] /\ 1 \in DOMAIN mail
      /\ \A i \in DOMAIN mail : i \in Nat /\ (i = 1 \/ (i - 1 \in DOMAIN mail' /\ mail'[i - 1] = mail[i]))
  BY <1>1, Taken DEF TypeOK
<1> HIDE DEF e
<1>4. CASE e.type # "shutdown"
  <2>1. PICK l \in DOMAIN mail : 1 <= l /\ mail[l].type = "beacon_disabled"
    BY <1>2, <1>3, <1>4 DEF Switched, EndsOff
  <2>2. CASE l = 1
    BY <1>3, <2>1, <2>2 DEF e
  <2>3. CASE l # 1
    <3>1. l - 1 \in DOMAIN mail' /\ mail'[l - 1].type \in none
      BY <1>3, <2>1, <2>3
    <3>q. QED
      BY <1>2, <3>1 DEF NoneOf
  <2>q. QED
    BY <2>2, <2>3
<1>5. CASE e.type = "shutdown"
  <2>1. NoneOf(mail, none)
    <3>1. e.type \notin none
      BY <1>5
    <3> HIDE DEF none
    <3>q. QED
      BY <1>1, <1>2, <3>1
  <2>2. missed' = (missed /\ e.type \notin BEACON_CLEARS) /\ ~missed'
    BY DEF Deliver, Off, e
  <2>3. ~missed
    BY <1>5, <2>2 DEF BEACON_CLEARS
  <2>q. QED
    BY <1>2, <1>5, <2>1, <2>3 DEF Off, e
<1>q. QED
  BY <1>4, <1>5

\* The other actions that leave it so found it so.
LEMMA OffBefore ==
  ASSUME TypeOK, Silent, Monitor, Off', [Next]_vars, ~Deliver
  PROVE  Off
<1> DEFINE none == {"beacon_disabled"}
<1>1. mail \in Seq(Records)
  BY DEF TypeOK
<1>2. ~Active' /\ ~missed' /\ NoneOf(mail', none)
  BY DEF Off
<1>3. ASSUME NEW e \in Records, mail' = Append(mail, e) PROVE NoneOf(mail, none) /\ e.type \notin none
  <2> HIDE DEF none
  <2>q. QED
    BY <1>1, <1>2, <1>3, Added
<1> HIDE DEF none
<1>4. CASE Calm \/ Detect \/ Silence \/ Read \/ PowerDown
  <2>1. UNCHANGED <<config, mail, missed>>
    BY <1>4, Kept DEF Calm, Same
  <2>q. QED
    BY <1>2, <2>1 DEF Off, Active, none
<1>5. CASE Start
  <2>1. UNCHANGED <<config, missed>> /\ mail = <<>>
    BY <1>5 DEF Start, Silent
  <2>2. NoneOf(mail, {"beacon_disabled"})
    BY <2>1 DEF NoneOf
  <2>q. QED
    BY <1>2, <2>1, <2>2 DEF Off, Active
<1>6. CASE PresenceTick
  <2>1. mon.running /\ config' = config
    BY <1>6 DEF PresenceTick
  <2>q. QED
    BY <1>2, <2>1 DEF Monitor, Active
<1>7. CASE Configure
  <2>1. UNCHANGED missed
    BY <1>7, Kept
  <2>2. ASSUME NEW e \in Records, mail' = Append(mail, e), e.type = "beacon_disabled" PROVE FALSE
    BY <1>3, <2>2 DEF none
  <2>3. mail' = mail /\ (Active' <=> Active)
    BY <1>2, <1>7, <2>2, Sent
  <2>q. QED
    BY <1>2, <2>1, <2>3 DEF Off, none
<1>8. CASE Decide \/ Forced
  <2>1. UNCHANGED <<config, missed>>
    BY <1>8, Kept
  <2>2. mail' = mail \/ \E e \in Records : mail' = Append(mail, e)
    BY <1>8, Sent
  <2>3. NoneOf(mail, none)
    BY <1>2, <1>3, <2>2
  <2>q. QED
    BY <1>2, <2>1, <2>3 DEF Off, Active, none
<1>9. CASE Crash
  <2>1. config' = config /\ missed' = (missed \/ \E i \in DOMAIN mail : mail[i].type = "beacon_disabled")
    BY <1>9 DEF Crash
  <2>2. NoneOf(mail, {"beacon_disabled"})
    BY <1>2, <2>1 DEF NoneOf
  <2>q. QED
    BY <1>2, <2>1, <2>2 DEF Off, Active
<1>10. CASE Lost
  <2>1. /\ config' = config /\ mail # <<>> /\ mail' = Tail(mail)
        /\ missed' = (missed \/ Head(mail).type \in BEACON_CLEARS)
    BY <1>10 DEF Lost
  <2>2. Head(mail).type \notin none
    BY <1>2, <2>1 DEF BEACON_CLEARS, none
  <2>3. NoneOf(mail, none)
    BY <1>1, <1>2, <2>1, <2>2, Taken
  <2>q. QED
    BY <1>2, <2>1, <2>3 DEF Off, Active, none
<1>q. QED
  BY <1>4, <1>5, <1>6, <1>7, <1>8, <1>9, <1>10, Cases

LEMMA OvertakenNext ==
  ASSUME TypeOK, Silent, Carried, Monitor, Switched, Overtaken, [Next]_vars
  PROVE  Overtaken'
<1> DEFINE none == {"start", "beacon_lost"}
           Seen(s) == \E c \in DOMAIN s : s[c].type = "beacon_disabled" /\ NoneBehind(s, c, none)
<1>1. mail \in Seq(Records) /\ journal \in Seq(Records)
  BY DEF TypeOK
<1>2. SUFFICES ASSUME Off', reading' = "blocked" \/ SomeLost(mail') PROVE Seen(journal')
  BY DEF Overtaken
<1>3. Off /\ (reading = "blocked" \/ SomeLost(mail)) => Seen(journal)
  BY DEF Overtaken
<1>4. ASSUME NEW types, Grew(journal, journal', types), types \cap none = {}, Seen(journal) PROVE Seen(journal')
  <2>1. PICK c \in DOMAIN journal : journal[c].type = "beacon_disabled" /\ NoneBehind(journal, c, none)
    BY <1>4
  <2> HIDE DEF none
  <2>2. c \in DOMAIN journal' /\ journal'[c] = journal[c] /\ NoneBehind(journal', c, none)
    BY <1>4, <2>1, GrewBehind
  <2>q. QED
    BY <2>1, <2>2
<1>5. ~Deliver => Off
  BY <1>2, OffBefore
<1>6. ASSUME NEW e \in Records, mail' = Append(mail, e), ~IsBeaconLostShutdown(e), SomeLost(mail') PROVE SomeLost(mail)
  <2>1. \A i \in DOMAIN mail' : mail'[i] = e \/ (i \in DOMAIN mail /\ mail'[i] = mail[i])
    <3>1. /\ mail'[Len(mail')] = e
          /\ \A i \in DOMAIN mail' : i = Len(mail') \/ (i \in DOMAIN mail /\ mail'[i] = mail[i])
      BY <1>1, <1>6, Added
    <3>q. QED
      BY <3>1
  <2>q. QED
    BY <1>6, <2>1 DEF SomeLost
<1> HIDE DEF Seen
<1>7. CASE Calm
  <2>1. Grew(journal, journal', PlainTypes) /\ PlainTypes \cap none = {}
    BY <1>7, PlainGrew DEF Calm, PlainTypes
  <2>2. UNCHANGED <<reading, mail>>
    BY <1>7 DEF Calm, Same
  <2>3. Seen(journal)
    <3>1. ~Deliver \/ Off
      <4>1. CASE Deliver
        <5>1. mail # <<>> /\ Len(mail') = Len(mail) - 1 /\ mail' = mail /\ Len(mail) \in Nat
          BY <1>1, <2>2, <4>1, TailFacts DEF Deliver
        <5>q. QED
          BY <5>1
      <4>q. QED
        BY <4>1
    <3>q. QED
      BY <1>2, <1>3, <1>5, <2>2, <3>1
  <2>q. QED
    BY <1>4, <2>1, <2>3
<1>8. ASSUME ~Deliver, UNCHANGED journal, reading' = "blocked" => reading = "blocked", SomeLost(mail') => SomeLost(mail) \/ reading = "blocked"
      PROVE  Seen(journal')
  BY <1>2, <1>3, <1>5, <1>8
<1>9. Deliver \/ ~Deliver
  OBVIOUS
<1>10. CASE ~Deliver /\ (Detect \/ Silence \/ PowerDown)
  <2>1. UNCHANGED <<mail, reading, journal>>
    BY <1>10, Kept DEF Detect, Silence
  <2>q. QED
    BY <1>8, <1>10, <2>1
<1>11. CASE Start
  <2>1. reading' = "none"
    BY <1>11 DEF Start
  <2>2. ~SomeLost(mail')
    <3>1. mail' = <<>> \/ \E e \in Records : mail' = Append(<<>>, e) /\ e.type = "beacon_disabled"
      BY <1>11, Sent
    <3>2. \A e : DOMAIN Append(<<>>, e) = {1} /\ Append(<<>>, e)[1] = e
      OBVIOUS
    <3>q. QED
      BY <3>1, <3>2 DEF SomeLost, IsBeaconLostShutdown
  <2>q. QED
    BY <1>2, <2>1, <2>2
<1>12. CASE PresenceTick
  <2>1. mon.running /\ config' = config
    BY <1>12 DEF PresenceTick
  <2>q. QED
    BY <1>2, <2>1 DEF Monitor, Off, Active
<1>13. CASE ~Deliver /\ Configure
  <2>1. UNCHANGED <<reading, journal>>
    BY <1>13, Kept
  <2>2. mail' = mail \/ \E e \in Records : mail' = Append(mail, e) /\ ~IsBeaconLostShutdown(e)
    BY <1>13, Sent DEF IsBeaconLostShutdown
  <2>q. QED
    BY <1>6, <1>8, <1>13, <2>1, <2>2
<1>14. CASE ~Deliver /\ Read
  <2>1. UNCHANGED <<mail, journal, config>>
    BY <1>14, Kept
  <2>2. reading' = "blocked" => Active
    BY <1>14 DEF Read, BeaconBlocksPower
  <2>3. reading' # "blocked"
    BY <1>2, <2>1, <2>2 DEF Off, Active
  <2>q. QED
    BY <1>8, <1>14, <2>1, <2>3
<1>15. CASE ~Deliver /\ Decide
  <2>1. UNCHANGED journal /\ reading' = "none"
    BY <1>15, Kept, Sent
  <2>2. mail' = mail \/ \E e \in Records : mail' = Append(mail, e) /\ (IsBeaconLostShutdown(e) => reading = "blocked")
    BY <1>15, Sent DEF IsBeaconLostShutdown
  <2>3. SomeLost(mail') => SomeLost(mail) \/ reading = "blocked"
    BY <1>6, <2>2
  <2>q. QED
    BY <1>8, <1>15, <2>1, <2>3
<1>16. CASE ~Deliver /\ Forced
  <2>1. UNCHANGED <<journal, reading>>
    BY <1>16, Kept
  <2>2. \E e \in Records : mail' = Append(mail, e) /\ ~IsBeaconLostShutdown(e)
    BY <1>16, Sent DEF IsBeaconLostShutdown
  <2>q. QED
    BY <1>6, <1>8, <1>16, <2>1, <2>2
<1>17. CASE ~Deliver /\ Crash
  <2>1. UNCHANGED <<journal, reading>> /\ mail' = <<>>
    BY <1>17, Kept DEF Crash
  <2>2. ~SomeLost(mail')
    BY <2>1 DEF SomeLost
  <2>q. QED
    BY <1>8, <1>17, <2>1, <2>2
<1>18. CASE Deliver
  <2>1. /\ Len(journal') \in DOMAIN journal' /\ journal'[Len(journal')] = Head(mail)
        /\ NoneBehind(journal', Len(journal'), none)
        /\ UNCHANGED reading
    <3> HIDE DEF none
    <3>q. QED
      BY <1>18, Delivered
  <2>2. CASE Head(mail).type = "beacon_disabled"
    BY <2>1, <2>2 DEF Seen
  <2>3. CASE Head(mail).type = "shutdown" /\ Off
    <3>1. SomeLost(mail') => SomeLost(mail)
      <4>1. mail # <<>> /\ mail' = Tail(mail)
        BY <1>18, Delivered
      <4>2. \A i \in DOMAIN mail' : i + 1 \in DOMAIN mail /\ mail'[i] = mail[i + 1]
        BY <1>1, <4>1, Taken
      <4>q. QED
        BY <4>2 DEF SomeLost
    <3>2. Seen(journal)
      BY <1>2, <1>3, <2>1, <2>3, <3>1
    <3>3. Grew(journal, journal', {"shutdown"}) /\ {"shutdown"} \cap none = {}
      BY <1>18, <2>3, Delivered
    <3>q. QED
      BY <1>4, <3>2, <3>3
  <2>q. QED
    BY <1>2, <1>18, <2>2, <2>3, OffDeliver
<1>19. CASE ~Deliver /\ Lost
  <2>1. UNCHANGED <<journal, reading>> /\ mail # <<>> /\ mail' = Tail(mail)
    BY <1>19, Kept DEF Lost
  <2>2. \A i \in DOMAIN mail' : i + 1 \in DOMAIN mail /\ mail'[i] = mail[i + 1]
    BY <1>1, <2>1, Taken
  <2>3. SomeLost(mail') => SomeLost(mail)
    BY <2>2 DEF SomeLost
  <2>q. QED
    BY <1>8, <1>19, <2>1, <2>3
<1>q. QED
  BY <1>19, <1>7, <1>9, <1>10, <1>11, <1>12, <1>13, <1>14, <1>15, <1>16, <1>17, <1>18, Cases

LEMMA AnsweredGrew ==
  ASSUME NEW s, NEW t, NEW types, Grew(s, t, types), "beacon_lost" \notin types,
         NEW j \in DOMAIN s, AnsweredAt(s, j)
  PROVE  AnsweredAt(t, j)
<1> DEFINE none == {"beacon_lost"}
<1>1. /\ Len(s) \in Nat /\ Len(t) \in Nat /\ DOMAIN s = 1 .. Len(s) /\ DOMAIN t = 1 .. Len(t) /\ Len(s) <= Len(t)
      /\ \A i \in 1 .. Len(s) : t[i] = s[i]
  BY DEF Grew
<1>2. CASE \E c \in j + 1 .. Len(s) : s[c].type \in BEACON_CLEARS
  <2>1. PICK c \in j + 1 .. Len(s) : s[c].type \in BEACON_CLEARS
    BY <1>2
  <2>2. c \in 1 .. Len(s) /\ c \in j + 1 .. Len(t)
    BY <1>1
  <2>3. t[c].type \in BEACON_CLEARS
    BY <1>1, <2>1, <2>2
  <2>q. QED
    BY <2>2, <2>3 DEF AnsweredAt
<1>3. ASSUME NEW c \in DOMAIN s, c < j, s[c].type = "beacon_disabled", NoneBehind(s, c, none),
             \A k \in c + 1 .. j : s[k].type # "start"
      PROVE  AnsweredAt(t, j)
  <2>1. c \in DOMAIN t /\ t[c] = s[c] /\ NoneBehind(t, c, none)
    <3>1. types \cap none = {}
      OBVIOUS
    <3> HIDE DEF none
    <3>q. QED
      BY <1>3, <3>1, GrewBehind
  <2>2. \A k \in c + 1 .. j : k \in 1 .. Len(s)
    BY <1>1
  <2>3. \A k \in c + 1 .. j : t[k].type # "start"
    BY <1>1, <1>3, <2>2
  <2>q. QED
    BY <1>3, <2>1, <2>3 DEF AnsweredAt
<1>q. QED
  BY <1>2, <1>3 DEF AnsweredAt

LEMMA AnsweredNext ==
  ASSUME TypeOK, Silent, Carried, Monitor, Switched, Overtaken, Answered, [Next]_vars
  PROVE  Answered'
<1>1. mail \in Seq(Records) /\ journal \in Seq(Records)
  BY DEF TypeOK
<1>2. SUFFICES ASSUME Off', NEW j \in DOMAIN journal', IsBeaconLostShutdown(journal'[j]) PROVE AnsweredAt(journal', j)
  BY DEF Answered
<1>3. ASSUME Off, NEW types, Grew(journal, journal', types), "beacon_lost" \notin types, j \in DOMAIN journal
      PROVE  AnsweredAt(journal', j)
  <2>1. journal'[j] = journal[j]
    BY <1>3 DEF Grew
  <2>2. AnsweredAt(journal, j)
    BY <1>2, <1>3, <2>1 DEF Answered
  <2>q. QED
    BY <1>3, <2>2, AnsweredGrew
<1>4. ASSUME NEW types, Grew(journal, journal', types), "shutdown" \notin types PROVE j \in DOMAIN journal
  <2>1. /\ Len(journal) \in Nat /\ DOMAIN journal = 1 .. Len(journal) /\ DOMAIN journal' = 1 .. Len(journal')
        /\ \A i \in Len(journal) + 1 .. Len(journal') : journal'[i].type \in types
    BY <1>4 DEF Grew
  <2>2. journal'[j].type = "shutdown"
    BY <1>2 DEF IsBeaconLostShutdown
  <2>3. j \notin Len(journal) + 1 .. Len(journal')
    BY <1>4, <2>1, <2>2
  <2>4. j \in 1 .. Len(journal')
    BY <1>2, <2>1
  <2>q. QED
    BY <2>1, <2>3, <2>4
<1>5. ~Deliver => Off
  BY <1>2, OffBefore
<1>6. CASE ~Deliver
  <2>1. \E types : Grew(journal, journal', types) /\ "beacon_lost" \notin types /\ "shutdown" \notin types
    <3>1. CASE Calm
      BY <3>1, PlainGrew DEF Calm, PlainTypes
    <3>2. CASE Start
      <4>1. Event("start") \in Records /\ Event("start").type \in {"start"}
        BY EventIs DEF Types
      <4>2. Grew(journal, journal', {"start"})
        BY <1>1, <3>2, <4>1, GrewOne DEF Start
      <4>q. QED
        BY <4>2
    <3>3. CASE UNCHANGED journal
      <4>1. Grew(journal, journal', {})
        BY <1>1, <3>3, GrewNone
      <4>q. QED
        BY <4>1
    <3>q. QED
      BY <1>6, <3>1, <3>2, <3>3, Cases, Kept
  <2>q. QED
    BY <1>3, <1>4, <1>5, <1>6, <2>1
<1>7. CASE Deliver
  <2> DEFINE n == Len(journal')
             J == journal'
  <2>1. n \in DOMAIN J /\ J[n] = Head(mail)
    BY <1>7, Delivered
  <2>2. DOMAIN J = 1 .. n /\ n \in Nat
    <3>1. Grew(journal, J, {Head(mail).type})
      BY <1>7, Delivered
    <3>q. QED
      BY <3>1 DEF Grew
  <2> HIDE DEF n, J
  <2>3. j \in DOMAIN J /\ IsBeaconLostShutdown(J[j])
    BY <1>2 DEF J
  <2>4. CASE Head(mail).type = "beacon_disabled"
    <3>1. J[n].type \in BEACON_CLEARS /\ j # n
      BY <2>1, <2>3, <2>4 DEF BEACON_CLEARS, IsBeaconLostShutdown
    <3>2. n \in j + 1 .. n
      BY <2>2, <2>3, <3>1
    <3>3. AnsweredAt(J, j)
      BY <3>1, <3>2 DEF AnsweredAt, n, J
    <3>q. QED
      BY <3>3 DEF J
  <2>5. CASE Head(mail).type = "shutdown" /\ Off
    <3>1. Grew(journal, J, {"shutdown"})
      BY <1>7, <2>5, Delivered DEF J
    <3>2. CASE j \in DOMAIN journal
      BY <1>3, <2>5, <3>1, <3>2 DEF J
    <3>3. CASE j \notin DOMAIN journal
      <4>1. j = n
        BY <2>2, <2>3, <3>1, <3>3 DEF Grew, n, J
      <4>2. SomeLost(mail)
        <5>1. 1 \in DOMAIN mail /\ mail[1] = Head(mail)
          BY <1>1, <1>7, Delivered, Taken
        <5>q. QED
          BY <2>1, <2>3, <4>1, <5>1 DEF SomeLost
      <4> DEFINE none == {"start", "beacon_lost"}
      <4>3. PICK c \in DOMAIN journal : journal[c].type = "beacon_disabled" /\ NoneBehind(journal, c, none)
        BY <2>5, <4>2 DEF Overtaken
      <4>4. c \in DOMAIN J /\ J[c] = journal[c] /\ NoneBehind(J, c, none)
        <5>1. {"shutdown"} \cap none = {}
          OBVIOUS
        <5> HIDE DEF none
        <5>q. QED
          BY <3>1, <4>3, <5>1, GrewBehind
      <4>5. c < j
        <5>1. c \in 1 .. Len(journal) /\ j \notin 1 .. Len(journal) /\ Len(journal) \in Nat
          BY <1>1, <3>3
        <5>q. QED
          BY <2>2, <2>3, <5>1
      <4>6. NoneBehind(J, c, {"beacon_lost"}) /\ \A k \in c + 1 .. j : J[k].type # "start"
        BY <4>1, <4>4 DEF NoneBehind, n, J
      <4>7. AnsweredAt(J, j)
        BY <4>3, <4>4, <4>5, <4>6 DEF AnsweredAt
      <4>q. QED
        BY <4>7 DEF J
    <3>q. QED
      BY <3>2, <3>3
  <2>q. QED
    BY <1>2, <1>7, <2>4, <2>5, OffDeliver
<1>q. QED
  BY <1>6, <1>7

\* An opening stays one while no clear and no start is written.
LEMMA OpensNext ==
  ASSUME NEW types, Grew(journal, journal', types), types \cap (BEACON_CLEARS \cup {"start"}) = {},
         NEW o, Opens(o)
  PROVE  Opens(o)'
<1> DEFINE none == BEACON_CLEARS \cup {"start"}
<1>1. o \in DOMAIN journal /\ journal[o].type \in {"start", "beacon_lost"} /\ NoneBehind(journal, o, none)
  BY DEF Opens
<1>2. o \in DOMAIN journal' /\ journal'[o] = journal[o] /\ NoneBehind(journal', o, none)
  <2> HIDE DEF none
  <2>1. types \cap none = {}
    BY DEF none
  <2>q. QED
    BY <1>1, <2>1, GrewBehind
<1>q. QED
  BY <1>1, <1>2 DEF Opens

LEMMA OpensLast ==
  ASSUME TypeOK, NEW e \in Records, journal' = Append(journal, e), e.type \in {"start", "beacon_lost"}
  PROVE  Len(journal') = Len(journal) + 1 /\ \E o \in {Len(journal) + 1} : Opens(o)'
<1>1. journal \in Seq(Records)
  BY DEF TypeOK
<1>2. /\ Len(journal') \in DOMAIN journal' /\ journal'[Len(journal')] = e /\ Len(journal') = Len(journal) + 1
      /\ \A none : NoneBehind(journal', Len(journal'), none)
  BY <1>1, Added
<1>3. SUFFICES ASSUME NEW o, o = Len(journal) + 1 PROVE Opens(o)'
  BY <1>2
<1>q. QED
  BY <1>2, <1>3 DEF Opens

LEMMA AbsenceNext ==
  ASSUME TypeOK, Carried, Absence, [Next]_vars
  PROVE  Absence'
<1>1. /\ mail \in Seq(Records) /\ journal \in Seq(Records) /\ since \in Nat /\ Len(journal) \in Nat
      /\ mon \in [running : BOOLEAN, ever : BOOLEAN, silence : 0 .. 2, present : BOOLEAN]
  BY DEF TypeOK
<1> DEFINE Lone == device # "off" /\ Active /\ ~mon.present /\ ~touched
<1>2. Lone => (AllDown(mail) /\ \E o \in 1 .. since + 1 : Opens(o)) \/ LossLast(mail)
  BY DEF Absence
<1>3. Lone /\ AllDown(mail) => Away
  BY DEF Away, AllDown
<1>4. ASSUME NEW types, Grew(journal, journal', types), types \cap (BEACON_CLEARS \cup {"start"}) = {},
             since' = since, \E o \in 1 .. since + 1 : Opens(o)
      PROVE  \E o \in 1 .. since' + 1 : Opens(o)'
  BY <1>4, OpensNext
<1>5. UNCHANGED journal => Grew(journal, journal', {}) /\ {} \cap (BEACON_CLEARS \cup {"start"}) = {}
  BY <1>1, GrewNone
<1>6. CASE Calm
  <2>1. Grew(journal, journal', PlainTypes) /\ PlainTypes \cap (BEACON_CLEARS \cup {"start"}) = {}
    BY <1>6, PlainGrew DEF Calm, PlainTypes, BEACON_CLEARS
  <2>2. UNCHANGED <<device, config, mon, mail, touched>>
    BY <1>6 DEF Calm, Same
  <2>3. Away => since' = since
    BY <1>6 DEF Calm, Plain, Unwritten, Write
  <2>4. Lone' => Lone
    BY <2>2 DEF Active
  <2>5. SUFFICES ASSUME Lone, AllDown(mail), \E o \in 1 .. since + 1 : Opens(o)
                 PROVE  \E o \in 1 .. since' + 1 : Opens(o)'
    BY <1>2, <2>2, <2>4 DEF Absence
  <2>q. QED
    BY <1>3, <1>4, <2>1, <2>3, <2>5
<1>7. CASE Start
  <2>1. CASE ~Active
    <3>1. config' = config
      BY <1>7 DEF Start
    <3>q. QED
      BY <2>1, <3>1 DEF Absence, Active
  <2>2. CASE Active
    <3>1. mail' = <<>> /\ journal' = Append(journal, Event("start")) /\ since' = Len(journal)
      BY <1>7, <2>2 DEF Start
    <3>2. Event("start") \in Records /\ Event("start").type = "start"
      BY EventIs DEF Types
    <3>3. \E o \in {Len(journal) + 1} : Opens(o)'
      BY <3>1, <3>2, OpensLast
    <3>4. Len(journal) + 1 \in 1 .. since' + 1
      BY <1>1, <3>1
    <3>5. AllDown(mail')
      BY <3>1 DEF AllDown
    <3>q. QED
      BY <3>3, <3>4, <3>5 DEF Absence
  <2>q. QED
    BY <2>1, <2>2
<1>8. CASE Detect \/ Silence \/ Read
  <2>1. UNCHANGED <<device, config, mail, touched, journal, since>>
    BY <1>8, Kept
  <2>2. mon'.present = mon.present
    BY <1>1, <1>8 DEF Detect, Silence, Read
  <2>3. Lone' => Lone
    BY <2>1, <2>2 DEF Active
  <2>4. SUFFICES ASSUME \E o \in 1 .. since + 1 : Opens(o)
                 PROVE  \E o \in 1 .. since' + 1 : Opens(o)'
    BY <1>2, <2>1, <2>3 DEF Absence
  <2>q. QED
    BY <1>4, <1>5, <2>1, <2>4
<1>9. CASE PresenceTick
  <2>1. mon' = [mon EXCEPT !.present = IsPresent]
    BY <1>9 DEF PresenceTick
  <2>2. mon'.present = IsPresent
    BY <1>1, <2>1
  <2>3. PICK e \in Records : mail' = Append(mail, e) /\ e.type = IF IsPresent THEN "beacon_found" ELSE "beacon_lost"
    BY <1>9, Sent
  <2>4. CASE IsPresent
    BY <2>2, <2>4 DEF Absence
  <2>5. CASE ~IsPresent
    <3>1. e.type = "beacon_lost"
      BY <2>3, <2>5
    <3>2. Len(mail') \in DOMAIN mail' /\ mail'[Len(mail')] = e
      BY <1>1, <2>3, Added
    <3>3. Len(mail') + 1 .. Len(mail') = {}
      BY <1>1, <2>3
    <3>4. LossLast(mail')
      BY <3>1, <3>2, <3>3 DEF LossLast
    <3>q. QED
      BY <3>4 DEF Absence
  <2>q. QED
    BY <2>4, <2>5
<1>10. CASE Configure
  BY <1>10 DEF Configure, Absence
<1>11. CASE Decide \/ Forced
  <2>1. UNCHANGED <<config, mon, touched, journal, since>> /\ device # "off"
    BY <1>11, Kept DEF Decide, Forced
  <2>2. mail' = mail \/ \E e \in Records : mail' = Append(mail, e) /\ e.type = "shutdown"
    BY <1>11, Sent
  <2>3. Lone' => Lone
    BY <2>1 DEF Active
  <2>4. ASSUME NEW e \in Records, mail' = Append(mail, e), e.type = "shutdown"
        PROVE  (AllDown(mail) => AllDown(mail')) /\ (LossLast(mail) => LossLast(mail'))
    <3>1. /\ \A i \in DOMAIN mail' : mail'[i] = e \/ (i \in DOMAIN mail /\ mail'[i] = mail[i])
          /\ \A i \in DOMAIN mail : i \in DOMAIN mail' /\ mail'[i] = mail[i]
      <4>1. /\ mail'[Len(mail')] = e
            /\ \A i \in DOMAIN mail' : i = Len(mail') \/ (i \in DOMAIN mail /\ mail'[i] = mail[i])
            /\ \A i \in DOMAIN mail : i \in DOMAIN mail' /\ mail'[i] = mail[i]
        BY <1>1, <2>4, Added
      <4>q. QED
        BY <4>1
    <3>2. DOMAIN mail = 1 .. Len(mail) /\ DOMAIN mail' = 1 .. Len(mail') /\ Len(mail') = Len(mail) + 1 /\ Len(mail) \in Nat
      BY <1>1, <2>4, SeqFacts
    <3>3. AllDown(mail) => AllDown(mail')
      BY <2>4, <3>1 DEF AllDown
    <3>4. ASSUME NEW m \in DOMAIN mail, mail[m].type = "beacon_lost", \A k \in m + 1 .. Len(mail) : mail[k].type = "shutdown"
          PROVE  LossLast(mail')
      <4>1. \A k \in m + 1 .. Len(mail') : k \in DOMAIN mail' /\ (k \in DOMAIN mail => k \in m + 1 .. Len(mail))
        BY <3>2
      <4>2. \A k \in m + 1 .. Len(mail') : mail'[k].type = "shutdown"
        BY <2>4, <3>1, <3>4, <4>1
      <4>q. QED
        BY <3>1, <3>4, <4>2 DEF LossLast
    <3>5. LossLast(mail) => LossLast(mail')
      BY <3>4 DEF LossLast
    <3>q. QED
      BY <3>3, <3>5
  <2>5. (AllDown(mail) => AllDown(mail')) /\ (LossLast(mail) => LossLast(mail'))
    BY <2>2, <2>4
  <2>6. SUFFICES ASSUME \E o \in 1 .. since + 1 : Opens(o)
                 PROVE  \E o \in 1 .. since' + 1 : Opens(o)'
    BY <1>2, <2>3, <2>5 DEF Absence
  <2>q. QED
    BY <1>4, <1>5, <2>1, <2>6
<1>12. CASE Lost \/ PowerDown \/ Crash
  BY <1>12 DEF Lost, PowerDown, Crash, Absence
<1>13. CASE Deliver
  <2>1. /\ mail # <<>> /\ Head(mail) \in Records /\ mail' = Tail(mail) /\ journal' = Append(journal, Head(mail))
        /\ UNCHANGED <<device, config, mon, touched>>
    BY <1>13, Delivered
  <2>2. since' = IF Away THEN since ELSE Len(journal) + 1
    BY <1>13 DEF Deliver, Write
  <2>3. Lone' => Lone
    BY <2>1 DEF Active
  <2>4. /\ 1 \in DOMAIN mail /\ Head(mail) = mail[1]
        /\ \A i \in DOMAIN mail' : i + 1 \in DOMAIN mail /\ mail'[i] = mail[i + 1] /\ i \in Nat
    BY <1>1, <2>1, Taken
  <2>5. /\ DOMAIN mail = 1 .. Len(mail) /\ DOMAIN mail' = 1 .. Len(mail') /\ Len(mail') = Len(mail) - 1
        /\ Len(mail) \in Nat /\ Len(mail') \in Nat
    BY <1>1, <2>1, TailFacts
  <2>6. SUFFICES ASSUME Lone
                 PROVE  (AllDown(mail') /\ \E o \in 1 .. since' + 1 : Opens(o)') \/ LossLast(mail')
    BY <2>3 DEF Absence
  <2>7. CASE AllDown(mail) /\ \E o \in 1 .. since + 1 : Opens(o)
    <3>1. AllDown(mail')
      BY <2>4, <2>7 DEF AllDown
    <3>2. Head(mail).type = "shutdown"
      BY <2>4, <2>7 DEF AllDown
    <3>3. Grew(journal, journal', {"shutdown"}) /\ {"shutdown"} \cap (BEACON_CLEARS \cup {"start"}) = {}
      BY <1>13, <3>2, Delivered DEF BEACON_CLEARS
    <3>4. since' = since
      BY <1>3, <2>2, <2>6, <2>7
    <3>q. QED
      BY <1>4, <2>7, <3>1, <3>3, <3>4
  <2>8. CASE LossLast(mail)
    <3>1. PICK m \in DOMAIN mail : mail[m].type = "beacon_lost" /\ \A k \in m + 1 .. Len(mail) : mail[k].type = "shutdown"
      BY <2>8 DEF LossLast
    <3>2. CASE m = 1
      <4>1. Head(mail).type = "beacon_lost" /\ ~Away
        BY <2>4, <3>1, <3>2 DEF Away
      <4>2. \E o \in {Len(journal) + 1} : Opens(o)'
        BY <2>1, <4>1, OpensLast
      <4>3. Len(journal) + 1 \in 1 .. since' + 1
        BY <1>1, <2>2, <4>1
      <4>4. \A k \in DOMAIN mail' : k + 1 \in m + 1 .. Len(mail)
        BY <2>5, <3>2
      <4>5. AllDown(mail')
        BY <2>4, <3>1, <4>4 DEF AllDown
      <4>q. QED
        BY <4>2, <4>3, <4>5
    <3>3. CASE m # 1
      <4>1. m - 1 \in DOMAIN mail' /\ (m - 1) + 1 = m
        BY <2>5, <3>3
      <4>2. mail'[m - 1].type = "beacon_lost"
        BY <2>4, <3>1, <4>1
      <4>3. \A k \in (m - 1) + 1 .. Len(mail') : k \in DOMAIN mail' /\ k + 1 \in m + 1 .. Len(mail)
        BY <2>5, <3>3
      <4>4. \A k \in (m - 1) + 1 .. Len(mail') : mail'[k].type = "shutdown"
        BY <2>4, <3>1, <4>3
      <4>q. QED
        BY <4>1, <4>2, <4>4 DEF LossLast
    <3>q. QED
      BY <3>2, <3>3
  <2>q. QED
    BY <1>2, <2>6, <2>7, <2>8
<1>q. QED
  BY <1>6, <1>7, <1>8, <1>9, <1>10, <1>11, <1>12, <1>13, Cases

LEMMA LostGrew ==
  ASSUME NEW s, NEW t, NEW types, NEW none, Grew(s, t, types), types \cap none = {}, LostUntil(s, none)
  PROVE  LostUntil(t, none)
<1>1. PICK m \in DOMAIN s : IsBeaconLostShutdown(s[m]) /\ NoneBehind(s, m, none)
  BY DEF LostUntil
<1>2. m \in DOMAIN t /\ t[m] = s[m] /\ NoneBehind(t, m, none)
  BY <1>1, GrewBehind
<1>q. QED
  BY <1>1, <1>2 DEF LostUntil

LEMMA DyingNext ==
  ASSUME TypeOK, Carried, Blocked, Dying, [Next]_vars
  PROVE  Dying'
<1> DEFINE D == {"shutdown", "beacon_lost"}
           E == {"start", "shutdown", "beacon_lost"}
<1>1. mail \in Seq(Records) /\ journal \in Seq(Records) /\ mon.present \in BOOLEAN
      /\ mon \in [running : BOOLEAN, ever : BOOLEAN, silence : 0 .. 2, present : BOOLEAN]
  BY DEF TypeOK
<1>2. SUFFICES ASSUME device' = "dying", why' = "beacon_lost", ~mon'.present, ~touched'
               PROVE  LostUntil(mail', D) \/ (NoneOf(mail', D) /\ LostUntil(journal', E))
  BY DEF Dying
<1>3. device = "dying" /\ why = "beacon_lost" /\ ~mon.present /\ ~touched => LostUntil(mail, D) \/ (NoneOf(mail, D) /\ LostUntil(journal, E))
  BY DEF Dying
<1>4. PlainTypes \cap E = {}
  BY DEF PlainTypes
<1>5. \A e \in Records : e.type # "start" /\ e.type \notin D => {e.type} \cap E = {}
  OBVIOUS
<1>6. {"start"} \subseteq {"start", "charging_on", "charging_off", "jpeg", "h264"}
  OBVIOUS
<1>7. E = {"start"} \cup D
  OBVIOUS
<1>8. \A r : IsBeaconLostShutdown(r) <=> r.type = "shutdown" /\ r.reason = "beacon_lost"
  BY DEF IsBeaconLostShutdown
<1> HIDE DEF D, E
<1>9. CASE Calm
  <2>1. Grew(journal, journal', PlainTypes) /\ UNCHANGED <<device, why, mon, touched, mail>>
    BY <1>9, PlainGrew DEF Calm, Same
  <2>2. LostUntil(journal, E) => LostUntil(journal', E)
    BY <1>4, <2>1, LostGrew
  <2>q. QED
    BY <1>2, <1>3, <2>1, <2>2
<1>10. CASE Start
  BY <1>2, <1>10 DEF Start
<1>11. CASE Detect \/ Silence \/ Read
  <2>1. mon'.present = mon.present
    BY <1>1, <1>11 DEF Detect, Silence, Read
  <2>q. QED
    BY <1>2, <1>3, <1>11, <2>1, Kept
<1>12. CASE PresenceTick
  <2>1. UNCHANGED <<device, why, journal>>
    BY <1>12, Kept
  <2>2. IsPresent
    <3>1. mon.present => IsPresent
      BY <1>2, <2>1 DEF Blocked
    <3>2. IsPresent # mon.present
      BY <1>12 DEF PresenceTick
    <3>3. IsPresent \in BOOLEAN
      BY DEF IsPresent
    <3>q. QED
      BY <1>1, <3>1, <3>2, <3>3
  <2>3. mon' = [mon EXCEPT !.present = IsPresent]
    BY <1>12 DEF PresenceTick
  <2>4. mon'.present
    BY <1>1, <2>2, <2>3
  <2>q. QED
    BY <1>2, <2>4
<1>13. CASE Configure
  BY <1>2, <1>13 DEF Configure
<1>14. CASE Decide
  <2>1. device = "up"
    BY <1>14, Sent
  <2>2. PICK e \in Records : mail' = Append(mail, e) /\ e.type = "shutdown" /\ e.reason = why'
    BY <1>2, <1>14, <2>1, Sent
  <2>3. IsBeaconLostShutdown(e)
    BY <1>2, <1>8, <2>2
  <2>4. Len(mail') \in DOMAIN mail' /\ mail'[Len(mail')] = e /\ NoneBehind(mail', Len(mail'), D)
    BY <1>1, <2>2, Added
  <2>q. QED
    BY <2>3, <2>4 DEF LostUntil
<1>15. CASE Forced
  BY <1>2, <1>15 DEF Forced
<1>16. CASE Deliver
  <2> DEFINE e == Head(mail)
  <2>1. /\ mail # <<>> /\ e \in Records /\ mail' = Tail(mail) /\ UNCHANGED <<device, why, mon, touched>>
        /\ Len(journal') \in DOMAIN journal' /\ journal'[Len(journal')] = e
        /\ NoneBehind(journal', Len(journal'), E)
        /\ Grew(journal, journal', {e.type})
    BY <1>16, Delivered
  <2>2. /\ 1 \in DOMAIN mail /\ e = mail[1]
        /\ \A i \in DOMAIN mail' : i + 1 \in DOMAIN mail /\ mail'[i] = mail[i + 1] /\ i \in Nat
        /\ NoneOf(mail, D) <=> NoneOf(mail', D) /\ e.type \notin D
        /\ \A i \in DOMAIN mail : i \in Nat /\ (i = 1 \/ (i - 1 \in DOMAIN mail' /\ mail'[i - 1] = mail[i]))
    BY <1>1, <2>1, Taken
  <2>3. /\ DOMAIN mail = 1 .. Len(mail) /\ DOMAIN mail' = 1 .. Len(mail') /\ Len(mail') = Len(mail) - 1
        /\ Len(mail) \in Nat /\ Len(mail') \in Nat
    BY <1>1, <2>1, TailFacts
  <2>4. e.type # "start"
    BY <1>6, <2>2 DEF Carried, NoneOf
  <2> HIDE DEF e
  <2>5. CASE LostUntil(mail, D)
    <3>1. PICK m \in DOMAIN mail : IsBeaconLostShutdown(mail[m]) /\ \A k \in m + 1 .. Len(mail) : mail[k].type \notin D
      BY <2>5 DEF LostUntil, NoneBehind
    <3>2. CASE m = 1
      <4>1. \A k \in DOMAIN mail' : k + 1 \in m + 1 .. Len(mail)
        BY <2>3, <3>2
      <4>2. NoneOf(mail', D)
        BY <2>2, <3>1, <4>1 DEF NoneOf
      <4>3. LostUntil(journal', E)
        BY <2>1, <2>2, <3>1, <3>2 DEF LostUntil
      <4>q. QED
        BY <4>2, <4>3
    <3>3. CASE m # 1
      <4>1. m - 1 \in DOMAIN mail' /\ mail'[m - 1] = mail[m]
        BY <2>2, <3>3
      <4>2. \A k \in (m - 1) + 1 .. Len(mail') : k \in DOMAIN mail' /\ k + 1 \in m + 1 .. Len(mail)
        BY <2>3, <3>3
      <4>3. NoneBehind(mail', m - 1, D)
        BY <2>2, <3>1, <4>2 DEF NoneBehind
      <4>q. QED
        BY <3>1, <4>1, <4>3 DEF LostUntil
    <3>q. QED
      BY <3>2, <3>3
  <2>6. CASE NoneOf(mail, D) /\ LostUntil(journal, E)
    <3>1. NoneOf(mail', D) /\ e.type \notin D
      BY <2>2, <2>6
    <3>2. {e.type} \cap E = {}
      BY <1>5, <2>1, <2>4, <3>1
    <3>q. QED
      BY <2>1, <2>6, <3>1, <3>2, LostGrew
  <2>q. QED
    BY <1>2, <1>3, <2>1, <2>5, <2>6
<1>17. CASE Lost \/ PowerDown \/ Crash
  BY <1>2, <1>17 DEF Lost, PowerDown, Crash
<1>q. QED
  BY <1>9, <1>10, <1>11, <1>12, <1>13, <1>14, <1>15, <1>16, <1>17, Cases

\* A step writes one record, or none; and a device that is off writes only its start.
LEMMA JournalNext ==
  ASSUME TypeOK, [Next]_vars
  PROVE  /\ journal' = journal \/ \E r \in Records : journal' = Append(journal, r)
         /\ device = "off" => \/ journal' = journal /\ device' = "off"
                              \/ \E r \in Records : journal' = Append(journal, r) /\ r.type = "start"
<1>1. CASE Calm
  BY <1>1 DEF Calm, Same, Plain, Unwritten, Write
<1>2. CASE Start
  <2>1. journal' = Append(journal, Event("start")) /\ Event("start") \in Records /\ Event("start").type = "start"
    BY <1>2, EventIs DEF Start, Types
  <2>q. QED
    BY <2>1
<1>3. CASE Detect \/ Silence \/ PresenceTick \/ Configure
  BY <1>3, Kept DEF Detect, Silence, PresenceTick, Configure
<1>4. CASE Read \/ Decide \/ Forced \/ Lost \/ PowerDown \/ Crash
  BY <1>4, Kept DEF Read, Decide, Forced, Lost, PowerDown, Crash
<1>5. CASE Deliver
  BY <1>5, Delivered DEF Deliver
<1>q. QED
  BY <1>1, <1>2, <1>3, <1>4, <1>5, Cases

LEMMA AbsentNext ==
  ASSUME TypeOK, [Next]_vars, NEW o, NEW e, Absent(o, e)
  PROVE  Absent(o, e)'
<1>1. journal \in Seq(Records)
  BY DEF TypeOK
<1>n. Len(journal) \in Nat
  BY <1>1
<1>2. DOMAIN journal = 1 .. Len(journal) /\ Len(journal) \in Nat
  BY <1>1
<1>3. /\ o \in DOMAIN journal /\ e \in o .. Len(journal) /\ journal[o].type \in {"start", "beacon_lost"}
      /\ \A k \in o + 1 .. e : journal[k].type \notin BEACON_CLEARS \cup {"start"}
      /\ Ends(journal, o, e)
      /\ IF e = Len(journal) THEN device = "off" ELSE journal[e + 1].type = "start"
  BY DEF Absent
<1>4. CASE journal' = journal
  <2>1. e = Len(journal) => device' = "off"
    <3>2. ASSUME NEW r \in Records PROVE journal' # Append(journal, r)
      <4>1. Len(Append(journal, r)) = Len(journal) + 1
        BY <1>1
      <4>2. Len(Append(journal, r)) # Len(journal)
        BY <1>n, <4>1
      <4>q. QED
        BY <1>4, <4>2
    <3>q. QED
      BY <1>3, <3>2, JournalNext
  <2>q. QED
    BY <1>3, <1>4, <2>1 DEF Absent
<1>5. ASSUME NEW r \in Records, journal' = Append(journal, r) PROVE Absent(o, e)'
  <2>1. /\ DOMAIN journal' = 1 .. Len(journal) + 1 /\ Len(journal') = Len(journal) + 1
        /\ \A i \in 1 .. Len(journal) : journal'[i] = journal[i]
        /\ journal'[Len(journal) + 1] = r
    BY <1>1, <1>5, SeqFacts
  <2>o. o \in 1 .. Len(journal) /\ e \in o .. Len(journal)
    BY <1>2, <1>3
  <2>2. o \in 1 .. Len(journal) /\ e \in 1 .. Len(journal) /\ \A k \in o .. e : k \in 1 .. Len(journal)
    BY <1>n, <2>o
  <2>e. o \in Nat /\ e \in Nat /\ e <= Len(journal)
    BY <1>n, <2>o
  <2>3. o \in DOMAIN journal' /\ e \in o .. Len(journal') /\ journal'[o].type \in {"start", "beacon_lost"}
    <3>1. o \in 1 .. Len(journal) + 1 /\ e \in o .. Len(journal) + 1
      BY <1>n, <2>o
    <3>2. journal'[o] = journal[o]
      BY <2>1, <2>o
    <3>q. QED
      BY <1>3, <2>1, <3>1, <3>2
  <2>4. \A k \in o + 1 .. e : k \in o .. e
    BY <2>e
  <2>5. \A k \in o + 1 .. e : journal'[k].type \notin BEACON_CLEARS \cup {"start"}
    BY <1>3, <2>1, <2>2, <2>4
  <2>6. Ends(journal', o, e)
    <3>1. PICK j \in o .. e : IsBeaconLostShutdown(journal[j]) /\ \A k \in j + 1 .. e : journal[k].type # "shutdown"
      BY <1>3 DEF Ends
    <3>2. \A k \in j + 1 .. e : k \in o .. e
      BY <2>2, <3>1
    <3>q. QED
      BY <2>1, <2>2, <3>1, <3>2 DEF Ends
  <2>7. e # Len(journal') /\ journal'[e + 1].type = "start"
    <3>1. CASE e = Len(journal)
      <4>1. r.type = "start"
        <5>1. device = "off"
          BY <1>3, <3>1
        <5>2. journal' # journal
          BY <1>2, <2>1
        <5>3. \A q \in Records : journal' = Append(journal, q) => q = r
          <6>1. \A q \in Records : Append(journal, q)[Len(journal) + 1] = q
            BY <1>1, SeqFacts
          <6>q. QED
            BY <2>1, <6>1
        <5>q. QED
          BY <5>1, <5>2, <5>3, JournalNext
      <4>2. e # Len(journal') /\ journal'[e + 1] = r
        BY <1>n, <2>1, <3>1
      <4>q. QED
        BY <4>1, <4>2
    <3>2. CASE e # Len(journal)
      <4>1. e + 1 \in 1 .. Len(journal)
        BY <1>n, <2>e, <3>2
      <4>2. journal[e + 1].type = "start"
        BY <1>3, <3>2
      <4>q. QED
        <5>1. journal'[e + 1] = journal[e + 1]
          BY <2>1, <4>1
        <5>2. Len(journal') = Len(journal) + 1
          BY <2>1
        <5>3. e # Len(journal')
          BY <1>n, <2>e, <5>2
        <5>q. QED
          BY <4>2, <5>1, <5>3
    <3>q. QED
      BY <3>1, <3>2
  <2>q. QED
    BY <2>3, <2>5, <2>6, <2>7 DEF Absent
<1>q. QED
  BY <1>4, <1>5, JournalNext

LEMMA ParkedNext ==
  ASSUME TypeOK, Absence, Dying, Parked, [Next]_vars
  PROVE  Parked'
<1>1. journal \in Seq(Records) /\ since \in 0 .. Len(journal) /\ Len(journal) \in Nat
  BY DEF TypeOK
<1>2. DOMAIN journal = 1 .. Len(journal) /\ DOMAIN mail = 1 .. Len(mail)
  BY DEF TypeOK
<1>3. ASSUME NEW i \in parked PROVE i \in Nat /\ \E o \in 1 .. i : \E e \in i .. Len(journal') : Absent(o, e)'
  <2>1. PICK o \in 1 .. i : \E e \in i .. Len(journal) : Absent(o, e)
    BY <1>3 DEF Parked
  <2>2. PICK e \in i .. Len(journal) : Absent(o, e)
    BY <2>1
  <2>3. Absent(o, e)'
    BY <2>2, AbsentNext
  <2>4. e \in i .. Len(journal')
    <3>0. e \in o .. Len(journal) /\ o \in DOMAIN journal
      BY <2>2 DEF Absent
    <3>1. e \in Nat /\ e \in o .. Len(journal)
      BY <1>1, <1>2, <3>0
    <3>2. e \in o .. Len(journal')
      BY <2>3 DEF Absent
    <3>3. journal' \in Seq(Records)
      BY TypeNext DEF TypeOK
    <3>q. QED
      BY <2>2, <3>1, <3>2, <3>3
  <2>q. QED
    BY <1>3, <2>3, <2>4 DEF Parked
<1>4. CASE parked' = parked
  BY <1>3, <1>4 DEF Parked
<1>5. CASE PowerDown
  <2>1. /\ device = "dying" /\ mail = <<>> /\ device' = "off" /\ journal' = journal
        /\ parked' = IF Away /\ why = "beacon_lost" THEN parked \cup (since + 1 .. Len(journal)) ELSE parked
    BY <1>5 DEF PowerDown, Unwritten
  <2>2. ASSUME Away, why = "beacon_lost", NEW i \in since + 1 .. Len(journal)
        PROVE  \E o \in 1 .. i : \E e \in i .. Len(journal') : Absent(o, e)'
    <3>1. DOMAIN mail = {}
      BY <2>1
    <3>2. PICK o \in 1 .. since + 1 : Opens(o)
      BY <2>1, <2>2, <3>1 DEF Absence, Away, LossLast
    <3>3. PICK m \in DOMAIN journal : /\ IsBeaconLostShutdown(journal[m])
                                      /\ \A k \in m + 1 .. Len(journal) : journal[k].type \notin {"start", "shutdown", "beacon_lost"}
      BY <2>1, <2>2, <3>1 DEF Away, Dying, LostUntil, NoneBehind
    <3>4. o \in DOMAIN journal /\ journal[o].type \in {"start", "beacon_lost"}
          /\ \A k \in o + 1 .. Len(journal) : journal[k].type \notin BEACON_CLEARS \cup {"start"}
      BY <3>2 DEF Opens, NoneBehind
    <3>5. m \in o .. Len(journal)
      <4>1. m < o => o \in m + 1 .. Len(journal)
        BY <1>1, <1>2, <3>3, <3>4
      <4>q. QED
        BY <1>1, <1>2, <3>3, <3>4, <4>1
    <3>6. Ends(journal, o, Len(journal))
      BY <3>3, <3>5 DEF Ends
    <3>7. o \in 1 .. i /\ Len(journal) \in i .. Len(journal) /\ Len(journal) \in o .. Len(journal)
      BY <1>1, <1>2, <3>4
    <3>8. ASSUME NEW e, e = Len(journal) PROVE Absent(o, e)'
      BY <2>1, <3>4, <3>6, <3>7, <3>8 DEF Absent
    <3>q. QED
      BY <2>1, <3>7, <3>8
  <2>3. \A i \in since + 1 .. Len(journal) : i \in Nat
    BY <1>1
  <2>q. QED
    BY <1>3, <1>4, <2>1, <2>2, <2>3 DEF Parked
<1>6. Calm \/ Start \/ Detect \/ Silence \/ Read \/ PresenceTick \/ Configure \/ Decide \/ Forced
      \/ Deliver \/ Lost \/ Crash => parked' = parked
  BY Kept DEF Calm, Same, Start, Deliver
<1>q. QED
  BY <1>4, <1>5, <1>6, Cases

-----------------------------------------------------------------------------
(* The invariant                                                               *)

LEMMA InvInit == Init => Inv
<1> SUFFICES ASSUME Init PROVE Inv
  OBVIOUS
<1>1. TypeOK
  BY TypeInit
<1>2. /\ device = "off" /\ why = "none" /\ reading = "none" /\ core = "none" /\ mail = <<>> /\ journal = <<>> /\ parked = {}
      /\ config.target /\ mon = [running |-> FALSE, ever |-> FALSE, silence |-> 0, present |-> FALSE]
  BY DEF Init, Fresh
<1>3. DOMAIN mail = {} /\ DOMAIN journal = {}
  BY <1>2
<1>4. Silent /\ Carried /\ Opened /\ Powered /\ Blocked /\ Found
  BY <1>2, <1>3 DEF Silent, Carried, NoneOf, Opened, Powered, Blocked, Found
<1>5. Monitor
  BY <1>2 DEF Monitor
<1>6. Switched /\ Overtaken /\ Answered
  BY <1>2, <1>3 DEF Switched, EndsOff, Overtaken, SomeLost, Answered
<1>7. Absence /\ Dying /\ Parked
  BY <1>2 DEF Absence, Dying, Parked
<1>q. QED
  BY <1>1, <1>4, <1>5, <1>6, <1>7 DEF Inv

LEMMA InvNext == Inv /\ [Next]_vars => Inv'
<1> SUFFICES ASSUME Inv, [Next]_vars PROVE Inv'
  OBVIOUS
<1>1. /\ TypeOK /\ Silent /\ Carried /\ Opened /\ Powered /\ Monitor /\ Blocked
      /\ Found /\ Switched /\ Overtaken /\ Answered /\ Absence /\ Dying /\ Parked
  BY DEF Inv
<1>2. TypeOK' /\ Silent' /\ Carried'
  BY <1>1, TypeNext, SilentNext, CarriedNext
<1>3. Opened'
  BY <1>1, OpenedNext
<1>4. Powered' /\ Monitor' /\ Blocked'
  BY <1>1, PoweredNext, MonitorNext, BlockedNext
<1>5. Found' /\ Switched'
  BY <1>1, FoundNext, SwitchedNext
<1>6. Overtaken' /\ Answered'
  BY <1>1, OvertakenNext, AnsweredNext
<1>7. Absence' /\ Dying' /\ Parked'
  BY <1>1, AbsenceNext, DyingNext, ParkedNext
<1>q. QED
  BY <1>2, <1>3, <1>4, <1>5, <1>6, <1>7 DEF Inv

(* Of every reachable state, for any number of records, sessions and odd events: types, what  *)
(* is on the bus, what it and the monitor say of the journal's records, and that the places   *)
(* in parked belong to absences of the journal that a beacon-lost shutdown has ended.         *)
THEOREM Invariance == Spec => []Inv
<1>1. Init => Inv
  BY InvInit
<1>2. Inv /\ [Next]_vars => Inv'
  BY InvNext
<1>q. QED
  BY <1>1, <1>2, PTL DEF Spec

-----------------------------------------------------------------------------
(* Windows of the journal                                                      *)

LEMMA WindowIs ==
  ASSUME NEW S, NEW s \in Seq(S), NEW w \in DOMAIN s
  PROVE  LET ev == SubSeq(s, w, Len(s)) IN
         /\ Len(s) \in Nat /\ DOMAIN s = 1 .. Len(s) /\ w \in 1 .. Len(s)
         /\ Len(ev) = Len(s) - w + 1 /\ Journal(ev)
         /\ \A k \in 1 .. Len(ev) : ev[k] = s[k + w - 1]
         /\ \A i \in w .. Len(s) : i - w + 1 \in 1 .. Len(ev) /\ ev[i - w + 1] = s[i]
<1> DEFINE ev == SubSeq(s, w, Len(s))
           n == Len(s)
<1>1. n \in Nat /\ DOMAIN s = 1 .. n /\ w \in 1 .. n
  OBVIOUS
<1>2. /\ ev \in Seq(S) /\ Len(ev) = n - w + 1
      /\ \A k \in 1 .. n - w + 1 : ev[k] = s[w + k - 1]
  BY <1>1, SubSeqProperties
<1>3. Journal(ev)
  BY <1>2 DEF Journal
<1> HIDE DEF ev, n
<1>4. ASSUME NEW k \in 1 .. Len(ev) PROVE ev[k] = s[k + w - 1]
  <2>1. k \in 1 .. n - w + 1 /\ w + k - 1 = k + w - 1
    BY <1>1, <1>2
  <2>2. ev[k] = s[w + k - 1]
    BY <1>2, <2>1
  <2>q. QED
    BY <2>1, <2>2
<1>5. ASSUME NEW i \in w .. n PROVE i - w + 1 \in 1 .. Len(ev) /\ ev[i - w + 1] = s[i]
  <2> DEFINE k == i - w + 1
  <2>1. k \in 1 .. Len(ev) /\ k + w - 1 = i
    BY <1>1, <1>2
  <2> HIDE DEF k
  <2>2. ev[k] = s[i]
    BY <1>4, <2>1
  <2>q. QED
    BY <2>1, <2>2 DEF k
<1>q. QED
  BY <1>1, <1>2, <1>3, <1>4, <1>5 DEF ev, n

(* In every window of every journal the recorder writes, the tile shows the    *)
(* segment the page has open: _last_segment of get_trip_state.py and           *)
(* buildBlocks of the page, though their scans for absences are written apart. *)
THEOREM TileAgreement == Spec => []TileAgrees
<1>1. Inv => TileAgrees
  <2> SUFFICES ASSUME Inv, NEW w \in DOMAIN journal
               PROVE  LastSegment(Window(w)) =
                        IF Segments(Window(w)) = <<>> THEN NoSegment ELSE Last(Segments(Window(w)))
    BY DEF TileAgrees
  <2>1. journal \in Seq(Records)
    BY DEF Inv, TypeOK
  <2>2. Journal(Window(w))
    BY <2>1, WindowIs DEF Window
  <2>q. QED
    BY <2>2, TileIsPage
<1>q. QED
  BY <1>1, Invariance, PTL

-----------------------------------------------------------------------------
(* The past of the page                                                        *)

LEMMA StandsNext ==
  ASSUME Inv, [Next]_vars, journal' # journal
  PROVE  LET last == Max({0} \cup {i \in DOMAIN journal : journal[i].type \in BEACON_CLEARS})
         IN  Until(Segments(journal'), last) = Until(Segments(journal), last)
<1> DEFINE T == {0} \cup {i \in DOMAIN journal : journal[i].type \in BEACON_CLEARS}
           n == Len(journal)
<1>1. journal \in Seq(Records) /\ TypeOK
  BY DEF Inv, TypeOK
<1>2. PICK r \in Records : journal' = Append(journal, r)
  BY <1>1, JournalNext
<1>3. /\ Len(journal') = Len(journal) + 1 /\ \A i \in 1 .. Len(journal) : journal'[i] = journal[i]
      /\ DOMAIN journal' = 1 .. Len(journal) + 1
  BY <1>1, <1>2, SeqFacts
<1>4. n \in Nat
  BY <1>1
<1>5. DOMAIN journal = 1 .. n
  BY <1>1
<1>6. Journal(journal) /\ Journal(journal') /\ Extends(journal, journal')
  <2>1. Journal(journal) /\ Extends(journal, journal')
    BY <1>3, <1>4, <1>5 DEF Journal, Extends
  <2>2. Len(journal') \in Nat
    BY <1>3, <1>4
  <2>q. QED
    BY <1>3, <2>1, <2>2 DEF Journal
<1>7. T \in SUBSET (0 .. n) /\ T # {}
  BY <1>4, <1>5
<1> HIDE DEF n
<1>8. Max(T) \in T
  <2> HIDE DEF T
  <2>q. QED
    BY <1>4, <1>7, MaxOf
<1>9. Max(T) \in 0 .. n
  BY <1>7, <1>8
<1>10. Max(T) > 0 => journal[Max(T)].type \in BEACON_CLEARS
  BY <1>8
<1> DEFINE last == Max(T)
<1> HIDE DEF T, last
<1>11. last \in 0 .. Len(journal) /\ (last > 0 => journal[last].type \in BEACON_CLEARS)
  BY <1>9, <1>10 DEF last, n
<1>12. Until(Segments(journal'), last) = Until(Segments(journal), last)
  BY <1>6, <1>11, UntilStands
<1>q. QED
  BY <1>12 DEF last, T

(* No step rewrites the page up to the last sighting or switch of the beacon:  *)
(* a record that is written later only changes what buildBlocks shows behind   *)
(* it, for any number of records, sessions and odd events.                     *)
THEOREM PastStands == Spec => HistoryStands
<1>1. Inv /\ [Next]_vars =>
        [ journal' # journal =>
            LET last == Max({0} \cup {i \in DOMAIN journal : journal[i].type \in BEACON_CLEARS})
                Until2(segs) == {<<b, segs[b]>> : b \in {c \in DOMAIN segs : segs[c].start <= last}}
            IN  Until2(Segments(journal')) = Until2(Segments(journal)) ]_vars
  BY StandsNext DEF Until
<1>q. QED
  BY <1>1, Invariance, PTL DEF Spec, HistoryStands

-----------------------------------------------------------------------------
(* What the pass knows at a record                                             *)

\* What sets the pass' absence.
Mark(ev, m) == m \in AbsentSessionStart(ev) \cup RealLoss(ev)

\* The beacon is absent at i behind a mark and up to a clear.
LEMMA AbsentIs ==
  ASSUME NEW ev, Journal(ev)
  PROVE  \A i \in 0 .. Len(ev) :
           Reading(ev)[i].absent <=>
             \E m \in 1 .. i : Mark(ev, m) /\ \A k \in m .. i : ev[k].type \notin BEACON_CLEARS
<1> DEFINE n == Len(ev)
           R == Reading(ev)
           real == RealLoss(ev)
           absent == AbsentSessionStart(ev)
           C(k) == ev[k].type \in BEACON_CLEARS
           M(k) == Mark(ev, k)
           T == {i \in 0 .. n : R[i].absent <=> \E m \in 1 .. i : M(m) /\ \A k \in m .. i : ~C(k)}
<1>0. n \in Nat
  BY DEF Journal
<1>1. R[0].absent = FALSE
  BY ReadingIs DEF Blank
<1>2. \A i \in 1 .. n : Effect(ev, real, absent, R[i - 1], i, R[i])
  BY ReadingIs
<1>3. \A i \in real : ev[i].type \notin DOMAIN Charges
  BY Charging DEF RealLoss
<1>4. \A i \in 1 .. n : R[i].absent <=> ~C(i) /\ (R[i - 1].absent \/ M(i))
  BY <1>2, <1>3 DEF Effect, Mark
<1> HIDE DEF n, R, C, M
<1>5. 0 \in T
  <2>1. 1 .. 0 = {}
    OBVIOUS
  <2>q. QED
    BY <1>0, <1>1, <2>1
<1>6. ASSUME NEW i \in 1 .. n, i - 1 \in T PROVE i \in T
  <2>0. i \in Nat /\ i - 1 \in Nat
    BY <1>0
  <2>1. R[i - 1].absent <=> \E m \in 1 .. i - 1 : M(m) /\ \A k \in m .. i - 1 : ~C(k)
    BY <1>6
  <2>2. ASSUME R[i].absent PROVE \E m \in 1 .. i : M(m) /\ \A k \in m .. i : ~C(k)
    <3>1. ~C(i) /\ (R[i - 1].absent \/ M(i))
      BY <1>4, <2>2
    <3>2. CASE M(i)
      <4>1. \A k \in i .. i : k = i
        BY <2>0
      <4>q. QED
        BY <2>0, <3>1, <3>2, <4>1
    <3>3. CASE R[i - 1].absent
      <4>1. PICK m \in 1 .. i - 1 : M(m) /\ \A k \in m .. i - 1 : ~C(k)
        BY <2>1, <3>3
      <4>2. m \in 1 .. i /\ \A k \in m .. i : k = i \/ k \in m .. i - 1
        BY <2>0
      <4>q. QED
        BY <3>1, <4>1, <4>2
    <3>q. QED
      BY <3>1, <3>2, <3>3
  <2>3. ASSUME NEW m \in 1 .. i, M(m), \A k \in m .. i : ~C(k) PROVE R[i].absent
    <3>1. i \in m .. i
      BY <2>0
    <3>2. CASE m = i
      BY <1>4, <2>3, <3>1, <3>2
    <3>3. CASE m # i
      <4>1. m \in 1 .. i - 1 /\ \A k \in m .. i - 1 : k \in m .. i
        BY <2>0, <3>3
      <4>2. R[i - 1].absent
        BY <2>1, <2>3, <4>1
      <4>q. QED
        BY <1>4, <2>3, <3>1, <4>2
    <3>q. QED
      BY <3>2, <3>3
  <2>q. QED
    BY <1>0, <2>2, <2>3
<1>7. 0 .. n \subseteq T
  <2> HIDE DEF T
  <2>q. QED
    BY <1>0, <1>5, <1>6, UpTo
<1>8. \A i \in 0 .. n : R[i].absent <=> \E m \in 1 .. i : M(m) /\ \A k \in m .. i : ~C(k)
  BY <1>7
<1>q. QED
  BY <1>8 DEF n, R, C, M

\* Power is known from its last record.
LEMMA PoweredIs ==
  ASSUME NEW ev, Journal(ev), NEW c \in 1 .. Len(ev), ev[c].type = "charging_on",
         \A k \in c + 1 .. Len(ev) : ev[k].type \notin DOMAIN Charges
  PROVE  Reading(ev)[Len(ev)].charging = "on"
<1> DEFINE n == Len(ev)
           R == Reading(ev)
           T == {i \in 0 .. n : i >= c => R[i].charging = "on"}
<1>0. n \in Nat /\ c \in 1 .. n
  BY DEF Journal
<1>1. \A i \in 1 .. n : R[i].charging = IF ev[i].type \in DOMAIN Charges THEN Charges[ev[i].type] ELSE R[i - 1].charging
  BY ReadingIs DEF Effect
<1>2. \A k \in c + 1 .. n : ev[k].type \notin DOMAIN Charges
  OBVIOUS
<1> HIDE DEF n, R
<1>3. 0 \in T
  BY <1>0
<1>4. ASSUME NEW i \in 1 .. n, i - 1 \in T PROVE i \in T
  <2>1. CASE i < c
    BY <1>0, <2>1
  <2>2. CASE i = c
    <3>1. R[i].charging = "on"
      BY <1>1, <2>2, Charging
    <3>q. QED
      BY <1>0, <3>1
  <2>3. CASE i > c
    <3>1. i \in c + 1 .. n /\ i - 1 >= c
      BY <1>0, <2>3
    <3>2. R[i].charging = R[i - 1].charging
      BY <1>1, <1>2, <3>1
    <3>3. R[i - 1].charging = "on"
      BY <1>4, <3>1
    <3>q. QED
      BY <1>0, <3>2, <3>3
  <2>q. QED
    BY <1>0, <2>1, <2>2, <2>3
<1>5. 0 .. n \subseteq T
  <2> HIDE DEF T
  <2>q. QED
    BY <1>0, <1>3, <1>4, UpTo
<1>6. n \in T
  BY <1>0, <1>5
<1>q. QED
  BY <1>0, <1>6 DEF n, R

-----------------------------------------------------------------------------
(* A confirmed absence                                                         *)

\* Places of the journal as places of the window that begins at w.
Placed(n, w, o, e, j) ==
  LET p == IF o >= w THEN o ELSE w
       q == IF o >= w THEN o - w + 1 ELSE 1
       f == e - w + 1
       z == j - w + 1
   IN  /\ q \in 1 .. f /\ f \in 1 .. n - w + 1 /\ q + w - 1 = p /\ p \in 1 .. n /\ (p = o \/ p \in o + 1 .. e)
       /\ q \in 1 .. n - w + 1 /\ z \in q .. f /\ z \in 1 .. n - w + 1 /\ z + w - 1 = j
       /\ \A k \in q + 1 .. f : k \in 1 .. n - w + 1 /\ k + w - 1 \in o + 1 .. e
       /\ \A k \in z + 1 .. f : k \in 1 .. n - w + 1 /\ k + w - 1 \in j + 1 .. e
       /\ \A k \in q .. f : k = q \/ k \in q + 1 .. f
       /\ z # q => z \in q + 1 .. n - w + 1 /\ \A k \in q + 1 .. z - 1 : k \in q + 1 .. f
       /\ f \in q .. n - w + 1
       /\ e = n => f = n - w + 1
       /\ e # n => f + 1 \in 1 .. n - w + 1 /\ (f + 1) + w - 1 = e + 1

LEMMA Places ==
  ASSUME NEW n \in Nat, NEW w \in 1 .. n, NEW o \in 1 .. n, NEW e \in o .. n, w <= e, NEW j \in o .. e, w <= j
  PROVE  Placed(n, w, o, e, j)
BY DEF Placed

LEMMA AbsenceMarked ==
  ASSUME NEW S, NEW s \in Seq(S), NEW w \in DOMAIN s, NEW o \in DOMAIN s, NEW e \in o .. Len(s), w <= e,
         o >= w => s[o].type \in {"start", "beacon_lost"},
         \A k \in o + 1 .. e : s[k].type \notin BEACON_CLEARS \cup {"start"},
         \E j \in o .. e : /\ IsBeaconLostShutdown(s[j]) /\ \A k \in j + 1 .. e : s[k].type # "shutdown"
                           /\ w <= j,
         e = Len(s) \/ s[e + 1].type = "start"
  PROVE  LET ev == SubSeq(s, w, Len(s))
             q == IF o >= w THEN o - w + 1 ELSE 1
         IN  Mark(ev, q) /\ q \in 1 .. e - w + 1
             /\ \A k \in q .. e - w + 1 : ev[k].type \notin BEACON_CLEARS
<1> DEFINE ev == SubSeq(s, w, Len(s))
           n == Len(s)
           p == IF o >= w THEN o ELSE w
           q == IF o >= w THEN o - w + 1 ELSE 1
           f == e - w + 1
           L == Len(ev)
           C == BEACON_CLEARS \cup {"start"}
<1>1. L = n - w + 1 /\ Journal(ev) /\ \A k \in 1 .. L : ev[k] = s[k + w - 1]
  BY WindowIs
<1>2. PICK j \in o .. e : IsBeaconLostShutdown(s[j]) /\ w <= j /\ \A k \in j + 1 .. e : s[k].type # "shutdown"
  OBVIOUS
<1> DEFINE z == j - w + 1
<1>3. n \in Nat /\ w \in 1 .. n /\ o \in 1 .. n /\ e \in o .. n
  OBVIOUS
<1> HIDE DEF ev, n, L
<1>m. /\ q \in 1 .. f /\ q + w - 1 = p /\ (p = o \/ p \in o + 1 .. e)
      /\ q \in 1 .. n - w + 1 /\ z \in q .. f /\ z \in 1 .. n - w + 1 /\ z + w - 1 = j
      /\ \A k \in q + 1 .. f : k \in 1 .. n - w + 1 /\ k + w - 1 \in o + 1 .. e
      /\ \A k \in z + 1 .. f : k \in 1 .. n - w + 1 /\ k + w - 1 \in j + 1 .. e
      /\ \A k \in q .. f : k = q \/ k \in q + 1 .. f
      /\ z # q => z \in q + 1 .. n - w + 1 /\ \A k \in q + 1 .. z - 1 : k \in q + 1 .. f
      /\ f \in q .. n - w + 1
      /\ e = n => f = n - w + 1
      /\ e # n => f + 1 \in 1 .. n - w + 1 /\ (f + 1) + w - 1 = e + 1
  <2>1. w <= e /\ j \in o .. e /\ w <= j
    BY <1>2
  <2>2. Placed(n, w, o, e, j)
    BY <1>3, <2>1, Places
  <2>q. QED
    BY <2>2 DEF Placed
<1>4. /\ q \in 1 .. f /\ q + w - 1 = p /\ (p = o \/ p \in o + 1 .. e)
      /\ q \in 1 .. L /\ z \in q .. f /\ z \in 1 .. L /\ z + w - 1 = j
      /\ \A k \in q + 1 .. f : k \in 1 .. L /\ k + w - 1 \in o + 1 .. e
      /\ \A k \in z + 1 .. f : k \in 1 .. L /\ k + w - 1 \in j + 1 .. e
      /\ \A k \in q .. f : k = q \/ k \in q + 1 .. f
      /\ z # q => z \in q + 1 .. L /\ \A k \in q + 1 .. z - 1 : k \in q + 1 .. f
      /\ f \in q .. L
      /\ e = n => f = L
      /\ e # n => f + 1 \in 1 .. L /\ (f + 1) + w - 1 = e + 1
  BY <1>1, <1>m
<1>5. e = n \/ s[e + 1].type = "start"
  BY DEF n
<1>6. (o >= w => p = o) /\ (~(o >= w) => q = 1) /\ (p = o => o >= w)
  BY <1>3
<1>s. \A k \in o + 1 .. e : s[k].type \notin C
  OBVIOUS
<1>t. o >= w => s[o].type \in {"start", "beacon_lost"}
  OBVIOUS
<1> HIDE DEF p, q, f, z, C
<1>7. \A k \in q + 1 .. f : ev[k].type \notin C
  BY <1>1, <1>4, <1>s
<1>8. ev[q] = s[p] /\ ev[z] = s[j]
  BY <1>1, <1>4
<1>9. ev[q].type \notin BEACON_CLEARS
  <2>1. CASE p = o
    <3>1. s[o].type \in {"start", "beacon_lost"}
      BY <1>6, <1>t, <2>1
    <3>q. QED
      BY <1>8, <2>1, <3>1 DEF BEACON_CLEARS
  <2>2. CASE p \in o + 1 .. e
    BY <1>8, <1>s, <2>2 DEF C
  <2>q. QED
    BY <1>4, <2>1, <2>2
<1>10. \A k \in q .. f : ev[k].type \notin BEACON_CLEARS
  BY <1>4, <1>7, <1>9 DEF C
<1>11. \A k \in z + 1 .. f : ev[k].type # "shutdown"
  BY <1>1, <1>2, <1>4
<1>12. Mark(ev, q)
  <2>1. CASE o >= w /\ s[o].type = "beacon_lost"
    <3>1. ev[q].type = "beacon_lost"
      BY <1>6, <1>8, <2>1
    <3>2. z # q
      BY <1>2, <1>8, <3>1 DEF IsBeaconLostShutdown
    <3>3. z \in q + 1 .. L /\ \A k \in q + 1 .. z - 1 : ev[k].type \notin BEACON_CLEARS
      BY <1>4, <1>7, <3>2 DEF C
    <3>4. q \in DOMAIN ev
      BY <1>1, <1>4 DEF Journal, L
    <3>5. q \in RealLoss(ev)
      BY <1>2, <1>8, <3>1, <3>3, <3>4 DEF RealLoss, L
    <3>q. QED
      BY <3>5 DEF Mark
  <2>2. CASE ~(o >= w /\ s[o].type = "beacon_lost")
    <3>1. q = 1 \/ ev[q].type = "start"
      BY <1>6, <1>8, <1>t, <2>2
    <3>2. f = L \/ ev[f + 1].type = "start"
      <4>1. CASE e = n
        BY <1>4, <4>1
      <4>2. CASE e # n
        <5>1. ev[f + 1] = s[e + 1]
          BY <1>1, <1>4, <4>2
        <5>q. QED
          BY <1>5, <4>2, <5>1
      <4>q. QED
        BY <4>1, <4>2
    <3>3. Ends(ev, q, f)
      BY <1>2, <1>4, <1>8, <1>11 DEF Ends
    <3>4. ~Saw(ev, q, f)
      BY <1>10 DEF Saw
    <3>5. \A k \in q + 1 .. f : ev[k].type # "start"
      BY <1>7 DEF C
    <3>6. q \in AbsentSessionStart(ev)
      BY <1>1, <1>4, <3>1, <3>2, <3>3, <3>4, <3>5, AbsentAt DEF L
    <3>q. QED
      BY <3>6 DEF Mark
  <2>q. QED
    BY <2>1, <2>2
<1>q. QED
  BY <1>4, <1>10, <1>12 DEF ev, n, q, f

(* A confirmed absence is parking in every window the page can load: whatever  *)
(* recorded places the absence has, and wherever the daily files cut the       *)
(* journal, passes 1b and 2 of buildBlocks show no trip there.                 *)
THEOREM AbsenceIsParking == Spec => []AwayIsParking
<1>1. Inv => AwayIsParking
  <2> SUFFICES ASSUME Inv, NEW w \in Windows, NEW i \in parked, i >= w, BlockAt(Segments(Window(w)), i - w + 1) > 0
               PROVE  Segments(Window(w))[BlockAt(Segments(Window(w)), i - w + 1)].kind = "parking"
    BY DEF AwayIsParking
  <2>1. journal \in Seq(Records) /\ Parked
    BY DEF Inv, TypeOK
  <2>2. /\ w \in DOMAIN journal
        /\ \A x \in 1 .. w :
             \/ journal[x].type \notin {"shutdown", "beacon_enabled", "beacon_disabled"}
             \/ x = w /\ journal[x].type # "shutdown"
             \/ \E y \in x + 1 .. w : journal[y].type = "start"
    BY DEF Windows
  <2>3. PICK o \in 1 .. i : \E e \in i .. Len(journal) : Absent(o, e)
    BY <2>1 DEF Parked
  <2>4. PICK e \in i .. Len(journal) : Absent(o, e)
    BY <2>3
  <2>5. /\ o \in DOMAIN journal /\ e \in o .. Len(journal) /\ journal[o].type \in {"start", "beacon_lost"}
        /\ \A k \in o + 1 .. e : journal[k].type \notin BEACON_CLEARS \cup {"start"}
        /\ e = Len(journal) \/ journal[e + 1].type = "start"
    BY <2>4 DEF Absent
  <2>6. PICK j \in o .. e : IsBeaconLostShutdown(journal[j]) /\ \A k \in j + 1 .. e : journal[k].type # "shutdown"
    BY <2>4 DEF Absent, Ends
  <2>7. /\ Len(journal) \in Nat /\ w \in 1 .. Len(journal) /\ o \in 1 .. Len(journal)
    BY <2>1, <2>2, <2>5
  <2>i. i \in Nat
    BY <2>1 DEF Parked
  <2>8. o <= i /\ i <= e /\ i \in Nat /\ e \in Nat /\ w \in Nat /\ o \in Nat /\ j \in Nat /\ o >= 1 /\ w <= e /\ j <= e /\ o <= j
    BY <2>3, <2>4, <2>6, <2>7, <2>i
  <2>9. w <= j
    <3>1. SUFFICES ASSUME j < w PROVE FALSE
      BY <2>8
    <3>2. j \in 1 .. w /\ j # w /\ \A y \in j + 1 .. w : y \in o + 1 .. e
      BY <2>8, <3>1
    <3>3. PICK y \in j + 1 .. w : journal[y].type = "start"
      BY <2>2, <2>6, <3>2 DEF IsBeaconLostShutdown
    <3>q. QED
      BY <2>5, <3>2, <3>3
  <2> DEFINE ev == Window(w)
             q == IF o >= w THEN o - w + 1 ELSE 1
             p == i - w + 1
  <2>10. Mark(ev, q) /\ \A k \in q .. e - w + 1 : ev[k].type \notin BEACON_CLEARS
    <3>1. \E x \in o .. e : /\ IsBeaconLostShutdown(journal[x]) /\ \A k \in x + 1 .. e : journal[k].type # "shutdown"
                            /\ w <= x
      BY <2>6, <2>9
    <3>2. LET fv == SubSeq(journal, w, Len(journal))
              r == IF o >= w THEN o - w + 1 ELSE 1
          IN  Mark(fv, r) /\ r \in 1 .. e - w + 1 /\ \A k \in r .. e - w + 1 : fv[k].type \notin BEACON_CLEARS
      BY <2>1, <2>2, <2>5, <2>8, <3>1, AbsenceMarked
    <3>q. QED
      BY <3>2 DEF Window
  <2>11. Journal(ev) /\ p \in 1 .. Len(ev)
    <3>1. i \in w .. Len(journal)
      BY <2>7, <2>8, <2>4
    <3>q. QED
      BY <2>1, <2>2, <3>1, WindowIs DEF Window
  <2>12. q \in 1 .. p /\ p \in Nat /\ \A k \in q .. p : k \in q .. e - w + 1
    BY <2>8
  <2> HIDE DEF ev, q, p
  <2>13. p \in 0 .. Len(ev)
    BY <2>11, <2>12 DEF Journal
  <2>14. Reading(ev)[p].absent
    BY <2>10, <2>11, <2>12, <2>13, AbsentIs
  <2>15. Kind(Reading(ev)[p]) = "parking"
    BY <2>14 DEF Kind
  <2>16. BlockAt(Segments(ev), p) > 0 => Segments(ev)[BlockAt(Segments(ev), p)].kind = "parking"
    BY <2>11, <2>13, <2>15, BlockIs
  <2>q. QED
    BY <2>16 DEF ev, p
<1>q. QED
  BY <1>1, Invariance, PTL

-----------------------------------------------------------------------------
(* A running device                                                            *)

\* A mark has a shutdown for the beacon behind it; in between, no start of a session that is
\* absent from its start.
LEMMA MarkIs ==
  ASSUME NEW ev, Journal(ev), NEW m \in 1 .. Len(ev), Mark(ev, m)
  PROVE  \E j \in m .. Len(ev) :
           /\ IsBeaconLostShutdown(ev[j])
           /\ \/ ev[m].type = "beacon_lost"
              \/ m = 1 \/ ev[m].type = "start"
<1>0. Len(ev) \in Nat /\ DOMAIN ev = 1 .. Len(ev)
  BY DEF Journal
<1>1. CASE m \in RealLoss(ev)
  <2>1. ev[m].type = "beacon_lost" /\ \E j \in m + 1 .. Len(ev) : IsBeaconLostShutdown(ev[j])
    BY <1>1 DEF RealLoss
  <2>2. \A j \in m + 1 .. Len(ev) : j \in m .. Len(ev)
    BY <1>0
  <2>q. QED
    BY <2>1, <2>2
<1>2. CASE m \in AbsentSessionStart(ev)
  <2> DEFINE X == SessionOf(ev, m)
             Y == {i \in X : ev[i].type = "shutdown"}
  <2>1. /\ m = 1 \/ ev[m].type = "start"
        /\ Y # {} /\ IsBeaconLostShutdown(ev[Max(Y)])
    BY <1>2 DEF AbsentSessionStart
  <2>2. X \subseteq m .. Len(ev)
    BY DEF SessionOf
  <2>3. Y \in SUBSET (0 .. Len(ev)) /\ Y \subseteq m .. Len(ev)
    <3>1. m .. Len(ev) \subseteq 0 .. Len(ev)
      BY <1>0
    <3>q. QED
      BY <2>2, <3>1
  <2> HIDE DEF Y
  <2>4. Max(Y) \in Y
    BY <1>0, <2>1, <2>3, MaxOf
  <2>q. QED
    BY <2>1, <2>3, <2>4
<1>q. QED
  BY <1>1, <1>2 DEF Mark

(* Running on external power, with the beacon reported or with the feature off *)
(* and the record of it not lost, the recorder is on a trip, for the page as for the *)
(* tile: no absence of an earlier session is left over in any window.          *)
THEOREM RunningTrip == Spec => []RunningIsTrip
<1>1. Inv => RunningIsTrip
  <2> SUFFICES ASSUME Inv, device = "up", mail = <<>>, core = "on", ~missed, mon.present \/ ~Active,
                      NEW w \in Windows, \E i \in w .. Len(journal) : journal[i].type \in DOMAIN Charges
               PROVE  Last(Segments(Window(w))).kind = "trip"
    BY DEF RunningIsTrip
  <2>1. journal \in Seq(Records) /\ Opened /\ Powered /\ Found /\ Answered
    BY DEF Inv, TypeOK
  <2>2. /\ w \in DOMAIN journal
        /\ \A x \in 1 .. w :
             \/ journal[x].type \notin {"shutdown", "beacon_enabled", "beacon_disabled"}
             \/ x = w /\ journal[x].type # "shutdown"
             \/ \E y \in x + 1 .. w : journal[y].type = "start"
    BY DEF Windows
  <2> DEFINE ev == Window(w)
             N == Len(journal)
             n == Len(ev)
  <2>3. /\ Journal(ev) /\ n = N - w + 1
        /\ \A k \in 1 .. n : ev[k] = journal[k + w - 1]
        /\ \A i \in w .. N : i - w + 1 \in 1 .. n /\ ev[i - w + 1] = journal[i]
    BY <2>1, <2>2, WindowIs DEF Window
  <2>4. N \in Nat /\ w \in 1 .. N
    BY <2>1, <2>2
  <2>d. DOMAIN journal = 1 .. N
    BY <2>1
  <2>5. n \in Nat /\ n \in 0 .. n /\ n >= 1
    BY <2>3, <2>4
  <2>x. PICK x \in w .. N : journal[x].type \in DOMAIN Charges
    OBVIOUS
  <2> HIDE DEF ev, n, N
  <2>6. Reading(ev)[n].charging = "on"
    <3>1. PICK c \in 1 .. N : /\ journal[c].type = "charging_on"
                              /\ \A k \in c + 1 .. N : journal[k].type \notin {"charging_on", "charging_off"}
      BY <2>1, <2>d DEF Powered, NoneBehind, N
    <3>2. c \in w .. N
      <4>1. c < w => x \in c + 1 .. N
        BY <2>4
      <4>q. QED
        BY <2>4, <2>x, <3>1, <4>1, Charging
    <3> DEFINE d == c - w + 1
    <3>3. d \in 1 .. n /\ ev[d].type = "charging_on"
      BY <2>3, <3>1, <3>2
    <3>4. \A k \in d + 1 .. n : k \in 1 .. n /\ k + w - 1 \in c + 1 .. N
      BY <2>3, <2>4, <2>5, <3>2
    <3> HIDE DEF d
    <3>5. \A k \in d + 1 .. n : ev[k].type \notin DOMAIN Charges
      BY <2>3, <3>1, <3>4, Charging
    <3>q. QED
      BY <2>3, <3>3, <3>5, PoweredIs DEF n
  <2>7. ~Reading(ev)[n].absent
    <3>1. SUFFICES ASSUME NEW m \in 1 .. n, Mark(ev, m), \A k \in m .. n : ev[k].type \notin BEACON_CLEARS
                   PROVE  FALSE
      BY <2>3, <2>5, AbsentIs DEF n
    <3>2. PICK j \in m .. n : /\ IsBeaconLostShutdown(ev[j])
                              /\ ev[m].type = "beacon_lost" \/ m = 1 \/ ev[m].type = "start"
      BY <2>3, <3>1, MarkIs DEF n
    <3> DEFINE a == m + w - 1
               b == j + w - 1
    <3>3. /\ a \in w .. N /\ b \in a .. N /\ a \in Nat /\ b \in Nat /\ a <= b /\ m \in 1 .. n /\ j \in 1 .. n
          /\ (m = 1 => a = w)
          /\ \A k \in a .. N : k - w + 1 \in m .. n /\ k \in w .. N
      BY <2>3, <2>4, <2>5
    <3> HIDE DEF a, b
    <3>4. ev[m] = journal[a] /\ ev[j] = journal[b]
      BY <2>3, <3>3 DEF a, b
    <3>5. \A k \in a .. N : journal[k].type \notin BEACON_CLEARS
      BY <2>3, <3>1, <3>3
    <3>6. IsBeaconLostShutdown(journal[b]) /\ b \in DOMAIN journal
      BY <2>4, <2>d, <3>2, <3>3, <3>4
    <3>7. PICK s \in b + 1 .. N : journal[s].type = "start"
      BY <2>1, <3>6 DEF Opened, N, IsBeaconLostShutdown
    <3>8. CASE mon.present
      <4>1. NoneOf(mail, BEACON_CLEARS)
        BY DEF NoneOf
      <4>2. PICK c \in DOMAIN journal : /\ journal[c].type \in BEACON_CLEARS
                                        /\ \A k \in c + 1 .. N : journal[k].type # "start"
        BY <2>1, <3>8, <4>1 DEF Found, NoneBehind, N
      <4>3. c \in 1 .. N
        BY <2>d, <4>2
      <4>4. ~(c < s)
        <5>1. c < s => s \in c + 1 .. N
          BY <2>4, <3>3, <3>7, <4>3
        <5>q. QED
          BY <3>7, <4>2, <5>1
      <4>5. c \in a .. N
        BY <2>4, <3>3, <3>7, <4>3, <4>4
      <4>q. QED
        BY <3>5, <4>2, <4>5
    <3>9. CASE ~Active
      <4>1. Off
        BY <3>9 DEF Off, NoneOf
      <4>2. AnsweredAt(journal, b)
        BY <2>1, <3>6, <4>1 DEF Answered
      <4>3. ~\E c \in b + 1 .. N : journal[c].type \in BEACON_CLEARS
        <5>1. \A c \in b + 1 .. N : c \in a .. N
          BY <2>4, <3>3
        <5>q. QED
          BY <3>5, <5>1
      <4>4. PICK c \in DOMAIN journal :
               /\ c < b /\ journal[c].type = "beacon_disabled"
               /\ \A k \in c + 1 .. N : journal[k].type # "beacon_lost"
               /\ \A k \in c + 1 .. b : journal[k].type # "start"
        BY <4>2, <4>3 DEF AnsweredAt, NoneBehind, N
      <4>5. c \in 1 .. N /\ journal[c].type \in BEACON_CLEARS
        BY <2>d, <4>4 DEF BEACON_CLEARS
      <4>6. c < a
        <5>1. c \notin a .. N
          BY <3>5, <4>5
        <5>q. QED
          BY <2>4, <3>3, <4>5, <5>1
      <4>7. a \in c + 1 .. N /\ a \in c + 1 .. b
        BY <2>4, <3>3, <4>5, <4>6
      <4>8. journal[a].type # "beacon_lost" /\ journal[a].type # "start"
        BY <4>4, <4>7
      <4>9. m = 1
        BY <3>2, <3>4, <4>8
      <4>10. a = w /\ c \in 1 .. w /\ c # w
        BY <2>4, <3>3, <4>5, <4>6, <4>9
      <4>11. PICK y \in c + 1 .. w : journal[y].type = "start"
        BY <2>2, <4>4, <4>10
      <4>12. y \in c + 1 .. b
        BY <3>3, <4>5, <4>10
      <4>q. QED
        BY <4>4, <4>11, <4>12
    <3>q. QED
      BY <3>8, <3>9
  <2>8. Reading(ev)[n] \in PageStates /\ Current(Reading(ev)[n])
    BY <2>3, <2>5, ReadingIs DEF n
  <2>9. Last(Reading(ev)[n].segs).kind = Kind(Reading(ev)[n])
    BY <2>6, <2>8 DEF Current
  <2>10. Kind(Reading(ev)[n]) = "trip"
    BY <2>6, <2>7 DEF Kind
  <2>q. QED
    BY <2>9, <2>10 DEF Segments, ev, n
<1>q. QED
  BY <1>1, Invariance, PTL

-----------------------------------------------------------------------------
(* Pass 3: what a block shows                                                  *)

Media == {"jpeg", "h264"}
Items(clips) == [clip : clips, filename : Media, screenshot : Media \cup {"none"}]

Clipped(media, clip) == {m \in DOMAIN media : media[m].clip = clip}

\* One more recording is an item of its own, or goes to one of its clip's.
Joined(clips, media, e, s) ==
  /\ s \in Seq(Items(clips))
  /\ Clipped(media, e.clip) = {} =>
       s = Append(media, [clip |-> e.clip, filename |-> e.type, screenshot |-> "none"])
  /\ Clipped(media, e.clip) # {} =>
       \E m \in Clipped(media, e.clip) :
         /\ DOMAIN s = DOMAIN media
         /\ \A k \in DOMAIN media : k # m => s[k] = media[k]
         /\ s[m] = IF e.type = "h264"
                   THEN [clip |-> e.clip, filename |-> "h264", screenshot |-> media[m].filename]
                   ELSE [clip |-> e.clip, filename |-> media[m].filename, screenshot |-> "jpeg"]

LEMMA ShownIs ==
  ASSUME NEW clips, NEW media \in Seq(Items(clips)), NEW e, e.clip \in clips, e.type \in Media
  PROVE  Joined(clips, media, e, Shown(media, e))
<1> DEFINE old == Clipped(media, e.clip)
           I == Items(clips)
           s == Shown(media, e)
           x == [clip |-> e.clip, filename |-> e.type, screenshot |-> "none"]
<1>1. x \in I
  BY DEF Items, Media
<1>2. media \in Seq(I) /\ Len(media) \in Nat
  OBVIOUS
<1>d. DOMAIN media = 1 .. Len(media)
  OBVIOUS
<1>3. CASE old = {}
  <2>1. s = Append(media, x)
    BY <1>3 DEF Shown, Clipped
  <2> HIDE DEF I, x, s
  <2>2. s \in Seq(I)
    BY <1>1, <1>2, <2>1
  <2>q. QED
    BY <1>3, <2>1, <2>2 DEF Joined, I, x, s
<1>4. CASE old # {}
  <2> DEFINE m == Min(old)
  <2>1. m \in old
    <3>1. old \in SUBSET Nat
      BY <1>d DEF Clipped
    <3> HIDE DEF old
    <3>q. QED
      BY <1>4, <3>1, MinOf
  <2>2. m \in DOMAIN media /\ media[m].clip = e.clip
    BY <2>1 DEF Clipped
  <2>3. media[m] \in I
    BY <2>2
  <2> DEFINE y == IF e.type = "h264"
                  THEN [clip |-> e.clip, filename |-> "h264", screenshot |-> media[m].filename]
                  ELSE [clip |-> e.clip, filename |-> media[m].filename, screenshot |-> "jpeg"]
  <2>4. y \in I
    BY <2>3 DEF Items, Media
  <2>5. s = [media EXCEPT ![m] = y]
    <3>1. CASE e.type = "h264"
      <4>1. s = [media EXCEPT ![m].screenshot = media[m].filename, ![m].filename = "h264"]
        BY <1>4, <3>1 DEF Shown, Clipped
      <4> HIDE DEF m
      <4>2. y = [[media[m] EXCEPT !.screenshot = media[m].filename] EXCEPT !.filename = "h264"]
        <5> DEFINE r == media[m]
                   f == r.filename
        <5>1. r = [clip |-> e.clip, filename |-> f, screenshot |-> r.screenshot]
          BY <2>2, <2>3 DEF Items
        <5> HIDE DEF r, f
        <5> DEFINE z == [r EXCEPT !.screenshot = f]
        <5>2. z = [clip |-> e.clip, filename |-> f, screenshot |-> f]
          BY <5>1
        <5> HIDE DEF z
        <5>3. [z EXCEPT !.filename = "h264"] = [clip |-> e.clip, filename |-> "h264", screenshot |-> f]
          BY <5>2
        <5>q. QED
          BY <3>1, <5>3 DEF r, f, z
      <4>3. s = [media EXCEPT ![m] = [[media[m] EXCEPT !.screenshot = media[m].filename] EXCEPT !.filename = "h264"]]
        BY <2>2, <4>1
      <4>q. QED
        BY <4>2, <4>3
    <3>2. CASE e.type # "h264"
      <4>1. s = [media EXCEPT ![m].screenshot = "jpeg"]
        BY <1>4, <3>2 DEF Shown, Clipped
      <4> HIDE DEF m
      <4>2. y = [media[m] EXCEPT !.screenshot = "jpeg"]
        BY <2>2, <2>3, <3>2 DEF Items
      <4>q. QED
        BY <4>1, <4>2
    <3>q. QED
      BY <3>1, <3>2
  <2> HIDE DEF m, y, I, s
  <2>6. s \in Seq(I)
    BY <1>2, <2>2, <2>4, <2>5
  <2>7. DOMAIN s = DOMAIN media /\ s[m] = y /\ \A k \in DOMAIN media : k # m => s[k] = media[k]
    BY <2>2, <2>5
  <2>q. QED
    BY <1>4, <2>1, <2>6, <2>7 DEF Joined, I, s, y
<1>q. QED
  BY <1>3, <1>4

\* Record i is a recording of block b.
Falls(ev, segs, b, i) == ev[i].type \in Media /\ BlockAt(segs, i) = b

MediaThen(ev, segs, b, media, i) == IF Falls(ev, segs, b, i) THEN Shown(media, ev[i]) ELSE media

MediaSteps(ev, segs, b, f) ==
  f = [i \in 0 .. Len(ev) |-> IF i = 0 THEN <<>> ELSE MediaThen(ev, segs, b, f[i - 1], i)]

LEMMA MediaChosen ==
  ASSUME NEW ev, NEW segs, NEW b
  PROVE  MediaOf(ev, segs, b) = CHOOSE f : MediaSteps(ev, segs, b, f)
BY DEF MediaOf, MediaSteps, MediaThen, Falls, Media

ClipsOf(ev) == {ev[k].clip : k \in DOMAIN ev}

LEMMA MediaIs ==
  ASSUME NEW ev, Journal(ev), NEW segs, NEW b
  PROVE  LET F == MediaOf(ev, segs, b) IN
         /\ \A i \in 0 .. Len(ev) : F[i] \in Seq(Items(ClipsOf(ev)))
         /\ F[0] = <<>>
         /\ \A i \in 1 .. Len(ev) : F[i] = MediaThen(ev, segs, b, F[i - 1], i)
<1> DEFINE F == MediaOf(ev, segs, b)
           S == Seq(Items(ClipsOf(ev)))
           n == Len(ev)
           G == [i \in 1 .. n |-> [media \in S |-> MediaThen(ev, segs, b, media, i)]]
<1>0. n \in Nat /\ DOMAIN ev = 1 .. n
  BY DEF Journal
<1>1. ASSUME NEW i \in 1 .. n, NEW media \in S PROVE MediaThen(ev, segs, b, media, i) \in S
  <2>1. ev[i].clip \in ClipsOf(ev)
    BY <1>0 DEF ClipsOf
  <2>2. ev[i].type \in Media => Shown(media, ev[i]) \in S
    BY <2>1, ShownIs DEF Joined
  <2>q. QED
    BY <2>2 DEF MediaThen, Falls
<1>2. <<>> \in S
  OBVIOUS
<1> HIDE DEF n, S
<1>3. G \in [1 .. n -> [S -> S]]
  BY <1>1
<1>4. PICK f \in [0 .. n -> S] : Steps(n, <<>>, G, f)
  <2> HIDE DEF G
  <2>1. n \in Nat
    BY <1>0
  <2>q. QED
    BY <1>2, <1>3, <2>1, Recursion
<1>5. \A i \in 0 .. n : f[i] = IF i = 0 THEN <<>> ELSE MediaThen(ev, segs, b, f[i - 1], i)
  <2>1. f = [i \in 0 .. n |-> IF i = 0 THEN <<>> ELSE G[i][f[i - 1]]]
    BY <1>4 DEF Steps
  <2>2. \A i \in 0 .. n : f[i] = IF i = 0 THEN <<>> ELSE G[i][f[i - 1]]
    <3> HIDE DEF G
    <3>q. QED
      BY <2>1
  <2>3. ASSUME NEW i \in 1 .. n PROVE G[i][f[i - 1]] = MediaThen(ev, segs, b, f[i - 1], i)
    <3>1. i - 1 \in 0 .. n
      BY <1>0
    <3>2. f[i - 1] \in S
      BY <3>1
    <3>q. QED
      BY <3>2
  <2> HIDE DEF G
  <2>4. \A i \in 0 .. n : i # 0 => i \in 1 .. n
    BY <1>0
  <2>q. QED
    BY <2>2, <2>3, <2>4
<1>6. f = [i \in 0 .. n |-> IF i = 0 THEN <<>> ELSE MediaThen(ev, segs, b, f[i - 1], i)]
  BY <1>5
<1>7. MediaSteps(ev, segs, b, f)
  BY <1>6 DEF MediaSteps, n
<1>8. MediaSteps(ev, segs, b, F)
  BY <1>7, MediaChosen
<1> HIDE DEF F
<1>9. \A i \in 0 .. n : F[i] = IF i = 0 THEN <<>> ELSE MediaThen(ev, segs, b, F[i - 1], i)
  BY <1>8 DEF MediaSteps, n
<1>10. F[0] = <<>> /\ \A i \in 1 .. n : F[i] = MediaThen(ev, segs, b, F[i - 1], i)
  BY <1>0, <1>9
<1> DEFINE T == {i \in 0 .. n : F[i] \in S}
<1>11. 0 \in T
  BY <1>0, <1>2, <1>10
<1>12. \A i \in 1 .. n : i - 1 \in T => i \in T
  BY <1>0, <1>1, <1>10
<1>13. 0 .. n \subseteq T
  <2> HIDE DEF T
  <2>q. QED
    BY <1>0, <1>11, <1>12, UpTo
<1>14. \A i \in 0 .. n : F[i] \in S
  BY <1>13
<1>q. QED
  BY <1>10, <1>14 DEF F, n, S

Shows(x, e) == x.clip = e.clip /\ e.type \in {x.filename, x.screenshot}

\* A recording has one record.
OnceEach(ev) ==
  \A i, k \in DOMAIN ev :
    ev[i].type \in Media /\ ev[k].type = ev[i].type /\ ev[k].clip = ev[i].clip => i = k

\* The items are of distinct clips, and show the recordings of block b up to record i.
Gathered(ev, segs, b, media, i) ==
  /\ \A m, k \in DOMAIN media : media[m].clip = media[k].clip => m = k
  /\ \A k \in 1 .. i : Falls(ev, segs, b, k) => \E m \in DOMAIN media : Shows(media[m], ev[k])
  /\ \A m \in DOMAIN media : \A t \in {media[m].filename, media[m].screenshot} \cap Media :
       \E k \in 1 .. i : Falls(ev, segs, b, k) /\ ev[k].type = t /\ ev[k].clip = media[m].clip
  /\ \A m \in DOMAIN media : /\ media[m].filename = "jpeg" => media[m].screenshot = "none"
                             /\ media[m].screenshot # "h264"

LEMMA GatheredNext ==
  ASSUME NEW ev, Journal(ev), OnceEach(ev), NEW segs, NEW b, NEW i \in 1 .. Len(ev),
         NEW media \in Seq(Items(ClipsOf(ev))), Gathered(ev, segs, b, media, i - 1)
  PROVE  Gathered(ev, segs, b, MediaThen(ev, segs, b, media, i), i)
<1> DEFINE s == MediaThen(ev, segs, b, media, i)
           e == ev[i]
           I == Items(ClipsOf(ev))
           X(k) == Falls(ev, segs, b, k)
<1>0. i \in Nat /\ i >= 1 /\ i \in DOMAIN ev /\ DOMAIN ev = 1 .. Len(ev) /\ Len(ev) \in Nat
  BY DEF Journal
<1>1. \A k \in 1 .. i : k = i \/ k \in 1 .. i - 1
  BY <1>0
<1>2. \A k \in 1 .. i - 1 : k \in 1 .. i /\ k \in DOMAIN ev /\ k # i
  BY <1>0
<1>3. /\ \A m, k \in DOMAIN media : media[m].clip = media[k].clip => m = k
      /\ \A k \in 1 .. i - 1 : X(k) => \E m \in DOMAIN media : Shows(media[m], ev[k])
      /\ \A m \in DOMAIN media : \A t \in {media[m].filename, media[m].screenshot} \cap Media :
           \E k \in 1 .. i - 1 : X(k) /\ ev[k].type = t /\ ev[k].clip = media[m].clip
      /\ \A m \in DOMAIN media : /\ media[m].filename = "jpeg" => media[m].screenshot = "none"
                                 /\ media[m].screenshot # "h264"
  BY DEF Gathered
<1>4. CASE ~X(i)
  <2>1. s = media
    BY <1>4 DEF MediaThen
  <2>2. \A k \in 1 .. i : X(k) => k \in 1 .. i - 1
    BY <1>1, <1>4
  <2> HIDE DEF s, X
  <2>q. QED
    BY <1>2, <1>3, <2>1, <2>2 DEF Gathered, X, s
<1>5. CASE X(i)
  <2>0. e.type \in Media /\ e.clip \in ClipsOf(ev)
    BY <1>0, <1>5 DEF Falls, ClipsOf
  <2>1. s = Shown(media, e)
    BY <1>5 DEF MediaThen
  <2>2. Joined(ClipsOf(ev), media, e, s)
    BY <2>0, <2>1, ShownIs
  <2>3. \A k \in 1 .. i - 1 : ~(ev[k].type = e.type /\ ev[k].clip = e.clip)
    BY <1>0, <1>2, <2>0 DEF OnceEach
  <2>4. \A m \in DOMAIN media : media[m] \in I
    OBVIOUS
  <2>d. DOMAIN media = 1 .. Len(media) /\ Len(media) \in Nat
    OBVIOUS
  <2> HIDE DEF s, X, e
  <2>5. CASE Clipped(media, e.clip) = {}
    <3> DEFINE x == [clip |-> e.clip, filename |-> e.type, screenshot |-> "none"]
               l == Len(media) + 1
    <3>1. x \in I /\ x.clip = e.clip /\ x.filename = e.type /\ x.screenshot = "none"
      BY <2>0 DEF Items
    <3>2. s = Append(media, x)
      BY <2>2, <2>5 DEF Joined
    <3>3. \A m \in DOMAIN media : media[m].clip # e.clip
      BY <2>5 DEF Clipped
    <3> HIDE DEF x, I
    <3>4. /\ DOMAIN s = 1 .. l /\ s[l] = x
          /\ \A m \in DOMAIN media : s[m] = media[m] /\ m \in DOMAIN s
      BY <3>1, <3>2
    <3>5. \A m \in DOMAIN s : m = l \/ m \in DOMAIN media
      BY <2>d, <3>4
    <3>l. l \in DOMAIN s
      BY <2>d, <3>4
    <3> HIDE DEF l
    <3>6. \A m, k \in DOMAIN s : s[m].clip = s[k].clip => m = k
      BY <1>3, <3>1, <3>3, <3>4, <3>5
    <3>7. ASSUME NEW k \in 1 .. i, X(k) PROVE \E m \in DOMAIN s : Shows(s[m], ev[k])
      <4>1. CASE k = i
        <5>1. Shows(s[l], e)
          BY <3>1, <3>4 DEF Shows
        <5>q. QED
          BY <3>l, <4>1, <5>1 DEF e
      <4>2. CASE k \in 1 .. i - 1
        BY <1>3, <3>4, <3>7, <4>2
      <4>q. QED
        BY <1>1, <4>1, <4>2
    <3>8. ASSUME NEW m \in DOMAIN s, NEW t \in {s[m].filename, s[m].screenshot} \cap Media
          PROVE  \E k \in 1 .. i : X(k) /\ ev[k].type = t /\ ev[k].clip = s[m].clip
      <4>1. CASE m = l
        <5>1. t = e.type /\ s[m].clip = e.clip
          BY <3>1, <3>4, <3>8, <4>1 DEF Media
        <5>2. i \in 1 .. i
          BY <1>0
        <5>q. QED
          BY <1>5, <5>1, <5>2 DEF e
      <4>2. CASE m \in DOMAIN media
        <5>1. s[m] = media[m]
          BY <3>4, <4>2
        <5>2. PICK k \in 1 .. i - 1 : X(k) /\ ev[k].type = t /\ ev[k].clip = media[m].clip
          BY <1>3, <3>8, <4>2, <5>1
        <5>q. QED
          BY <1>2, <5>1, <5>2
      <4>q. QED
        BY <3>5, <4>1, <4>2
    <3>9. \A m \in DOMAIN s : (s[m].filename = "jpeg" => s[m].screenshot = "none") /\ s[m].screenshot # "h264"
      BY <1>3, <3>1, <3>4, <3>5
    <3>q. QED
      BY <3>6, <3>7, <3>8, <3>9 DEF Gathered, X, s
  <2>6. CASE Clipped(media, e.clip) # {}
    <3>1. PICK l \in Clipped(media, e.clip) :
            /\ DOMAIN s = DOMAIN media
            /\ \A k \in DOMAIN media : k # l => s[k] = media[k]
            /\ s[l] = IF e.type = "h264"
                      THEN [clip |-> e.clip, filename |-> "h264", screenshot |-> media[l].filename]
                      ELSE [clip |-> e.clip, filename |-> media[l].filename, screenshot |-> "jpeg"]
      BY <2>2, <2>6 DEF Joined
    <3>2. l \in DOMAIN media /\ media[l].clip = e.clip
      BY DEF Clipped
    <3>3. media[l].filename \in Media /\ media[l].screenshot \in Media \cup {"none"}
      BY <2>4, <3>2 DEF Items
    \* The other recording of the clip is the one the item shows.
    <3>4. media[l].filename # e.type
      BY <1>3, <2>3, <3>2, <3>3
    <3>5. media[l].screenshot # e.type
      BY <1>3, <2>0, <2>3, <3>2
    <3>6. /\ s[l].clip = e.clip /\ s[l].filename = "h264" /\ s[l].screenshot = "jpeg"
          /\ media[l].screenshot = "none"
          /\ media[l].filename = IF e.type = "h264" THEN "jpeg" ELSE "h264"
      <4>1. CASE e.type = "h264"
        BY <1>3, <3>1, <3>2, <3>3, <3>4, <4>1 DEF Media
      <4>2. CASE e.type = "jpeg"
        <5>1. media[l].filename = "h264"
          BY <3>3, <3>4, <4>2 DEF Media
        <5>q. QED
          BY <1>3, <3>1, <3>2, <3>3, <3>5, <4>2, <5>1 DEF Media
      <4>q. QED
        BY <2>0, <4>1, <4>2 DEF Media
    <3>7. \A m, k \in DOMAIN s : s[m].clip = s[k].clip => m = k
      <4>1. \A m \in DOMAIN s : m \in DOMAIN media /\ s[m].clip = media[m].clip
        BY <3>1, <3>2, <3>6
      <4>q. QED
        BY <1>3, <4>1
    <3>8. \A r : r.type \in Media /\ r.clip = e.clip => Shows(s[l], r)
      BY <3>6 DEF Shows, Media
    <3>9. ASSUME NEW k \in 1 .. i, X(k) PROVE \E m \in DOMAIN s : Shows(s[m], ev[k])
      <4>0. ev[k].type \in Media
        BY <3>9 DEF X, Falls
      <4>1. CASE ev[k].clip = e.clip
        BY <3>1, <3>2, <3>8, <4>0, <4>1
      <4>2. CASE ev[k].clip # e.clip
        <5>1. k \in 1 .. i - 1
          BY <1>1, <4>2 DEF e
        <5>2. PICK m \in DOMAIN media : Shows(media[m], ev[k])
          BY <1>3, <3>9, <5>1
        <5>3. m # l
          BY <3>2, <4>2, <5>2 DEF Shows
        <5>q. QED
          BY <3>1, <5>2, <5>3
      <4>q. QED
        BY <4>1, <4>2
    <3>10. ASSUME NEW m \in DOMAIN s, NEW t \in {s[m].filename, s[m].screenshot} \cap Media
           PROVE  \E k \in 1 .. i : X(k) /\ ev[k].type = t /\ ev[k].clip = s[m].clip
      <4>1. CASE m # l
        <5>1. m \in DOMAIN media /\ s[m] = media[m]
          BY <3>1, <4>1
        <5>2. PICK k \in 1 .. i - 1 : X(k) /\ ev[k].type = t /\ ev[k].clip = media[m].clip
          BY <1>3, <3>10, <5>1
        <5>q. QED
          BY <1>2, <5>1, <5>2
      <4>2. CASE m = l /\ t = e.type
        <5>1. i \in 1 .. i
          BY <1>0
        <5>q. QED
          BY <1>5, <3>6, <4>2, <5>1 DEF e
      <4>3. CASE m = l /\ t # e.type
        <5>1. t = media[l].filename
          BY <2>0, <3>6, <3>10, <4>3 DEF Media
        <5>2. PICK k \in 1 .. i - 1 : X(k) /\ ev[k].type = t /\ ev[k].clip = media[l].clip
          BY <1>3, <3>2, <3>3, <5>1
        <5>q. QED
          BY <1>2, <3>2, <3>6, <4>3, <5>2
      <4>q. QED
        BY <4>1, <4>2, <4>3
    <3>11. \A m \in DOMAIN s : (s[m].filename = "jpeg" => s[m].screenshot = "none") /\ s[m].screenshot # "h264"
      <4>1. \A m \in DOMAIN s : m = l \/ (m \in DOMAIN media /\ s[m] = media[m])
        BY <3>1
      <4>q. QED
        BY <1>3, <3>6, <4>1
    <3>q. QED
      BY <3>7, <3>9, <3>10, <3>11 DEF Gathered, X, s
  <2>q. QED
    BY <2>5, <2>6
<1>q. QED
  BY <1>4, <1>5

LEMMA GatheredIs ==
  ASSUME NEW ev, Journal(ev), OnceEach(ev), NEW segs, NEW b
  PROVE  /\ Gathered(ev, segs, b, MediaOf(ev, segs, b)[Len(ev)], Len(ev))
         /\ MediaOf(ev, segs, b)[Len(ev)] \in Seq(Items(ClipsOf(ev)))
<1> DEFINE F == MediaOf(ev, segs, b)
           n == Len(ev)
           S == Seq(Items(ClipsOf(ev)))
           T == {i \in 0 .. n : Gathered(ev, segs, b, F[i], i)}
<1>0. n \in Nat
  BY DEF Journal
<1>1. /\ \A i \in 0 .. n : F[i] \in S
      /\ F[0] = <<>>
      /\ \A i \in 1 .. n : F[i] = MediaThen(ev, segs, b, F[i - 1], i)
  BY MediaIs
<1>2. ASSUME NEW i \in 1 .. n, NEW media \in S, Gathered(ev, segs, b, media, i - 1)
      PROVE  Gathered(ev, segs, b, MediaThen(ev, segs, b, media, i), i)
  BY <1>2, GatheredNext
<1> HIDE DEF F, n, S
<1>3. 0 \in T
  <2>1. 1 .. 0 = {}
    OBVIOUS
  <2>q. QED
    BY <1>0, <1>1, <2>1 DEF Gathered
<1>4. ASSUME NEW i \in 1 .. n, i - 1 \in T PROVE i \in T
  <2>1. F[i - 1] \in S /\ Gathered(ev, segs, b, F[i - 1], i - 1) /\ F[i] = MediaThen(ev, segs, b, F[i - 1], i)
    BY <1>1, <1>4
  <2>2. Gathered(ev, segs, b, F[i], i)
    BY <1>2, <2>1
  <2>q. QED
    BY <1>0, <2>2
<1>5. 0 .. n \subseteq T
  <2> HIDE DEF T
  <2>q. QED
    BY <1>0, <1>3, <1>4, UpTo
<1>6. n \in T
  BY <1>0, <1>5
<1>q. QED
  BY <1>0, <1>1, <1>6 DEF F, n, S

-----------------------------------------------------------------------------
(* The recordings of the journal                                               *)

LEMMA OnceAppended ==
  ASSUME NEW s \in Seq(Records), NEW e \in Records, OnceEach(s),
         e.type \in Media => \A i \in DOMAIN s : s[i].clip = e.clip => s[i].type # e.type
  PROVE  OnceEach(Append(s, e))
<1> DEFINE t == Append(s, e)
<1>1. /\ t[Len(t)] = e
      /\ \A i \in DOMAIN t : i = Len(t) \/ (i \in DOMAIN s /\ t[i] = s[i])
  BY Added
<1> HIDE DEF t
<1>2. \A i, k \in DOMAIN t :
        t[i].type \in Media /\ t[k].type = t[i].type /\ t[k].clip = t[i].clip => i = k
  BY <1>1 DEF OnceEach
<1>q. QED
  BY <1>2 DEF OnceEach, t

LEMMA OnceNext ==
  ASSUME TypeOK, Carried, OnceEach(journal), [Next]_vars
  PROVE  OnceEach(journal')
<1>1. journal \in Seq(Records) /\ mail \in Seq(Records)
  BY DEF TypeOK
<1>2. journal' = journal => OnceEach(journal')
  OBVIOUS
<1>3. ASSUME NEW e \in Records, e.type \notin Media, journal' = Append(journal, e) PROVE OnceEach(journal')
  BY <1>1, <1>3, OnceAppended
<1>4. CASE PowerCut \/ UNCHANGED vars
  BY <1>2, <1>4 DEF PowerCut, Unwritten, vars
<1>5. CASE CheckCharging
  <2>1. journal' = journal \/ journal' = Append(journal, Event("charging_on"))
        \/ journal' = Append(journal, Event("charging_off"))
    BY <1>5 DEF CheckCharging, Unwritten, Write
  <2>2. /\ Event("charging_on") \in Records /\ Event("charging_on").type \notin Media
        /\ Event("charging_off") \in Records /\ Event("charging_off").type \notin Media
    BY EventIs DEF Types, Media
  <2>q. QED
    BY <1>2, <1>3, <2>1, <2>2
<1>6. CASE Start
  <2>1. journal' = Append(journal, Event("start"))
    BY <1>6 DEF Start
  <2>2. Event("start") \in Records /\ Event("start").type \notin Media
    BY EventIs DEF Types, Media
  <2>q. QED
    BY <1>3, <2>1, <2>2
<1>7. CASE Recorded
  <2>1. PICK clip \in Clips, type \in {"jpeg", "h264"} :
          /\ \A i \in DOMAIN journal : journal[i].clip = clip => journal[i].type # type
          /\ Write([Event(type) EXCEPT !.clip = clip])
    BY <1>7 DEF Recorded
  <2> DEFINE e == [Event(type) EXCEPT !.clip = clip]
  <2>2. e \in Records /\ e.type = type /\ e.clip = clip
    BY DEF Event, Record, Records, Types
  <2> HIDE DEF e
  <2>3. journal' = Append(journal, e)
    BY <2>1 DEF Write, e
  <2>q. QED
    BY <1>1, <2>1, <2>2, <2>3, OnceAppended
<1>8. CASE Deliver
  <2>1. Head(mail) \in Records /\ mail # <<>> /\ journal' = Append(journal, Head(mail))
    BY <1>8, Delivered
  <2>2. Head(mail).type \notin Media
    BY <1>1, <2>1, Taken DEF Carried, NoneOf, Media
  <2>q. QED
    BY <1>3, <2>1, <2>2
<1>9. CASE Detect \/ Silence \/ PresenceTick \/ Configure \/ Read \/ Decide \/ Forced \/ Lost \/ PowerDown \/ Crash
  BY <1>2, <1>9, Kept
<1>q. QED
  BY <1>4, <1>5, <1>6, <1>7, <1>8, <1>9 DEF Next

\* Each file is announced once, and so the journal has one record of it.
LEMMA RecordedOnce == Spec => [](Inv /\ OnceEach(journal))
<1>1. Init => OnceEach(journal)
  BY DEF Init, OnceEach
<1>2. Inv /\ OnceEach(journal) /\ [Next]_vars => OnceEach(journal)'
  BY OnceNext DEF Inv
<1>q. QED
  BY <1>1, <1>2, Invariance, PTL DEF Spec

(* The page shows every recording behind the first boundary once: in one item  *)
(* of the block it falls into (pass 3 of buildBlocks), whatever was recorded   *)
(* before and in whichever order a clip's photo and video came.                *)
THEOREM RecordingShownOnce == Spec => []MediaShownOnce
<1>1. Inv /\ OnceEach(journal) => MediaShownOnce
  <2> DEFINE blocks == BuildBlocks(journal)
             segs == Segments(journal)
             N == Len(journal)
             M(b) == MediaOf(journal, segs, b)[N]
             Seen(b, m, e) == /\ blocks[b].media[m].clip = e.clip
                              /\ e.type \in {blocks[b].media[m].filename, blocks[b].media[m].screenshot}
  <2> SUFFICES ASSUME Inv, OnceEach(journal), blocks # <<>>, NEW i \in blocks[1].start .. N,
                      journal[i].type \in Media
               PROVE  \E b \in DOMAIN blocks : \E m \in DOMAIN blocks[b].media :
                        /\ blocks[b].start <= i /\ Seen(b, m, journal[i])
                        /\ \A c \in DOMAIN blocks : \A k \in DOMAIN blocks[c].media :
                              Seen(c, k, journal[i]) => c = b /\ k = m
    BY DEF MediaShownOnce, Media
  <2>1. journal \in Seq(Records)
    BY DEF Inv, TypeOK
  <2>2. Journal(journal) /\ N \in Nat
    BY <2>1 DEF Journal
  <2>3. segs \in Seq(Marks)
    <3>1. Reading(journal)[N] \in PageStates
      BY <2>2, ReadingIs
    <3>q. QED
      BY <3>1 DEF PageStates, Segments
  <2>4. /\ DOMAIN blocks = DOMAIN segs
        /\ \A b \in DOMAIN segs : blocks[b].start = segs[b].start /\ blocks[b].media = M(b)
    BY DEF BuildBlocks
  <2>5. \A b : /\ Gathered(journal, segs, b, M(b), N) /\ M(b) \in Seq(Items(ClipsOf(journal)))
    BY <2>2, GatheredIs
  <2> HIDE DEF segs, N, M
  <2>d. DOMAIN segs = 1 .. Len(segs) /\ Len(segs) \in Nat
    BY <2>3
  <2>6. 1 \in DOMAIN segs
    <3>1. segs # <<>>
      <4>1. SUFFICES ASSUME segs = <<>> PROVE FALSE
        OBVIOUS
      <4>2. blocks = [b \in {} |-> [kind |-> segs[b].kind, start |-> segs[b].start,
                                    media |-> MediaOf(journal, segs, b)[N]]]
        BY <4>1 DEF BuildBlocks, segs, N
      <4>3. blocks = <<>>
        BY <4>2
      <4>q. QED
        BY <4>3
    <3>q. QED
      BY <2>3, <3>1
  <2>7. segs[1].start \in Nat /\ i \in segs[1].start .. N
    <3>1. blocks[1].start = segs[1].start
      BY <2>4, <2>6
    <3>2. segs[1] \in Marks
      BY <2>3, <2>6
    <3> HIDE DEF blocks
    <3>q. QED
      BY <3>1, <3>2 DEF Marks
  <2> DEFINE b == BlockAt(segs, i)
             X == {0} \cup {c \in DOMAIN segs : segs[c].start <= i}
  <2>8. b \in DOMAIN segs /\ segs[b].start <= i
    <3>1. X \in SUBSET (0 .. Len(segs)) /\ X # {} /\ 1 \in X
      BY <2>d, <2>6, <2>7
    <3>2. \A c \in X : c = 0 \/ (c \in DOMAIN segs /\ segs[c].start <= i)
      OBVIOUS
    <3> HIDE DEF X
    <3>3. Max(X) \in X /\ 1 <= Max(X)
      BY <2>d, <3>1, MaxOf
    <3>4. Max(X) # 0
      BY <3>3
    <3>5. b = Max(X)
      BY DEF BlockAt, X
    <3>q. QED
      BY <3>2, <3>3, <3>4, <3>5
  <2>9. i \in 1 .. N
    <3>1. segs[1].start \in 1 .. N
      <4>0. N \in 0 .. N
        BY <2>2
      <4>1. \A c \in 1 .. Len(Reading(journal)[N].segs) : Reading(journal)[N].segs[c].start \in 1 .. N
        BY <2>2, <4>0, Starts DEF N
      <4>q. QED
        BY <2>d, <2>6, <4>1 DEF segs, Segments, N
    <3>q. QED
      BY <2>2, <2>7, <3>1
  <2>j. i \in DOMAIN journal
    BY <2>2, <2>9 DEF Journal, N
  <2> HIDE DEF b, blocks
  <2>10. Falls(journal, segs, b, i)
    BY DEF Falls, b
  <2>11. PICK m \in DOMAIN M(b) : Shows(M(b)[m], journal[i])
    BY <2>5, <2>9, <2>10 DEF Gathered
  <2>12. ASSUME NEW c \in DOMAIN segs, NEW k \in DOMAIN M(c), Shows(M(c)[k], journal[i])
         PROVE  c = b /\ k = m
    <3>1. PICK x \in 1 .. N : /\ Falls(journal, segs, c, x) /\ journal[x].type = journal[i].type
                              /\ journal[x].clip = M(c)[k].clip
      <4> DEFINE t == journal[i].type
      <4>1. t \in {M(c)[k].filename, M(c)[k].screenshot} \cap Media
        BY <2>12 DEF Shows
      <4>2. Gathered(journal, segs, c, M(c), N)
        BY <2>5
      <4> HIDE DEF t
      <4>3. \E x \in 1 .. N : Falls(journal, segs, c, x) /\ journal[x].type = t /\ journal[x].clip = M(c)[k].clip
        BY <4>1, <4>2 DEF Gathered
      <4>q. QED
        BY <4>3 DEF t
    <3>2. x \in DOMAIN journal /\ journal[x].clip = journal[i].clip
      BY <2>2, <2>12, <3>1 DEF Journal, Shows, N
    <3>3. x = i
      BY <2>j, <3>1, <3>2 DEF OnceEach
    <3>4. c = b
      BY <2>10, <3>1, <3>3 DEF Falls
    <3>5. M(b)[k].clip = M(b)[m].clip
      BY <2>11, <2>12, <3>4 DEF Shows
    <3>q. QED
      BY <2>5, <2>11, <2>12, <3>4, <3>5 DEF Gathered
  <2>13. \A c \in DOMAIN segs : \A k : Seen(c, k, journal[i]) <=> Shows(M(c)[k], journal[i])
    BY <2>4 DEF Shows
  <2> HIDE DEF Seen
  <2>14. /\ b \in DOMAIN blocks /\ m \in DOMAIN blocks[b].media /\ blocks[b].start <= i /\ Seen(b, m, journal[i])
    BY <2>4, <2>8, <2>11, <2>13
  <2>15. \A c \in DOMAIN blocks : \A k \in DOMAIN blocks[c].media :
            Seen(c, k, journal[i]) => c = b /\ k = m
    BY <2>4, <2>12, <2>13
  <2>q. QED
    BY <2>14, <2>15
<1>q. QED
  BY <1>1, RecordedOnce, PTL
=============================================================================
