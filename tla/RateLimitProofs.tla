-------------------------- MODULE RateLimitProofs ---------------------------
(***************************************************************************)
(* Theorems about RateLimit, for every limit, window, sweep period and     *)
(* number of keys and processes.                                           *)
(***************************************************************************)
EXTENDS RateLimit, TLAPS

-----------------------------------------------------------------------------
(* Arithmetic.                                                             *)

LEMMA TimesMonotone ==
  ASSUME NEW a \in Nat, NEW x \in Nat, NEW y \in Nat, x <= y
  PROVE  a * x <= a * y
  OBVIOUS

LEMMA OneMore ==
  ASSUME NEW a \in Nat, NEW x \in Nat
  PROVE  (a + 1) * x = a * x + x
  OBVIOUS

LEMMA TimesNat ==
  ASSUME NEW a \in Nat, NEW x \in Nat
  PROVE  a * x \in Nat
  OBVIOUS

-----------------------------------------------------------------------------
(* One bucket.                                                             *)

Clock == win \in Windows /\ into \in 0..(Width - 1)

(* Bringing a faithful bucket to the current window reads off what was     *)
(* admitted in it and in the one before.                                   *)
LEMMA RolledIsFaithful ==
  ASSUME Clock, NEW b \in Bucket \cup {None}, NEW g \in [Windows -> Nat], Faithful(b, g)
  PROVE  /\ Rolled(b) \in Bucket
         /\ Rolled(b).windowStart = win
         /\ Rolled(b).current = g[win]
         /\ Rolled(b).previous = Law!Before(g)
<1> USE LimitsAssumption, NoneAssumption
<1>0. Windows \subseteq Nat /\ win \in Nat /\ win <= LastWindow
  BY DEF Clock, Windows
<1>1. CASE b = None
  <2>1. Rolled(b) = [current |-> 0, previous |-> 0, windowStart |-> win]
    BY <1>1 DEF Rolled
  <2>2. g[win] = 0 /\ (win # 0 => g[win - 1] = 0)
    BY <1>0, <1>1 DEF Faithful, Windows, Clock
  <2> QED
    BY <1>0, <2>1, <2>2 DEF Bucket, Clock, Law!Before
<1>2. CASE b # None /\ b.windowStart = win
  <2>1. Rolled(b) = b /\ b \in Bucket
    BY <1>2 DEF Rolled
  <2> QED
    BY <1>0, <1>2, <2>1 DEF Faithful, Law!Before
<1>3. CASE b # None /\ b.windowStart # win
  <2>1. b \in Bucket /\ b.windowStart \in Windows /\ b.windowStart \in Nat /\ b.current \in Nat
    BY <1>0, <1>3 DEF Bucket
  <2>2. Rolled(b) = [current |-> 0, windowStart |-> win,
                     previous |-> IF win - b.windowStart = 1 THEN b.current ELSE 0]
    BY <1>3 DEF Rolled
  <2>3. b.windowStart < win /\ g[win] = 0
    BY <1>0, <1>3, <2>1 DEF Faithful, Clock
  <2>4. (IF win - b.windowStart = 1 THEN b.current ELSE 0) = Law!Before(g)
    <3>1. CASE win - b.windowStart = 1
      BY <1>0, <1>3, <2>1, <3>1 DEF Faithful, Law!Before
    <3>2. CASE win - b.windowStart # 1
      <4>1. win - 1 \in Windows /\ win - 1 > b.windowStart /\ win # 0
        BY <1>0, <2>1, <2>3, <3>2 DEF Windows
      <4> QED
        BY <1>3, <3>2, <4>1 DEF Faithful, Law!Before
    <3> QED
      BY <3>1, <3>2
  <2> QED
    BY <1>0, <2>1, <2>2, <2>3, <2>4 DEF Bucket, Clock
<1> QED
  BY <1>1, <1>2, <1>3

(* A stale bucket says nothing about this window or the one before.        *)
LEMMA StaleIsFaithful ==
  ASSUME Clock, NEW b \in Bucket, NEW g \in [Windows -> Nat], Faithful(b, g), Stale(b)
  PROVE  Faithful(None, g)
<1>1. b # None /\ b.windowStart \in Nat /\ win \in Nat /\ Windows \subseteq Nat
  BY NoneAssumption DEF Bucket, Clock, Windows
<1>2. b.windowStart <= win - 2
  BY <1>1 DEF Stale, Clock
<1>3. ASSUME NEW w \in Windows, w >= win - 1
      PROVE  g[w] = 0
  BY <1>1, <1>2, <1>3 DEF Faithful
<1> QED
  BY <1>3 DEF Faithful

-----------------------------------------------------------------------------
(* One limiter.                                                            *)

Recorded(sw, g, keys) ==
  /\ sw \in SlidingWindow(keys) /\ g \in [keys -> [Windows -> Nat]]
  /\ \A k \in keys : Faithful(sw.buckets[k], g[k])

(* Sweeping forgets nothing that matters.                                  *)
LEMMA KeptIsRecorded ==
  ASSUME Clock, NEW keys, NEW sw, NEW g, Recorded(sw, g, keys)
  PROVE  /\ Kept(sw) \in [keys -> Bucket \cup {None}]
         /\ \A k \in keys : Faithful(Kept(sw)[k], g[k])
<1>1. sw.buckets \in [keys -> Bucket \cup {None}] /\ DOMAIN sw.buckets = keys
  BY DEF Recorded, SlidingWindow
<1>2. CASE sw.opCount + 1 # SweepEvery
  BY <1>1, <1>2 DEF Kept, Recorded
<1>3. CASE sw.opCount + 1 = SweepEvery
  <2>1. Kept(sw) = [k \in keys |-> IF sw.buckets[k] # None /\ Stale(sw.buckets[k])
                                   THEN None ELSE sw.buckets[k]]
    BY <1>1, <1>3 DEF Kept
  <2>2. Kept(sw) \in [keys -> Bucket \cup {None}]
    BY <1>1, <2>1
  <2>3. ASSUME NEW k \in keys
        PROVE  Faithful(Kept(sw)[k], g[k])
    <3>1. CASE sw.buckets[k] # None /\ Stale(sw.buckets[k])
      <4>1. sw.buckets[k] \in Bucket /\ g[k] \in [Windows -> Nat]
            /\ Faithful(sw.buckets[k], g[k])
        BY <1>1, <3>1 DEF Recorded
      <4>2. Faithful(None, g[k])
        BY <3>1, <4>1, StaleIsFaithful
      <4> QED
        BY <2>1, <3>1, <4>2
    <3>2. CASE ~(sw.buckets[k] # None /\ Stale(sw.buckets[k]))
      <4>1. Kept(sw)[k] = sw.buckets[k]
        BY <2>1, <3>2
      <4> QED
        BY <4>1 DEF Recorded
    <3> QED
      BY <3>1, <3>2
  <2> QED
    BY <2>2, <2>3
<1> QED
  BY <1>2, <1>3

(* The verdict is the law's.                                               *)
LEMMA AdmitsByLaw ==
  ASSUME Clock, NEW keys, NEW sw, NEW g, Recorded(sw, g, keys), NEW k \in keys,
         NEW limit \in Nat
  PROVE  /\ Admits(sw, limit, k) <=> Law!Under(g[k], limit)
         /\ Found(sw, k) \in Bucket
         /\ Found(sw, k).windowStart = win
         /\ Found(sw, k).current = g[k][win]
         /\ Found(sw, k).previous = Law!Before(g[k])
<1>1. Kept(sw)[k] \in Bucket \cup {None} /\ Faithful(Kept(sw)[k], g[k])
      /\ g[k] \in [Windows -> Nat]
  BY KeptIsRecorded DEF Recorded
<1>2. /\ Found(sw, k) \in Bucket
      /\ Found(sw, k).windowStart = win
      /\ Found(sw, k).current = g[k][win]
      /\ Found(sw, k).previous = Law!Before(g[k])
  BY <1>1, RolledIsFaithful DEF Found
<1> QED
  BY <1>2 DEF Admits, Effective, Law!Under, Law!Weight

(* A call of admit is recorded.                                            *)
LEMMA AdmitIsRecorded ==
  ASSUME Clock, NEW keys, NEW sw, NEW g, Recorded(sw, g, keys), NEW k \in keys,
         NEW limit \in Nat,
         NEW h, h = IF Admits(sw, limit, k) THEN [g EXCEPT ![k] = Count(@)] ELSE g
  PROVE  Recorded(Admit(sw, limit, k), h, keys)
<1> USE LimitsAssumption, NoneAssumption
<1> DEFINE found == Found(sw, k)
           b == IF Admits(sw, limit, k) THEN [found EXCEPT !.current = @ + 1] ELSE found
           n == IF sw.opCount + 1 = SweepEvery THEN 0 ELSE sw.opCount + 1
<1>1. found \in Bucket /\ found.windowStart = win /\ found.current = g[k][win]
      /\ found.previous = Law!Before(g[k])
  BY AdmitsByLaw
<1>2. Kept(sw) \in [keys -> Bucket \cup {None}] /\ \A x \in keys : Faithful(Kept(sw)[x], g[x])
  BY KeptIsRecorded
<1>3. g \in [keys -> [Windows -> Nat]] /\ g[k] \in [Windows -> Nat] /\ win \in Windows
      /\ Windows \subseteq Nat
  BY DEF Recorded, Clock, Windows
<1>4. n \in 0..(SweepEvery - 1)
  <2>1. sw.opCount \in 0..(SweepEvery - 1)
    BY DEF Recorded, SlidingWindow
  <2> QED
    BY <2>1
<1> HIDE DEF found
<1>5. b \in Bucket /\ b.windowStart = win /\ b.previous = Law!Before(g[k])
      /\ b.current = IF Admits(sw, limit, k) THEN g[k][win] + 1 ELSE g[k][win]
  BY <1>1 DEF Bucket
<1>6. Admit(sw, limit, k) = [opCount |-> n, buckets |-> [Kept(sw) EXCEPT ![k] = b]]
  BY DEF Admit, found
<1>7. h \in [keys -> [Windows -> Nat]] /\ \A x \in keys \ {k} : h[x] = g[x]
  BY <1>3 DEF Count
<1>8. /\ h[k][win] = b.current
      /\ \A w \in Windows \ {win} : h[k][w] = g[k][w]
  BY <1>3, <1>5 DEF Count
<1> HIDE DEF b, n
<1>9. \A w \in Windows : w > win => g[k][w] = 0
  <2> DEFINE c == Kept(sw)[k]
  <2>1. c \in Bucket \cup {None} /\ Faithful(c, g[k])
    BY <1>2
  <2> HIDE DEF c
  <2>2. c # None => c.windowStart \in Nat
    BY <1>3, <2>1 DEF Bucket
  <2> QED
    BY <1>3, <2>1, <2>2 DEF Faithful
<1>10. Faithful(b, h[k])
  <2>1. b # None
    BY <1>5
  <2>2. b.previous = IF b.windowStart = 0 THEN 0 ELSE h[k][b.windowStart - 1]
    BY <1>3, <1>5, <1>8 DEF Law!Before, Windows
  <2> QED
    BY <1>3, <1>5, <1>8, <1>9, <2>1, <2>2 DEF Faithful
<1>11. ASSUME NEW x \in keys
       PROVE  Faithful([Kept(sw) EXCEPT ![k] = b][x], h[x])
  BY <1>2, <1>7, <1>10
<1> QED
  BY <1>2, <1>4, <1>5, <1>6, <1>7, <1>11 DEF Recorded, SlidingWindow

-----------------------------------------------------------------------------
(* The weight of what was admitted, at an instant x of window w.           *)

WeightAt(g, w, x) == (IF w = 0 THEN 0 ELSE g[w - 1]) * (Width - x) + g[w] * Width

Ahead(g, limit, w, x) == ~(WeightAt(g, w, x) < (limit + 1) * Width)

LEMMA AheadNow ==
  /\ \A g : Law!Weight(g) = WeightAt(g, win, into)
  /\ NeverAhead <=> \A i \in Instances :
                      /\ \A k \in Ips : ~Ahead(ipGranted[i][k], IpLimit, win, into)
                      /\ \A k \in AppIds : ~Ahead(appGranted[i][k], AppLimit, win, into)
  /\ NeverAhead' <=> \A i \in Instances :
                      /\ \A k \in Ips : ~Ahead(ipGranted'[i][k], IpLimit, win', into')
                      /\ \A k \in AppIds : ~Ahead(appGranted'[i][k], AppLimit, win', into')
  BY DEF NeverAhead, Law!Weight, Law!Before, WeightAt, Ahead

(* One more admission under the limit does not get a request ahead of it.  *)
LEMMA CountNotAhead ==
  ASSUME Clock, NEW g \in [Windows -> Nat], NEW limit \in Nat, Law!Under(g, limit)
  PROVE  ~Ahead(Count(g), limit, win, into)
<1> USE LimitsAssumption
<1> DEFINE p == IF win = 0 THEN 0 ELSE g[win - 1]
           c == g[win]
<1>0. win \in Nat /\ win <= LastWindow
  BY DEF Clock, Windows
<1>1. p \in Nat /\ c \in Nat /\ Width - into \in Nat
  BY <1>0 DEF Clock, Windows
<1>2. Count(g)[win] = c + 1 /\ (IF win = 0 THEN 0 ELSE Count(g)[win - 1]) = p
  BY <1>0 DEF Count, Clock, Windows
<1>3. p * (Width - into) + c * Width < limit * Width
  BY DEF Law!Under, Law!Weight, Law!Before
<1> HIDE DEF p, c
<1>4. p * (Width - into) \in Nat /\ c * Width \in Nat /\ limit * Width \in Nat
  BY <1>1, TimesNat
<1>5. (c + 1) * Width = c * Width + Width /\ (limit + 1) * Width = limit * Width + Width
  BY <1>1, OneMore
<1>6. WeightAt(Count(g), win, into) = p * (Width - into) + (c + 1) * Width
  BY <1>2 DEF WeightAt
<1>7. p * (Width - into) + (c * Width + Width) < limit * Width + Width
  BY <1>3, <1>4
<1>8. WeightAt(Count(g), win, into) < (limit + 1) * Width
  BY <1>5, <1>6, <1>7
<1> QED
  BY <1>8 DEF Ahead

(* As time passes, from (w, x) to (v, y), the weight stays below m as long *)
(* as nothing is admitted after w.                                         *)
LEMMA WeightFalls ==
  ASSUME NEW g \in [Windows -> Nat], NEW m \in Nat, m > 0,
         NEW w \in Windows, NEW x \in 0..(Width - 1),
         NEW v \in Windows, NEW y \in 0..(Width - 1), v > w \/ (v = w /\ y > x),
         \A u \in Windows : u > w => g[u] = 0,
         WeightAt(g, w, x) < m
  PROVE  WeightAt(g, v, y) < m
<1> USE LimitsAssumption
<1> DEFINE p == IF w = 0 THEN 0 ELSE g[w - 1]
           c == g[w]
           left == Width - y
<1>1. /\ w \in Nat /\ v \in Nat /\ left \in Nat /\ Width - x \in Nat
      /\ left <= Width
  BY DEF Windows
<1>2. p \in Nat /\ c \in Nat
  <2>1. w # 0 => w - 1 \in Windows
    BY <1>1 DEF Windows
  <2> QED
    BY <2>1
<1>3. p * (Width - x) + c * Width < m
  BY DEF WeightAt
<1>4. v = w => left <= Width - x
  BY <1>1
<1>5. \A u \in Windows : u > w => g[u] = 0
  OBVIOUS
<1>6. v # w => v > w
  BY <1>1
<1>7. v > w => v - 1 \in Windows /\ v # 0 /\ (v - 1 = w \/ v - 1 > w)
  BY <1>1 DEF Windows
<1>8. WeightAt(g, v, y) = (IF v = 0 THEN 0 ELSE g[v - 1]) * left + g[v] * Width
  BY DEF WeightAt
<1> HIDE DEF left
<1>9. CASE v = w
  <2>1. WeightAt(g, v, y) = p * left + c * Width
    BY <1>8, <1>9
  <2> HIDE DEF p, c
  <2>2. p * left <= p * (Width - x)
    BY <1>1, <1>2, <1>4, <1>9, TimesMonotone
  <2>3. p * left \in Nat /\ p * (Width - x) \in Nat /\ c * Width \in Nat
    BY <1>1, <1>2, TimesNat
  <2> QED
    BY <1>3, <2>1, <2>2, <2>3
<1>10. CASE v > w /\ v - 1 = w
  <2>1. WeightAt(g, v, y) = c * left + 0 * Width
    BY <1>5, <1>7, <1>8, <1>10
  <2> HIDE DEF p, c
  <2>2. c * left <= c * Width /\ 0 * Width = 0
    BY <1>1, <1>2, TimesMonotone
  <2>3. p * (Width - x) \in Nat /\ c * left \in Nat /\ c * Width \in Nat
    BY <1>1, <1>2, TimesNat
  <2> QED
    BY <1>3, <2>1, <2>2, <2>3
<1>11. CASE v > w /\ v - 1 > w
  <2>1. g[v] = 0 /\ g[v - 1] = 0 /\ v # 0
    BY <1>5, <1>7, <1>11
  <2>2. WeightAt(g, v, y) = 0 * left + 0 * Width
    BY <1>8, <2>1
  <2>3. 0 * left = 0 /\ 0 * Width = 0
    BY <1>1
  <2> QED
    BY <2>2, <2>3
<1> QED
  BY <1>6, <1>7, <1>9, <1>10, <1>11

LEMMA LimitNat ==
  ASSUME NEW limit \in Nat
  PROVE  (limit + 1) * Width \in Nat /\ (limit + 1) * Width > 0
<1>1. Width \in Nat /\ Width > 0
  BY LimitsAssumption
<1>2. limit * Width \in Nat /\ (limit + 1) * Width = limit * Width + Width
  BY <1>1, TimesNat, OneMore
<1> QED
  BY <1>1, <1>2

LEMMA TimeNotAhead ==
  ASSUME Clock, NEW limit \in Nat, NEW g \in [Windows -> Nat],
         ~Ahead(g, limit, win, into), \A u \in Windows : u > win => g[u] = 0,
         NEW v \in Windows, NEW y \in 0..(Width - 1), v > win \/ (v = win /\ y > into)
  PROVE  ~Ahead(g, limit, v, y)
<1>1. (limit + 1) * Width \in Nat /\ (limit + 1) * Width > 0
  BY LimitNat
<1>2. WeightAt(g, win, into) < (limit + 1) * Width
  BY DEF Ahead
<1>3. WeightAt(g, v, y) < (limit + 1) * Width
  <2> DEFINE m == (limit + 1) * Width
  <2>1. m \in Nat /\ m > 0 /\ WeightAt(g, win, into) < m
    BY <1>1, <1>2
  <2> HIDE DEF m
  <2>2. WeightAt(g, v, y) < m
    BY <2>1, WeightFalls DEF Clock
  <2> QED
    BY <2>2 DEF m
<1> QED
  BY <1>3 DEF Ahead

(* A call of admit leaves no key ahead.                                    *)
LEMMA AdmitNotAhead ==
  ASSUME Clock, NEW keys, NEW sw, NEW g, Recorded(sw, g, keys), NEW k \in keys,
         NEW limit \in Nat,
         NEW h, h = IF Admits(sw, limit, k) THEN [g EXCEPT ![k] = Count(@)] ELSE g,
         \A x \in keys : ~Ahead(g[x], limit, win, into)
  PROVE  \A x \in keys : ~Ahead(h[x], limit, win, into)
<1>1. g \in [keys -> [Windows -> Nat]] /\ g[k] \in [Windows -> Nat]
  BY DEF Recorded
<1>2. CASE Admits(sw, limit, k)
  <2>1. ~Ahead(Count(g[k]), limit, win, into)
    BY <1>1, <1>2, AdmitsByLaw, CountNotAhead
  <2>2. h[k] = Count(g[k]) /\ \A x \in keys \ {k} : h[x] = g[x]
    BY <1>1, <1>2
  <2> QED
    BY <2>1, <2>2
<1>3. CASE ~Admits(sw, limit, k)
  BY <1>3
<1> QED
  BY <1>2, <1>3

-----------------------------------------------------------------------------
(* All the limiters, at an instant.                                        *)

IInv == TypeOK /\ FaithfulInv

FaithfulAt(b, g, w) ==
  /\ b = None => \A u \in Windows : u >= w - 1 => g[u] = 0
  /\ b # None =>
       /\ b.windowStart <= w
       /\ b.current = g[b.windowStart]
       /\ b.previous = IF b.windowStart = 0 THEN 0 ELSE g[b.windowStart - 1]
       /\ \A u \in Windows : u > b.windowStart => g[u] = 0

LEMMA FaithfulNow == \A b, g : Faithful(b, g) <=> FaithfulAt(b, g, win)
  BY DEF Faithful, FaithfulAt

LEMMA FaithfulNext ==
  ASSUME \A i \in Instances :
           /\ \A k \in Ips : /\ FaithfulAt(ipWindow'[i].buckets[k], ipGranted'[i][k], win')
                            /\ ~Ahead(ipGranted'[i][k], IpLimit, win', into')
           /\ \A k \in AppIds : /\ FaithfulAt(appWindow'[i].buckets[k], appGranted'[i][k], win')
                               /\ ~Ahead(appGranted'[i][k], AppLimit, win', into')
  PROVE  FaithfulInv'
<1>1. NeverAhead'
  BY AheadNow
<1>2. \A i \in Instances :
        /\ \A k \in Ips : Faithful(ipWindow[i].buckets[k], ipGranted[i][k])'
        /\ \A k \in AppIds : Faithful(appWindow[i].buckets[k], appGranted[i][k])'
  BY DEF Faithful, FaithfulAt
<1> QED
  BY <1>1, <1>2 DEF FaithfulInv

LEMMA AllRecorded ==
  ASSUME IInv
  PROVE  /\ Clock
         /\ \A i \in Instances : /\ Recorded(ipWindow[i], ipGranted[i], Ips)
                                /\ Recorded(appWindow[i], appGranted[i], AppIds)
         /\ \A i \in Instances :
              /\ \A k \in Ips : ~Ahead(ipGranted[i][k], IpLimit, win, into)
              /\ \A k \in AppIds : ~Ahead(appGranted[i][k], AppLimit, win, into)
<1>1. Clock
  BY DEF IInv, TypeOK, Clock
<1>2. \A i \in Instances :
        /\ \A k \in Ips : ~Ahead(ipGranted[i][k], IpLimit, win, into)
        /\ \A k \in AppIds : ~Ahead(appGranted[i][k], AppLimit, win, into)
  BY AheadNow DEF IInv, FaithfulInv
<1>3. \A i \in Instances : /\ Recorded(ipWindow[i], ipGranted[i], Ips)
                          /\ Recorded(appWindow[i], appGranted[i], AppIds)
  BY DEF IInv, TypeOK, FaithfulInv, Recorded
<1> QED
  BY <1>1, <1>2, <1>3

LEMMA NothingIsFaithful ==
  ASSUME NEW keys, NEW limit \in Nat, NEW w \in Windows, NEW x \in 0..(Width - 1)
  PROVE  /\ Empty(keys) \in SlidingWindow(keys)
         /\ NoneGranted(keys) \in [keys -> [Windows -> Nat]]
         /\ \A k \in keys : /\ FaithfulAt(Empty(keys).buckets[k], NoneGranted(keys)[k], w)
                           /\ ~Ahead(NoneGranted(keys)[k], limit, w, x)
<1> USE LimitsAssumption, NoneAssumption
<1>1. Empty(keys) \in SlidingWindow(keys)
  BY DEF Empty, SlidingWindow
<1>2. NoneGranted(keys) \in [keys -> [Windows -> Nat]]
  BY DEF NoneGranted
<1>3. ASSUME NEW k \in keys
      PROVE  /\ FaithfulAt(Empty(keys).buckets[k], NoneGranted(keys)[k], w)
             /\ ~Ahead(NoneGranted(keys)[k], limit, w, x)
  <2> DEFINE g == NoneGranted(keys)[k]
  <2>1. \A u \in Windows : g[u] = 0
    BY DEF NoneGranted
  <2>2. Empty(keys).buckets[k] = None
    BY DEF Empty
  <2> HIDE DEF g
  <2>3. FaithfulAt(None, g, w)
    BY <2>1 DEF FaithfulAt
  <2>4. WeightAt(g, w, x) = 0 * (Width - x) + 0 * Width
    <3>1. w \in Nat /\ (w # 0 => w - 1 \in Windows)
      BY DEF Windows
    <3> QED
      BY <2>1, <3>1 DEF WeightAt
  <2>5. 0 * (Width - x) + 0 * Width = 0
    OBVIOUS
  <2>6. ~Ahead(g, limit, w, x)
    BY <2>4, <2>5, LimitNat DEF Ahead
  <2> QED
    BY <2>2, <2>3, <2>6 DEF g
<1> QED
  BY <1>1, <1>2, <1>3

LEMMA InitHolds == Init => IInv
<1> SUFFICES ASSUME Init PROVE IInv
  OBVIOUS
<1> USE LimitsAssumption
<1>1. win \in Windows /\ into \in 0..(Width - 1) /\ IpLimit \in Nat /\ AppLimit \in Nat
  BY DEF Init, Windows
<1>2. TypeOK
  BY <1>1, NothingIsFaithful DEF Init, TypeOK
<1>3. ASSUME NEW i \in Instances
      PROVE  /\ \A k \in Ips : /\ Faithful(ipWindow[i].buckets[k], ipGranted[i][k])
                              /\ ~Ahead(ipGranted[i][k], IpLimit, win, into)
             /\ \A k \in AppIds : /\ Faithful(appWindow[i].buckets[k], appGranted[i][k])
                                 /\ ~Ahead(appGranted[i][k], AppLimit, win, into)
  <2>1. /\ ipWindow[i] = Empty(Ips) /\ ipGranted[i] = NoneGranted(Ips)
        /\ appWindow[i] = Empty(AppIds) /\ appGranted[i] = NoneGranted(AppIds)
    BY DEF Init
  <2> QED
    BY <1>1, <2>1, NothingIsFaithful, FaithfulNow
<1> QED
  BY <1>2, <1>3, AheadNow DEF IInv, FaithfulInv

(* A step that leaves the clock alone and every limiter recorded.          *)
LEMMA StillRecorded ==
  ASSUME IInv, UNCHANGED <<win, into>>,
         DOMAIN ipWindow' = Instances, DOMAIN appWindow' = Instances,
         ipWindow' \in [Instances -> SlidingWindow(Ips)],
         appWindow' \in [Instances -> SlidingWindow(AppIds)],
         ipGranted' \in [Instances -> [Ips -> [Windows -> Nat]]],
         appGranted' \in [Instances -> [AppIds -> [Windows -> Nat]]],
         \A i \in Instances :
           /\ Recorded(ipWindow'[i], ipGranted'[i], Ips)
           /\ Recorded(appWindow'[i], appGranted'[i], AppIds)
           /\ \A k \in Ips : ~Ahead(ipGranted'[i][k], IpLimit, win, into)
           /\ \A k \in AppIds : ~Ahead(appGranted'[i][k], AppLimit, win, into)
  PROVE  IInv'
<1>1. TypeOK'
  BY DEF IInv, TypeOK
<1>2. win' = win /\ into' = into
  OBVIOUS
<1>3. \A i \in Instances :
        /\ \A k \in Ips : FaithfulAt(ipWindow'[i].buckets[k], ipGranted'[i][k], win)
        /\ \A k \in AppIds : FaithfulAt(appWindow'[i].buckets[k], appGranted'[i][k], win)
  BY FaithfulNow DEF Recorded
<1>4. FaithfulInv'
  BY <1>2, <1>3, FaithfulNext
<1> QED
  BY <1>1, <1>4 DEF IInv

LEMMA RequestHolds ==
  ASSUME IInv, NEW i \in Instances, NEW ip \in Ips, NEW app \in AppIds, Request(i, ip, app)
  PROVE  IInv'
<1> USE LimitsAssumption
<1> DEFINE ipOk == Admits(ipWindow[i], IpLimit, ip)
           appOk == Admits(appWindow[i], AppLimit, app)
           g == ipGranted[i]
           h == IF ipOk THEN [g EXCEPT ![ip] = Count(@)] ELSE g
           ag == appGranted[i]
           ah == IF appOk THEN [ag EXCEPT ![app] = Count(@)] ELSE ag
           sw == Admit(ipWindow[i], IpLimit, ip)
           asw == Admit(appWindow[i], AppLimit, app)
<1>1. /\ Clock
      /\ \A j \in Instances : /\ Recorded(ipWindow[j], ipGranted[j], Ips)
                             /\ Recorded(appWindow[j], appGranted[j], AppIds)
      /\ \A j \in Instances :
           /\ \A k \in Ips : ~Ahead(ipGranted[j][k], IpLimit, win, into)
           /\ \A k \in AppIds : ~Ahead(appGranted[j][k], AppLimit, win, into)
      /\ IpLimit \in Nat /\ AppLimit \in Nat
  BY AllRecorded
<1>2. /\ ipWindow \in [Instances -> SlidingWindow(Ips)]
      /\ appWindow \in [Instances -> SlidingWindow(AppIds)]
      /\ ipGranted \in [Instances -> [Ips -> [Windows -> Nat]]]
      /\ appGranted \in [Instances -> [AppIds -> [Windows -> Nat]]]
  BY DEF IInv, TypeOK
<1>3. Recorded(sw, h, Ips) /\ \A k \in Ips : ~Ahead(h[k], IpLimit, win, into)
  <2>1. Recorded(ipWindow[i], g, Ips) /\ \A k \in Ips : ~Ahead(g[k], IpLimit, win, into)
    BY <1>1
  <2>2. h = IF Admits(ipWindow[i], IpLimit, ip) THEN [g EXCEPT ![ip] = Count(@)] ELSE g
    OBVIOUS
  <2> HIDE DEF g, h
  <2> QED
    BY <1>1, <2>1, <2>2, AdmitIsRecorded, AdmitNotAhead
<1>4. Recorded(asw, ah, AppIds) /\ \A k \in AppIds : ~Ahead(ah[k], AppLimit, win, into)
  <2>1. Recorded(appWindow[i], ag, AppIds) /\ \A k \in AppIds : ~Ahead(ag[k], AppLimit, win, into)
    BY <1>1
  <2>2. ah = IF Admits(appWindow[i], AppLimit, app) THEN [ag EXCEPT ![app] = Count(@)] ELSE ag
    OBVIOUS
  <2> HIDE DEF ag, ah
  <2> QED
    BY <1>1, <2>1, <2>2, AdmitIsRecorded, AdmitNotAhead
<1>5. /\ ipWindow' = [ipWindow EXCEPT ![i] = sw]
      /\ ipGranted' = [ipGranted EXCEPT ![i] = h]
      /\ UNCHANGED <<win, into>>
  BY <1>2 DEF Request
<1>6. \/ /\ appWindow' = [appWindow EXCEPT ![i] = asw]
         /\ appGranted' = [appGranted EXCEPT ![i] = ah]
      \/ appWindow' = appWindow /\ appGranted' = appGranted
  BY <1>2 DEF Request
<1> HIDE DEF sw, asw, h, ah, g, ag
<1>7. /\ sw \in SlidingWindow(Ips) /\ h \in [Ips -> [Windows -> Nat]]
      /\ asw \in SlidingWindow(AppIds) /\ ah \in [AppIds -> [Windows -> Nat]]
  BY <1>3, <1>4 DEF Recorded
<1>8. /\ ipWindow' \in [Instances -> SlidingWindow(Ips)]
      /\ ipGranted' \in [Instances -> [Ips -> [Windows -> Nat]]]
      /\ \A j \in Instances :
           /\ Recorded(ipWindow'[j], ipGranted'[j], Ips)
           /\ \A k \in Ips : ~Ahead(ipGranted'[j][k], IpLimit, win, into)
  <2>1. ipWindow'[i] = sw /\ ipGranted'[i] = h
        /\ \A j \in Instances \ {i} : ipWindow'[j] = ipWindow[j] /\ ipGranted'[j] = ipGranted[j]
    BY <1>2, <1>5
  <2>2. /\ ipWindow' \in [Instances -> SlidingWindow(Ips)]
        /\ ipGranted' \in [Instances -> [Ips -> [Windows -> Nat]]]
    BY <1>2, <1>5, <1>7
  <2> QED
    BY <1>1, <1>3, <2>1, <2>2
<1>9. /\ appWindow' \in [Instances -> SlidingWindow(AppIds)]
      /\ appGranted' \in [Instances -> [AppIds -> [Windows -> Nat]]]
      /\ \A j \in Instances :
           /\ Recorded(appWindow'[j], appGranted'[j], AppIds)
           /\ \A k \in AppIds : ~Ahead(appGranted'[j][k], AppLimit, win, into)
  <2>1. CASE appWindow' = appWindow /\ appGranted' = appGranted
    BY <1>1, <1>2, <2>1
  <2>2. CASE /\ appWindow' = [appWindow EXCEPT ![i] = asw]
             /\ appGranted' = [appGranted EXCEPT ![i] = ah]
    <3>1. appWindow'[i] = asw /\ appGranted'[i] = ah
          /\ \A j \in Instances \ {i} : appWindow'[j] = appWindow[j]
                                     /\ appGranted'[j] = appGranted[j]
      BY <1>2, <2>2
    <3>2. /\ appWindow' \in [Instances -> SlidingWindow(AppIds)]
          /\ appGranted' \in [Instances -> [AppIds -> [Windows -> Nat]]]
      BY <1>2, <1>7, <2>2
    <3> QED
      BY <1>1, <1>4, <3>1, <3>2
  <2> QED
    BY <1>6, <2>1, <2>2
<1> QED
  BY <1>5, <1>8, <1>9, StillRecorded

LEMMA RestartHolds ==
  ASSUME IInv, NEW i \in Instances, Restart(i)
  PROVE  IInv'
<1>1. /\ Clock
      /\ \A j \in Instances : /\ Recorded(ipWindow[j], ipGranted[j], Ips)
                             /\ Recorded(appWindow[j], appGranted[j], AppIds)
      /\ \A j \in Instances :
           /\ \A k \in Ips : ~Ahead(ipGranted[j][k], IpLimit, win, into)
           /\ \A k \in AppIds : ~Ahead(appGranted[j][k], AppLimit, win, into)
      /\ IpLimit \in Nat /\ AppLimit \in Nat
  BY AllRecorded, LimitsAssumption
<1>2. /\ ipWindow \in [Instances -> SlidingWindow(Ips)]
      /\ appWindow \in [Instances -> SlidingWindow(AppIds)]
      /\ ipGranted \in [Instances -> [Ips -> [Windows -> Nat]]]
      /\ appGranted \in [Instances -> [AppIds -> [Windows -> Nat]]]
  BY DEF IInv, TypeOK
<1>3. /\ Recorded(Empty(Ips), NoneGranted(Ips), Ips)
      /\ Recorded(Empty(AppIds), NoneGranted(AppIds), AppIds)
      /\ \A k \in Ips : ~Ahead(NoneGranted(Ips)[k], IpLimit, win, into)
      /\ \A k \in AppIds : ~Ahead(NoneGranted(AppIds)[k], AppLimit, win, into)
  BY <1>1, NothingIsFaithful, FaithfulNow DEF Clock, Recorded
<1>4. /\ ipWindow' = [ipWindow EXCEPT ![i] = Empty(Ips)]
      /\ appWindow' = [appWindow EXCEPT ![i] = Empty(AppIds)]
      /\ ipGranted' = [ipGranted EXCEPT ![i] = NoneGranted(Ips)]
      /\ appGranted' = [appGranted EXCEPT ![i] = NoneGranted(AppIds)]
      /\ UNCHANGED <<win, into>>
  BY DEF Restart
<1>5. /\ ipWindow' \in [Instances -> SlidingWindow(Ips)]
      /\ appWindow' \in [Instances -> SlidingWindow(AppIds)]
      /\ ipGranted' \in [Instances -> [Ips -> [Windows -> Nat]]]
      /\ appGranted' \in [Instances -> [AppIds -> [Windows -> Nat]]]
  BY <1>2, <1>3, <1>4 DEF Recorded
<1>6. /\ ipWindow'[i] = Empty(Ips) /\ ipGranted'[i] = NoneGranted(Ips)
      /\ appWindow'[i] = Empty(AppIds) /\ appGranted'[i] = NoneGranted(AppIds)
      /\ \A j \in Instances \ {i} :
           /\ ipWindow'[j] = ipWindow[j] /\ ipGranted'[j] = ipGranted[j]
           /\ appWindow'[j] = appWindow[j] /\ appGranted'[j] = appGranted[j]
  BY <1>2, <1>4
<1>7. \A j \in Instances :
        /\ Recorded(ipWindow'[j], ipGranted'[j], Ips)
        /\ Recorded(appWindow'[j], appGranted'[j], AppIds)
        /\ \A k \in Ips : ~Ahead(ipGranted'[j][k], IpLimit, win, into)
        /\ \A k \in AppIds : ~Ahead(appGranted'[j][k], AppLimit, win, into)
  BY <1>1, <1>3, <1>6
<1> QED
  BY <1>4, <1>5, <1>7, StillRecorded

(* Time leaves a faithful bucket faithful.                                 *)
LEMMA TimeIsFaithful ==
  ASSUME Clock, NEW b \in Bucket \cup {None}, NEW g \in [Windows -> Nat],
         Faithful(b, g), NEW v \in Windows, v >= win
  PROVE  FaithfulAt(b, g, v) /\ \A u \in Windows : u > win => g[u] = 0
<1>1. /\ win \in Nat /\ v \in Nat /\ Windows \subseteq Nat
      /\ b # None => b.windowStart \in Nat
  BY DEF Clock, Windows, Bucket
<1>2. CASE b = None
  BY <1>1, <1>2 DEF Faithful, FaithfulAt
<1>3. CASE b # None
  <2>1. b.windowStart <= win /\ \A u \in Windows : u > b.windowStart => g[u] = 0
    BY <1>3 DEF Faithful
  <2>2. \A u \in Windows : u > win => g[u] = 0
    BY <1>1, <1>3, <2>1
  <2>3. b.windowStart <= v
    BY <1>1, <1>3, <2>1
  <2> QED
    BY <1>3, <2>2, <2>3 DEF Faithful, FaithfulAt
<1> QED
  BY <1>2, <1>3

LEMMA TickHolds ==
  ASSUME IInv, Tick
  PROVE  IInv'
<1>1. /\ Clock
      /\ \A j \in Instances : /\ Recorded(ipWindow[j], ipGranted[j], Ips)
                             /\ Recorded(appWindow[j], appGranted[j], AppIds)
      /\ \A j \in Instances :
           /\ \A k \in Ips : ~Ahead(ipGranted[j][k], IpLimit, win, into)
           /\ \A k \in AppIds : ~Ahead(appGranted[j][k], AppLimit, win, into)
      /\ IpLimit \in Nat /\ AppLimit \in Nat
  BY AllRecorded, LimitsAssumption
<1>2. PICK v \in win..LastWindow, y \in 0..(Width - 1) :
        /\ v > win \/ y > into
        /\ win' = v /\ into' = y
  BY DEF Tick
<1>3. v \in Windows /\ v >= win /\ (v > win \/ (v = win /\ y > into))
  BY <1>1, <1>2, LimitsAssumption DEF Clock, Windows
<1>4. UNCHANGED <<ipWindow, appWindow, ipGranted, appGranted>>
  BY DEF Tick
<1>5. TypeOK'
  BY <1>2, <1>3, <1>4 DEF IInv, TypeOK
<1>6. ASSUME NEW j \in Instances, NEW k \in Ips
      PROVE  /\ FaithfulAt(ipWindow[j].buckets[k], ipGranted[j][k], v)
             /\ ~Ahead(ipGranted[j][k], IpLimit, v, y)
  <2>1. /\ ipWindow[j].buckets[k] \in Bucket \cup {None} /\ ipGranted[j][k] \in [Windows -> Nat]
        /\ Faithful(ipWindow[j].buckets[k], ipGranted[j][k])
    BY <1>1 DEF Recorded, SlidingWindow
  <2>2. /\ FaithfulAt(ipWindow[j].buckets[k], ipGranted[j][k], v)
        /\ \A u \in Windows : u > win => ipGranted[j][k][u] = 0
    BY <1>1, <1>3, <2>1, TimeIsFaithful
  <2> QED
    BY <1>1, <1>3, <2>1, <2>2, TimeNotAhead
<1>7. ASSUME NEW j \in Instances, NEW k \in AppIds
      PROVE  /\ FaithfulAt(appWindow[j].buckets[k], appGranted[j][k], v)
             /\ ~Ahead(appGranted[j][k], AppLimit, v, y)
  <2>1. /\ appWindow[j].buckets[k] \in Bucket \cup {None}
        /\ appGranted[j][k] \in [Windows -> Nat]
        /\ Faithful(appWindow[j].buckets[k], appGranted[j][k])
    BY <1>1 DEF Recorded, SlidingWindow
  <2>2. /\ FaithfulAt(appWindow[j].buckets[k], appGranted[j][k], v)
        /\ \A u \in Windows : u > win => appGranted[j][k][u] = 0
    BY <1>1, <1>3, <2>1, TimeIsFaithful
  <2> QED
    BY <1>1, <1>3, <2>1, <2>2, TimeNotAhead
<1>8. FaithfulInv'
  BY <1>2, <1>4, <1>6, <1>7, FaithfulNext
<1> QED
  BY <1>5, <1>8 DEF IInv

LEMMA StutterHolds ==
  ASSUME IInv, UNCHANGED vars
  PROVE  IInv'
  BY DEF IInv, TypeOK, FaithfulInv, Faithful, NeverAhead, Law!Weight, Law!Before, vars

LEMMA StepHolds == IInv /\ [Next]_vars => IInv'
  BY RequestHolds, RestartHolds, TickHolds, StutterHolds DEF Next

LEMMA Inductive == Spec => []IInv
  BY InitHolds, StepHolds, PTL DEF Spec

-----------------------------------------------------------------------------
(* The buckets of rate-limit.ts, their call counters, the clock and the    *)
(* counts of what was admitted keep their types.                           *)
THEOREM LimiterTypeCorrect == Spec => []TypeOK
<1>1. IInv => TypeOK
  BY DEF IInv
<1> QED
  BY <1>1, Inductive, PTL

(* No address and no app is ever a whole request ahead of its limit, in    *)
(* the sliding window of any instant.                                      *)
THEOREM LimitsHold == Spec => []NeverAhead
<1>1. IInv => NeverAhead
  BY DEF IInv, FaithfulInv
<1> QED
  BY <1>1, Inductive, PTL

LEMMA RequestByLaw ==
  ASSUME IInv, NEW i \in Instances, NEW ip \in Ips, NEW app \in AppIds, Request(i, ip, app)
  PROVE  Law!Request(i, ip, app)
<1>1. /\ Clock /\ IpLimit \in Nat /\ AppLimit \in Nat
      /\ Recorded(ipWindow[i], ipGranted[i], Ips)
      /\ Recorded(appWindow[i], appGranted[i], AppIds)
  BY AllRecorded, LimitsAssumption
<1>2. Admits(ipWindow[i], IpLimit, ip) <=> Law!Under(ipGranted[i][ip], IpLimit)
  BY <1>1, AdmitsByLaw
<1>3. Admits(appWindow[i], AppLimit, app) <=> Law!Under(appGranted[i][app], AppLimit)
  BY <1>1, AdmitsByLaw
<1>4. \A g : Count(g) = Law!Count(g)
  BY DEF Count, Law!Count
<1> QED
  BY <1>2, <1>3, <1>4 DEF Request, Law!Request

LEMMA StepByLaw ==
  ASSUME IInv, [Next]_vars
  PROVE  [Law!Next]_(Law!lvars)
<1>1. ASSUME NEW i \in Instances, NEW ip \in Ips, NEW app \in AppIds, Request(i, ip, app)
      PROVE  Law!Next
  BY <1>1, RequestByLaw DEF Law!Next
<1>2. ASSUME NEW i \in Instances, Restart(i)
      PROVE  Law!Next
  BY <1>2 DEF Restart, NoneGranted, Windows, Law!Windows, Law!Restart, Law!Next
<1>3. ASSUME Tick
      PROVE  Law!Next
  <2>1. Clock
    BY AllRecorded
  <2>2. PICK v \in win..LastWindow, y \in 0..(Width - 1) :
          /\ v > win \/ y > into
          /\ win' = v /\ into' = y
    BY <1>3 DEF Tick
  <2>3. v \in Law!Windows /\ (v > win \/ (v = win /\ y > into))
    BY <2>1, <2>2, LimitsAssumption DEF Clock, Windows, Law!Windows
  <2> QED
    BY <1>3, <2>2, <2>3 DEF Tick, Law!Tick, Law!Next
<1>4. CASE UNCHANGED vars
  BY <1>4 DEF vars, Law!lvars
<1> QED
  BY <1>1, <1>2, <1>3, <1>4 DEF Next

(* The lazily rolled, swept buckets decide every request as if every       *)
(* admission were remembered.                                              *)
THEOREM LawHolds == Spec => LawKept
<1>1. Init => Law!Init
  BY DEF Init, NoneGranted, Windows, Law!Windows, Law!Init
<1> QED
  BY <1>1, StepByLaw, Inductive, PTL DEF Spec, LawKept, Law!Spec

-----------------------------------------------------------------------------
(* No window of a key holds more than its limit.                           *)

Bounded(g, keys, limit) == \A k \in keys, w \in Windows : g[k][w] <= limit

BoundedInv ==
  \A i \in Instances : Bounded(ipGranted[i], Ips, IpLimit) /\ Bounded(appGranted[i], AppIds, AppLimit)

LEMMA UnderMeansRoom ==
  ASSUME Clock, NEW g \in [Windows -> Nat], NEW limit \in Nat, Law!Under(g, limit)
  PROVE  g[win] < limit
<1> USE LimitsAssumption
<1> DEFINE p == Law!Before(g)
           c == g[win]
<1>1. p \in Nat /\ c \in Nat /\ Width - into \in Nat
  BY DEF Clock, Windows, Law!Before
<1>2. p * (Width - into) + c * Width < limit * Width
  BY DEF Law!Under, Law!Weight
<1> HIDE DEF p, c
<1>3. p * (Width - into) \in Nat /\ c * Width \in Nat /\ limit * Width \in Nat
  BY <1>1, TimesNat
<1>4. ~(limit <= c)
  <2>1. SUFFICES ASSUME limit <= c PROVE FALSE
    OBVIOUS
  <2>2. Width * limit <= Width * c
    BY <1>1, <2>1, TimesMonotone
  <2>3. Width * limit = limit * Width /\ Width * c = c * Width
    BY <1>1
  <2> QED
    BY <1>2, <1>3, <2>2, <2>3
<1>5. c < limit
  BY <1>1, <1>4
<1> QED
  BY <1>5 DEF c

LEMMA AdmitIsBounded ==
  ASSUME Clock, NEW keys, NEW sw, NEW g, Recorded(sw, g, keys), NEW k \in keys,
         NEW limit \in Nat, Bounded(g, keys, limit), Admits(sw, limit, k)
  PROVE  Bounded([g EXCEPT ![k] = Count(@)], keys, limit)
<1>1. g \in [keys -> [Windows -> Nat]] /\ g[k] \in [Windows -> Nat] /\ win \in Windows
  BY DEF Recorded, Clock
<1>2. g[k][win] < limit /\ g[k][win] \in Nat
  BY <1>1, AdmitsByLaw, UnderMeansRoom
<1>3. g[k][win] + 1 <= limit
  BY <1>2
<1> QED
  BY <1>1, <1>3 DEF Bounded, Count

LEMMA BoundedStep ==
  ASSUME IInv, BoundedInv, [Next]_vars
  PROVE  BoundedInv'
<1> USE LimitsAssumption
<1>1. /\ Clock
      /\ \A j \in Instances : /\ Recorded(ipWindow[j], ipGranted[j], Ips)
                             /\ Recorded(appWindow[j], appGranted[j], AppIds)
      /\ IpLimit \in Nat /\ AppLimit \in Nat
  BY AllRecorded
<1>2. /\ DOMAIN ipGranted = Instances /\ DOMAIN appGranted = Instances
  BY DEF IInv, TypeOK
<1>3. CASE UNCHANGED <<ipGranted, appGranted>>
  BY <1>3 DEF BoundedInv, Bounded
<1>4. ASSUME NEW i \in Instances, Restart(i)
      PROVE  BoundedInv'
  <2>1. /\ Bounded(NoneGranted(Ips), Ips, IpLimit)
        /\ Bounded(NoneGranted(AppIds), AppIds, AppLimit)
    BY DEF Bounded, NoneGranted
  <2>2. \A j \in Instances :
          /\ Bounded(ipGranted'[j], Ips, IpLimit)
          /\ Bounded(appGranted'[j], AppIds, AppLimit)
    BY <1>2, <1>4, <2>1 DEF Restart, BoundedInv
  <2> QED
    BY <2>2 DEF BoundedInv, Bounded
<1>5. ASSUME NEW i \in Instances, NEW ip \in Ips, NEW app \in AppIds, Request(i, ip, app)
      PROVE  BoundedInv'
  <2>1. Admits(ipWindow[i], IpLimit, ip)
          => Bounded([ipGranted[i] EXCEPT ![ip] = Count(@)], Ips, IpLimit)
    BY <1>1, AdmitIsBounded DEF BoundedInv
  <2>2. Admits(appWindow[i], AppLimit, app)
          => Bounded([appGranted[i] EXCEPT ![app] = Count(@)], AppIds, AppLimit)
    BY <1>1, AdmitIsBounded DEF BoundedInv
  <2>3. \/ ipGranted' = ipGranted
        \/ /\ Admits(ipWindow[i], IpLimit, ip)
           /\ ipGranted' = [ipGranted EXCEPT ![i] = [ipGranted[i] EXCEPT ![ip] = Count(@)]]
    BY <1>2, <1>5 DEF Request
  <2>4. \/ appGranted' = appGranted
        \/ /\ Admits(appWindow[i], AppLimit, app)
           /\ appGranted' = [appGranted EXCEPT ![i] = [appGranted[i] EXCEPT ![app] = Count(@)]]
    BY <1>2, <1>5 DEF Request
  <2>5. \A j \in Instances : Bounded(ipGranted'[j], Ips, IpLimit)
    BY <1>2, <2>1, <2>3 DEF BoundedInv
  <2>6. \A j \in Instances : Bounded(appGranted'[j], AppIds, AppLimit)
    BY <1>2, <2>2, <2>4 DEF BoundedInv
  <2> QED
    BY <2>5, <2>6 DEF BoundedInv, Bounded
<1> QED
  BY <1>3, <1>4, <1>5 DEF Next, Tick, vars

LEMMA QuietIsUnder ==
  ASSUME Clock, into > 0, NEW keys, NEW sw, NEW g, Recorded(sw, g, keys), NEW k \in keys,
         NEW limit \in Nat, limit > 0, Bounded(g, keys, limit), g[k][win] = 0
  PROVE  Admits(sw, limit, k)
<1> USE LimitsAssumption
<1> DEFINE p == Law!Before(g[k])
           left == Width - into
<1>1. g[k] \in [Windows -> Nat] /\ \A w \in Windows : g[k][w] <= limit
  BY DEF Recorded, Bounded
<1>2. p \in Nat /\ p <= limit
  BY <1>1 DEF Clock, Windows, Law!Before
<1>3. left \in Nat /\ left + 1 <= Width
  BY DEF Clock
<1>4. Law!Weight(g[k]) = p * left + 0 * Width
  BY DEF Law!Weight
<1> HIDE DEF p, left
<1>5. left * p <= left * limit
  BY <1>2, <1>3, TimesMonotone
<1>6. limit * (left + 1) <= limit * Width
  BY <1>3, TimesMonotone
<1>7. /\ left * p = p * left /\ (left + 1) * limit = left * limit + limit
      /\ limit * (left + 1) = (left + 1) * limit /\ 0 * Width = 0
  BY <1>2, <1>3, OneMore
<1>8. p * left \in Nat /\ left * limit \in Nat /\ limit * Width \in Nat
  BY <1>2, <1>3, TimesNat
<1>9. Law!Weight(g[k]) < limit * Width
  BY <1>4, <1>5, <1>6, <1>7, <1>8
<1> QED
  BY <1>9, AdmitsByLaw DEF Law!Under

(* A client that keeps to retry-after is heard: once a window in which its *)
(* key got nothing is under way, admit returns true for the key.           *)
THEOREM QuietKeysAreHeard == Spec => []QuietKeyIsHeard
<1>1. Init => BoundedInv
  <2>1. /\ Bounded(NoneGranted(Ips), Ips, IpLimit)
        /\ Bounded(NoneGranted(AppIds), AppIds, AppLimit)
    BY LimitsAssumption DEF Bounded, NoneGranted
  <2> QED
    BY <2>1 DEF Init, BoundedInv
<1>2. IInv /\ BoundedInv => QuietKeyIsHeard
  <2> SUFFICES ASSUME IInv, BoundedInv, into > 0, NEW i \in Instances
               PROVE  /\ \A k \in Ips : ipGranted[i][k][win] = 0
                                     => Admits(ipWindow[i], IpLimit, k)
                      /\ \A k \in AppIds : appGranted[i][k][win] = 0
                                     => Admits(appWindow[i], AppLimit, k)
    BY DEF QuietKeyIsHeard
  <2>1. /\ Clock /\ Recorded(ipWindow[i], ipGranted[i], Ips)
        /\ Recorded(appWindow[i], appGranted[i], AppIds)
        /\ IpLimit \in Nat /\ AppLimit \in Nat /\ IpLimit > 0 /\ AppLimit > 0
        /\ Bounded(ipGranted[i], Ips, IpLimit) /\ Bounded(appGranted[i], AppIds, AppLimit)
    BY AllRecorded, LimitsAssumption DEF BoundedInv
  <2> QED
    BY <2>1, QuietIsUnder
<1> QED
  BY <1>1, <1>2, BoundedStep, Inductive, PTL DEF Spec

=============================================================================
