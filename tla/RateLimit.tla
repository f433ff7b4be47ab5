----------------------------- MODULE RateLimit ------------------------------
(***************************************************************************)
(* The rate limiter (src/middleware/rate-limit.ts, rate-limit-route.ts):   *)
(* per process, two maps of buckets that are rolled over lazily, when      *)
(* their key is next used, and swept every so many calls.                  *)
(*                                                                         *)
(* The clock is (win, into): t = win * Width + into, with windowMs = Width *)
(* ticks, so win is the floor of t / windowMs.  It does not run backwards. *)
(* Weights are exact where the code has doubles.  The middleware does not  *)
(* await between its two admissions, so a request is one step, at one      *)
(* reading of the clock (the code reads it up to four times in a row).     *)
(***************************************************************************)
EXTENDS Integers

CONSTANTS
  Ips,         \* addresses, "unknown" among them
  AppIds,      \* client ids, "unknown" among them
  Instances,   \* server processes
  IpLimit,     \* RATE_LIMIT_IP_PER_MIN
  AppLimit,    \* RATE_LIMIT_APP_PER_MIN
  Width,       \* windowMs
  SweepEvery,  \* calls of admit between two sweeps
  LastWindow,  \* bound: the clock stops after this window
  None         \* no bucket

ASSUME LimitsAssumption ==
  /\ IpLimit \in Nat \ {0} /\ AppLimit \in Nat \ {0}
  /\ Width \in Nat \ {0} /\ SweepEvery \in Nat \ {0} /\ LastWindow \in Nat

VARIABLES
  win, into,    \* the clock
  ipWindow,     \* per process: the limiter keyed by address
  appWindow,    \* per process: the limiter keyed by app
  ipGranted,    \* history: requests admitted by address and window,
  appGranted    \* and by app and window, since the process started

vars == <<win, into, ipWindow, appWindow, ipGranted, appGranted>>

Windows == 0..LastWindow
Bucket == [current : Nat, previous : Nat, windowStart : Windows]
ASSUME NoneAssumption == None \notin Bucket

SlidingWindow(keys) == [buckets : [keys -> Bucket \cup {None}], opCount : 0..(SweepEvery - 1)]
Empty(keys) == [buckets |-> [k \in keys |-> None], opCount |-> 0]
NoneGranted(keys) == [k \in keys |-> [w \in Windows |-> 0]]

Init ==
  /\ win = 0 /\ into = 0
  /\ ipWindow = [i \in Instances |-> Empty(Ips)]
  /\ appWindow = [i \in Instances |-> Empty(AppIds)]
  /\ ipGranted = [i \in Instances |-> NoneGranted(Ips)]
  /\ appGranted = [i \in Instances |-> NoneGranted(AppIds)]

-----------------------------------------------------------------------------
(* SlidingWindow.admit                                                     *)

StaleTooSoon(b) ==                  \* mutant: the cutoff is one window, not two
  b.windowStart < win - 1 \/ (b.windowStart = win - 1 /\ into > 0)

(* windowStart < t - 2 * windowMs                                          *)
Stale(b) == b.windowStart < win - 2 \/ (b.windowStart = win - 2 /\ into > 0)

(* maybeSweep, as the sw.opCount + 1 st call.                              *)
Kept(sw) ==
  IF sw.opCount + 1 = SweepEvery
  THEN [k \in DOMAIN sw.buckets |->
          IF sw.buckets[k] # None /\ Stale(sw.buckets[k]) THEN None ELSE sw.buckets[k]]
  ELSE sw.buckets

RolledKeepsPrevious(b) ==           \* mutant: a gap of several windows is treated as one
  CASE b = None -> [current |-> 0, previous |-> 0, windowStart |-> win]
    [] b # None /\ b.windowStart = win -> b
    [] OTHER -> [current |-> 0, previous |-> b.current, windowStart |-> win]

RolledKeepsCurrent(b) ==            \* mutant: current is not reset
  CASE b = None -> [current |-> 0, previous |-> 0, windowStart |-> win]
    [] b # None /\ b.windowStart = win -> b
    [] OTHER -> [current |-> b.current, windowStart |-> win,
                 previous |-> IF win - b.windowStart = 1 THEN b.current ELSE 0]

RolledForward(b) ==                 \* mutant: the window start is rounded up
  CASE b = None -> [current |-> 0, previous |-> 0,
                    windowStart |-> IF into = 0 THEN win ELSE win + 1]
    [] b # None /\ b.windowStart >= win -> b
    [] OTHER -> [current |-> 0, windowStart |-> win,
                 previous |-> IF win - b.windowStart = 1 THEN b.current ELSE 0]

(* The bucket of a key, created or brought to the current window.          *)
Rolled(b) ==
  CASE b = None -> [current |-> 0, previous |-> 0, windowStart |-> win]
    [] b # None /\ b.windowStart = win -> b
    [] OTHER -> [current |-> 0, windowStart |-> win,
                 previous |-> IF win - b.windowStart = 1 THEN b.current ELSE 0]

Found(sw, k) == Rolled(Kept(sw)[k])

Effective(b) == b.previous * (Width - into) + b.current * Width   \* times Width

Admits(sw, limit, k) == Effective(Found(sw, k)) < limit * Width

Admit(sw, limit, k) ==
  [opCount |-> IF sw.opCount + 1 = SweepEvery THEN 0 ELSE sw.opCount + 1,
   buckets |-> [Kept(sw) EXCEPT ![k] =
      IF Admits(sw, limit, k) THEN [Found(sw, k) EXCEPT !.current = @ + 1] ELSE Found(sw, k)]]

Count(g) == [g EXCEPT ![win] = @ + 1]

-----------------------------------------------------------------------------
(* The middleware: ipWindow.admit(ip) && appWindow.admit(appId)            *)
Request(i, ip, app) ==
  LET ipOk == Admits(ipWindow[i], IpLimit, ip)
      appOk == Admits(appWindow[i], AppLimit, app)
  IN
  /\ ipWindow' = [ipWindow EXCEPT ![i] = Admit(@, IpLimit, ip)]
  /\ appWindow' = IF ipOk THEN [appWindow EXCEPT ![i] = Admit(@, AppLimit, app)] ELSE appWindow
  /\ ipGranted' = IF ipOk THEN [ipGranted EXCEPT ![i][ip] = Count(@)] ELSE ipGranted
  /\ appGranted' = IF ipOk /\ appOk THEN [appGranted EXCEPT ![i][app] = Count(@)]
                                    ELSE appGranted
  /\ UNCHANGED <<win, into>>

Tick ==
  /\ \E w \in win..LastWindow, x \in 0..(Width - 1) :
       /\ w > win \/ x > into
       /\ win' = w /\ into' = x
  /\ UNCHANGED <<ipWindow, appWindow, ipGranted, appGranted>>

(* The maps live in the process.                                           *)
Restart(i) ==
  /\ ipWindow' = [ipWindow EXCEPT ![i] = Empty(Ips)]
  /\ appWindow' = [appWindow EXCEPT ![i] = Empty(AppIds)]
  /\ ipGranted' = [ipGranted EXCEPT ![i] = NoneGranted(Ips)]
  /\ appGranted' = [appGranted EXCEPT ![i] = NoneGranted(AppIds)]
  /\ UNCHANGED <<win, into>>

Next ==
  \/ Tick
  \/ \E i \in Instances :
       \/ Restart(i)
       \/ \E ip \in Ips, app \in AppIds : Request(i, ip, app)

Spec == Init /\ [][Next]_vars

-----------------------------------------------------------------------------
(* Properties.                                                             *)

TypeOK ==
  /\ win \in Windows /\ into \in 0..(Width - 1)
  /\ ipWindow \in [Instances -> SlidingWindow(Ips)]
  /\ appWindow \in [Instances -> SlidingWindow(AppIds)]
  /\ ipGranted \in [Instances -> [Ips -> [Windows -> Nat]]]
  /\ appGranted \in [Instances -> [AppIds -> [Windows -> Nat]]]

(* Rolling buckets over only when they are used, resetting them after a    *)
(* gap and sweeping them away never changes a verdict: the limiter decides *)
(* as if it remembered every admission.                                    *)
Law == INSTANCE SlidingLaw
LawKept == Law!Spec

(* A key never gets a whole request ahead of its limit, in the sliding     *)
(* window of any instant and not only of those at which it is used.        *)
NeverAhead ==
  \A i \in Instances :
    /\ \A k \in Ips : Law!Weight(ipGranted[i][k]) < (IpLimit + 1) * Width
    /\ \A k \in AppIds : Law!Weight(appGranted[i][k]) < (AppLimit + 1) * Width

(* A client that keeps to retry-after (one window) is heard again: once a  *)
(* window in which its key got nothing is under way, the key is admitted.  *)
QuietKeyIsHeard ==
  into > 0 =>
    \A i \in Instances :
      /\ \A k \in Ips : ipGranted[i][k][win] = 0 => Admits(ipWindow[i], IpLimit, k)
      /\ \A k \in AppIds : appGranted[i][k][win] = 0 => Admits(appWindow[i], AppLimit, k)

(* Why: a bucket holds what was admitted in its window and the one before, *)
(* nothing was admitted since, and a missing bucket means nothing recent.  *)
Faithful(b, g) ==
  /\ b = None => \A w \in Windows : w >= win - 1 => g[w] = 0
  /\ b # None =>
       /\ b.windowStart <= win
       /\ b.current = g[b.windowStart]
       /\ b.previous = IF b.windowStart = 0 THEN 0 ELSE g[b.windowStart - 1]
       /\ \A w \in Windows : w > b.windowStart => g[w] = 0

FaithfulInv ==
  /\ \A i \in Instances :
       /\ \A k \in Ips : Faithful(ipWindow[i].buckets[k], ipGranted[i][k])
       /\ \A k \in AppIds : Faithful(appWindow[i].buckets[k], appGranted[i][k])
  /\ NeverAhead

=============================================================================
