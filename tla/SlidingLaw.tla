----------------------------- MODULE SlidingLaw -----------------------------
(***************************************************************************)
(* What the rate limiter promises, without buckets: each process remembers *)
(* how many requests it admitted in every window of every key, and admits  *)
(* another one while the count of this window, plus that of the window     *)
(* before it weighted by how much of it the sliding window still covers,   *)
(* is below the limit.                                                     *)
(***************************************************************************)
EXTENDS Integers

CONSTANTS Ips, AppIds, Instances, IpLimit, AppLimit, Width, LastWindow

VARIABLES
  win,         \* number of the current window
  into,        \* how far into it, in 0..Width-1
  ipGranted,   \* per process, address and window: requests admitted
  appGranted   \* per process, app and window

lvars == <<win, into, ipGranted, appGranted>>

Windows == 0..LastWindow

Init ==
  /\ win = 0 /\ into = 0
  /\ ipGranted = [i \in Instances |-> [k \in Ips |-> [w \in Windows |-> 0]]]
  /\ appGranted = [i \in Instances |-> [k \in AppIds |-> [w \in Windows |-> 0]]]

(* The rule.                                                               *)
Before(g) == IF win = 0 THEN 0 ELSE g[win - 1]
Weight(g) == Before(g) * (Width - into) + g[win] * Width
Under(g, limit) == Weight(g) < limit * Width

Count(g) == [g EXCEPT ![win] = @ + 1]

(* A request takes a place of its address and then one of its app; the     *)
(* first is spent even if the second is refused.                           *)
Request(i, ip, app) ==
  LET ipOk == Under(ipGranted[i][ip], IpLimit)
      appOk == Under(appGranted[i][app], AppLimit)
  IN
  /\ ipGranted' = IF ipOk THEN [ipGranted EXCEPT ![i][ip] = Count(@)] ELSE ipGranted
  /\ appGranted' = IF ipOk /\ appOk THEN [appGranted EXCEPT ![i][app] = Count(@)]
                                    ELSE appGranted
  /\ UNCHANGED <<win, into>>

Tick ==
  /\ win' \in Windows /\ into' \in 0..(Width - 1)
  /\ win' > win \/ (win' = win /\ into' > into)
  /\ UNCHANGED <<ipGranted, appGranted>>

Restart(i) ==
  /\ ipGranted' = [ipGranted EXCEPT ![i] = [k \in Ips |-> [w \in Windows |-> 0]]]
  /\ appGranted' = [appGranted EXCEPT ![i] = [k \in AppIds |-> [w \in Windows |-> 0]]]
  /\ UNCHANGED <<win, into>>

Next ==
  \/ Tick
  \/ \E i \in Instances :
       \/ Restart(i)
       \/ \E ip \in Ips, app \in AppIds : Request(i, ip, app)

Spec == Init /\ [][Next]_lvars

=============================================================================
