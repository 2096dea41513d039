------------------------------ MODULE Throttle ------------------------------
(***************************************************************************)
(* The rate limit of one client address in the gateway                     *)
(* (ip-throttle.middleware.ts, redis.service.ts).  Every request adds one  *)
(* to a counter in Redis for each window, and the request that makes a     *)
(* counter sets its time to live in a second command.  The two counters    *)
(* are counted side by side; Redis and the gateway may fail in between.    *)
(***************************************************************************)
EXTENDS Integers, FiniteSets

CONSTANTS Visits,   \* requests of the address, each used once
          Windows,  \* of the two tiers
          Length,   \* window -> its ticks
          Limit,    \* window -> the requests it lets pass
          AtOnce,   \* bound: requests served side by side
          LastTick  \* bound: ticks of the clock

ASSUME ThrottleAssumption ==
  /\ IsFiniteSet(Visits) /\ LastTick \in Nat \ {0}
  /\ Length \in [Windows -> Nat \ {0}] /\ Limit \in [Windows -> Nat]

VARIABLES clock,
          counter,  \* window -> the key in Redis: its count (0: no key), and when it
                    \* expires (0: never)
          visit,    \* request -> window -> its command, the count it got and when
          verdict,  \* request -> how it ended
          lapsed    \* windows whose counter was older than a tick and had no time to
                    \* live yet (not in the code)

throttleVars == <<clock, counter, visit, verdict, lapsed>>

NoCounter == [count |-> 0, ends |-> 0]
NoCommand == [step |-> "idle", seen |-> 0, tick |-> 0]

ThrottleTypeOK ==
  /\ clock \in 1..LastTick
  /\ counter \in [Windows -> [count : Nat, ends : Nat]]
  /\ visit \in [Visits -> [Windows -> [step : {"idle", "incr", "expire", "counted", "failed"},
                                      seen : Nat, tick : 0..LastTick]]]
  /\ verdict \in [Visits -> {"none", "admitted", "refused", "failed open"}]
  /\ lapsed \subseteq Windows

ThrottleInit ==
  /\ clock = 1
  /\ counter = [w \in Windows |-> NoCounter]
  /\ visit = [v \in Visits |-> [w \in Windows |-> NoCommand]]
  /\ verdict = [v \in Visits |-> "none"]
  /\ lapsed = {}

\* Redis drops a key when its time is over.
Tick ==
  /\ clock < LastTick
  /\ clock' = clock + 1
  /\ counter' = [w \in Windows |-> IF counter[w].ends = clock' THEN NoCounter ELSE counter[w]]
  /\ lapsed' = lapsed \cup {w \in Windows : counter[w].count > 0 /\ counter[w].ends = 0}
  /\ UNCHANGED <<visit, verdict>>

------------------------------------------------------------------------------

Started == {v \in Visits : visit[v] # [w \in Windows |-> NoCommand]}
Served == {v \in Started : verdict[v] = "none"}

Use(v) ==
  /\ v \notin Started /\ Cardinality(Served) < AtOnce
  /\ visit' = [visit EXCEPT ![v] = [w \in Windows |-> [NoCommand EXCEPT !.step = "incr"]]]
  /\ UNCHANGED <<clock, counter, verdict, lapsed>>

Increment(w) == counter' = [counter EXCEPT ![w].count = @ + 1]
SetLife(w) == counter' = [counter EXCEPT ![w].ends = clock + Length[w]]

Incr(v, w) ==
  /\ visit[v][w].step = "incr"
  /\ Increment(w)
  /\ visit' = [visit EXCEPT ![v][w] = [step |-> IF counter'[w].count = 1 THEN "expire" ELSE "counted",
                                       seen |-> counter'[w].count, tick |-> clock]]
  /\ UNCHANGED <<clock, verdict, lapsed>>

Expire(v, w) ==
  /\ visit[v][w].step = "expire"
  /\ SetLife(w)
  /\ visit' = [visit EXCEPT ![v][w].step = "counted"]
  /\ UNCHANGED <<clock, verdict, lapsed>>

\* The connection is lost, or the gateway dies, before Redis has done the command, or after.
CommandFails(v, w) ==
  /\ \/ /\ visit[v][w].step \in {"incr", "expire"}
        /\ visit' = [visit EXCEPT ![v][w].step = "failed"] /\ UNCHANGED counter
     \/ /\ visit[v][w].step = "incr"
        /\ visit' = [visit EXCEPT ![v][w] = [step |-> "failed", seen |-> 0, tick |-> clock]]
        /\ Increment(w)
     \/ /\ visit[v][w].step = "expire"
        /\ visit' = [visit EXCEPT ![v][w].step = "failed"] /\ SetLife(w)
  /\ UNCHANGED <<clock, verdict, lapsed>>

\* Mutant: the request that reaches the limit is refused already.
BelowTheLimit(v) == \A w \in Windows : visit[v][w].seen < Limit[w]

Within(v) == \A w \in Windows : visit[v][w].seen <= Limit[w]

Decide(v) ==
  /\ verdict[v] = "none" /\ \A w \in Windows : visit[v][w].step = "counted"
  /\ verdict' = [verdict EXCEPT ![v] = IF Within(v) THEN "admitted" ELSE "refused"]
  /\ UNCHANGED <<clock, counter, visit, lapsed>>

\* The request passes, unless the gateway died; the other counter is counted all the same.
FailOpen(v) ==
  /\ verdict[v] = "none" /\ \E w \in Windows : visit[v][w].step = "failed"
  /\ verdict' = [verdict EXCEPT ![v] = "failed open"]
  /\ UNCHANGED <<clock, counter, visit, lapsed>>

ThrottleNext ==
  \/ Tick
  \/ \E v \in Visits : \/ Use(v) \/ Decide(v) \/ FailOpen(v)
                       \/ \E w \in Windows : Incr(v, w) \/ Expire(v, w) \/ CommandFails(v, w)

ThrottleSpec == ThrottleInit /\ [][ThrottleNext]_throttleVars

------------------------------------------------------------------------------
(* Properties.                                                             *)

\* Requests that the counter of w counted in the window that begins, or ends, at a tick.
CountedFrom(w, first) == {v \in Visits : visit[v][w].tick \in first..(first + Length[w] - 1)}
CountedUpTo(w, last) == CountedFrom(w, last - Length[w] + 1) \ {v \in Visits : visit[v][w].tick = 0}

TwiceTheLimit ==
  \A w \in Windows, t \in 1..LastTick :
    Cardinality({v \in CountedFrom(w, t) : verdict[v] = "admitted"}) <= 2 * Limit[w]

RefusedWhenBusy ==
  \A v \in Visits : verdict[v] = "refused" =>
    \E w \in Windows : w \in lapsed \/ Cardinality(CountedUpTo(w, visit[v][w].tick)) > Limit[w]

\* The windows do not slide, but they bound what passes: no stretch of time as long as a window
\* sees more than twice its limit admitted, wherever keys expire and processes die (requests
\* that fail open apart).  And a client is refused only after more requests than the limit in
\* the window before, unless a counter was left without its time to live: setting it is a
\* second command, and a counter that missed it never ends.
ThrottleKept == TwiceTheLimit /\ RefusedWhenBusy
=============================================================================
