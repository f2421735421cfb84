----------------------------- MODULE RateLimiter -----------------------------
(***************************************************************************)
(* RateLimiter of rate_limit.py: one deque of timestamps per user, a window *)
(* of 60 s, and a sweep of the idle users every _CLEANUP_INTERVAL calls.    *)
(* check() has no await, so a call is one step.                             *)
(*                                                                          *)
(* The clock counts ticks of a fraction of a second, because Retry-After is *)
(* rounded up to whole seconds.                                             *)
(***************************************************************************)
EXTENDS Integers, Sequences

CONSTANTS Users,
          Rpm,              \* the limit of requests per window
          Window,           \* _window_sec, in ticks
          TicksPerSecond,
          CleanupInterval,  \* _CLEANUP_INTERVAL
          MaxTime           \* bound: the last instant of the clock

VARIABLES
  requests,   \* _requests; a user without an entry has an empty deque
  callCount,  \* _call_count
  now,        \* time.monotonic()
  \* history
  accepted,   \* the instants at which each user's requests were let through
  promised    \* when a rejected user was told to come back, or Free

vars == <<requests, callCount, now, accepted, promised>>

Free == -1

TypeOK ==
  /\ requests \in [Users -> Seq(0..MaxTime)]
  /\ callCount \in 0..CleanupInterval
  /\ now \in 0..MaxTime
  /\ accepted \in [Users -> Seq(0..MaxTime)]
  /\ promised \in [Users -> Int]
  /\ callCount < CleanupInterval
  /\ \A u \in Users : Len(requests[u]) <= Rpm

Init ==
  /\ requests = [u \in Users |-> <<>>] /\ callCount = 0 /\ now = 0
  /\ accepted = [u \in Users |-> <<>>] /\ promised = [u \in Users |-> Free]

Cutoff == now - Window

\* The instants the window has passed.
Expired(t) == t <= Cutoff

\* A faulty variant of Stale: judged by the oldest request.
StaleByOldest(ts) == ts = <<>> \/ Expired(ts[1])

\* _cleanup: the deques whose last request has left the window.
Stale(ts) == ts = <<>> \/ Expired(ts[Len(ts)])

Swept(u) == IF Stale(requests[u]) THEN <<>> ELSE requests[u]

\* The calls are counted, and the idle users swept at every interval.
SweepDue == callCount + 1 >= CleanupInterval

\* A deque without its expired head (popleft until the first live one).
Live(ts) ==
  LET dead == {i \in 0..Len(ts) : \A j \in 1..i : Expired(ts[j])}
      k    == CHOOSE i \in dead : \A j \in dead : j <= i
  IN  SubSeq(ts, k + 1, Len(ts))

\* The deque check() works on.
Deque(u) == Live(IF SweepDue THEN Swept(u) ELSE requests[u])

\* math.ceil(oldest - cutoff), in seconds.
RetryAfter(ts) == -((-(ts[1] - Cutoff)) \div TicksPerSecond)

\* check(user_id)
Check(u) ==
  LET ts == Deque(u) IN
  /\ callCount' = IF SweepDue THEN 0 ELSE callCount + 1
  /\ UNCHANGED now
  /\ \/ /\ Len(ts) >= Rpm
        /\ requests' = [v \in Users |-> IF v = u THEN ts
                                        ELSE IF SweepDue THEN Swept(v) ELSE requests[v]]
        /\ promised' = [promised EXCEPT ![u] = now + RetryAfter(ts) * TicksPerSecond]
        /\ UNCHANGED accepted
     \/ /\ Len(ts) < Rpm
        /\ requests' = [v \in Users |-> IF v = u THEN Append(ts, now)
                                        ELSE IF SweepDue THEN Swept(v) ELSE requests[v]]
        /\ accepted' = [accepted EXCEPT ![u] = Append(@, now)]
        /\ promised' = [promised EXCEPT ![u] = Free]

Tick == /\ now < MaxTime /\ now' = now + 1
        /\ UNCHANGED <<requests, callCount, accepted, promised>>

Next == (\E u \in Users : Check(u)) \/ Tick

Spec == Init /\ [][Next]_vars

-----------------------------------------------------------------------------
(***************************************************************************)
(* Properties.                                                             *)
(***************************************************************************)

\* In no window do more than Rpm of a user's requests get through, whatever the
\* other users call and whenever the sweep runs.
WindowHolds ==
  \A u \in Users : \A i \in DOMAIN accepted[u] :
    i > Rpm => accepted[u][i] - accepted[u][i - Rpm] >= Window

\* A user who waits as long as Retry-After says, and sends nothing meanwhile, is
\* let through (the pending promise is dropped when a request of theirs is).
RetryAfterIsEnough ==
  \A u \in Users : promised[u] # Free /\ now >= promised[u] => Len(Deque(u)) < Rpm

\* A user is only turned away while Rpm of their requests are in the window.
RejectionsAreDue ==
  [][\A u \in Users :
       promised'[u] # promised[u] /\ promised'[u] # Free =>
         /\ Len(accepted[u]) >= Rpm
         /\ now - accepted[u][Len(accepted[u]) - Rpm + 1] < Window]_vars

=============================================================================
