---------------------------- MODULE RateLimiter ----------------------------
(***************************************************************************)
(* RateLimiter (server/security.py): at most Limit events of an address    *)
(* in a rolling window, from a table of recent times that forgets the      *)
(* addresses that went quiet.  The connection and the event budgets of     *)
(* server/app.py are each one of these.                                    *)
(***************************************************************************)
EXTENDS Integers, Sequences, FiniteSets

CONSTANTS
    Addresses,
    Limit,       \* events allowed in a window
    Window,      \* its length
    SweepEvery,  \* calls between sweeps
    MaxTime,     \* bound: the clock
    MaxCalls     \* bound: calls

ASSUME LimiterAssumption ==
    /\ Limit \in Nat /\ Window \in Nat /\ SweepEvery \in Nat \ {0}
    /\ MaxTime \in Nat /\ MaxCalls \in Nat

VARIABLES
    now,      \* time.monotonic()
    calls,    \* RateLimiter._calls
    hits,     \* RateLimiter._hits: tracked addresses, each with its times
    events,   \* every event so far: whose, when, whether it was allowed
    swept     \* when the last sweep was, and of which call

limiterVars == <<now, calls, hits, events, swept>>

LimiterInit ==
    /\ now = 0 /\ calls = 0 /\ hits = <<>> /\ events = <<>>
    /\ swept = [at |-> 0 - Window, call |-> 0]

Wait ==
    /\ now < MaxTime
    /\ now' = now + 1
    /\ UNCHANGED <<calls, hits, events, swept>>

-----------------------------------------------------------------------------
Last(s) == s[Len(s)]

Quiet(times, t) == times = <<>> \/ Last(times) <= t - Window

\* _sweep: drop every address whose most recent event left the window.
Sweep(table, t) ==
    [a \in {b \in DOMAIN table : ~Quiet(table[b], t)} |-> table[a]]

\* Mutant of Expired: a window closed at its start.
ExpiredLate(times, t) == CHOOSE k \in 0..Len(times) :
    /\ \A i \in 1..k : times[i] < t - Window
    /\ k < Len(times) => times[k + 1] >= t - Window
\* How many of the oldest times have left the window, which is open at its start.
Expired(times, t) == CHOOSE k \in 0..Len(times) :
    /\ \A i \in 1..k : times[i] <= t - Window
    /\ k < Len(times) => times[k + 1] > t - Window

\* The times left when those are popped.
Recent(times, t) == SubSeq(times, Expired(times, t) + 1, Len(times))

TimesOf(table, a) == IF a \in DOMAIN table THEN table[a] ELSE <<>>
SweepsNow == (calls + 1) % SweepEvery = 0

Allow(a) ==
    /\ calls < MaxCalls
    /\ calls' = calls + 1
    /\ LET table == IF SweepsNow THEN Sweep(hits, now) ELSE hits
           bucket == Recent(TimesOf(table, a), now)
           ok == Len(bucket) < Limit IN
         /\ hits' = [b \in DOMAIN table \cup {a} |->
                       IF b /= a THEN table[b] ELSE IF ok THEN Append(bucket, now) ELSE bucket]
         /\ events' = Append(events, [of |-> a, at |-> now, ok |-> ok])
    /\ swept' = IF SweepsNow THEN [at |-> now, call |-> calls'] ELSE swept
    /\ UNCHANGED now

LimiterNext == Wait \/ \E a \in Addresses : Allow(a)

LimiterSpec == LimiterInit /\ [][LimiterNext]_limiterVars

-----------------------------------------------------------------------------
(* Properties.                                                             *)

\* The events allowed to the address of event n in the window that ends with it.
AllowedBefore(n) == {m \in 1..(n - 1) :
    events[m].of = events[n].of /\ events[m].ok /\ events[m].at > events[n].at - Window}

\* RateLimiter.allow decides as a count of the whole history would, for every
\* address, though it keeps recent times only and sweeps the table between.
DecidesByTheWindow == \A n \in 1..Len(events) :
    events[n].ok <=> Cardinality(AllowedBefore(n)) < Limit

\* _sweep: an address is tracked only if it was active in the window before the
\* last sweep, or called since.
TracksTheActive == \A a \in DOMAIN hits :
    \E n \in 1..Len(events) : events[n].of = a /\ (events[n].at > swept.at - Window \/ n >= swept.call)

\* RateLimiter: both, from a table that forgets.
LimiterIsExact == DecidesByTheWindow /\ TracksTheActive
=============================================================================
