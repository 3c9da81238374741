----------------------------- MODULE RateLimiter -----------------------------
(***************************************************************************)
(* security.py: the sliding-window limiter of a worker and the middleware  *)
(* that consults it before a request reaches its route.                    *)
(*                                                                         *)
(* check() reads the clock, takes a lock and does the rest under it.  The  *)
(* worker calls it on its event loop, one call at a time: Threads has one  *)
(* element there.  A login request is counted twice, in a bucket of its    *)
(* client and in one of the client's logins, with limits of their own.     *)
(***************************************************************************)
EXTENDS Integers, Sequences

CONSTANTS
    Threads,    \* what can be inside the middleware together
    Clients,    \* client addresses
    NoClient,   \* no address
    Max,        \* scope -> the requests allowed in a window
    Seconds,    \* scope -> the length of the window, in seconds
    Second,     \* clock ticks in a second
    Interval,   \* ticks between two sweeps, _CLEANUP_INTERVAL_S
    MaxTime     \* bound on the clock

Scopes == {"ip", "login"}
Keys == Scopes \X Clients

ASSUME ConstantsOK ==
    /\ Max \in [Scopes -> Nat \ {0}]
    /\ Seconds \in [Scopes -> Nat \ {0}]
    /\ Second \in Nat \ {0}
    /\ Interval \in Nat
    /\ MaxTime \in Nat
    /\ NoClient \notin Clients

Limit(k) == Max[k[1]]
Window(k) == Seconds[k[1]] * Second

VARIABLES
    clock,        \* time.monotonic()
    hits,         \* key -> times of its hits, <<>> for no bucket
    lastCleanup,  \* time of the last sweep
    maxWindow,    \* the longest window seen so far
    call,         \* what each thread does
    log,          \* history: key -> the times of the last hits allowed, one
                  \* more than the limit
    promise       \* history: key -> when a refused client was told to come back

vars == <<clock, hits, lastCleanup, maxWindow, call, log, promise>>

Never == -1   \* no refusal since the last hit that was allowed

Call == [at : {"idle", "clock", "lock"}, scope : Scopes,
         client : Clients \cup {NoClient}, login : BOOLEAN, now : Nat]

Idle == [at |-> "idle", scope |-> "ip", client |-> NoClient, login |-> FALSE,
         now |-> 0]

TypeOK ==
    /\ clock \in Nat
    /\ hits \in [Keys -> Seq(Nat)]
    /\ lastCleanup \in Nat
    /\ maxWindow \in Nat
    /\ call \in [Threads -> Call]
    /\ log \in [Keys -> Seq(Nat)]
    /\ promise \in [Keys -> Nat \cup {Never}]

-----------------------------------------------------------------------------

\* How many hits at the front of the deque have left the window.
Leaving(h, n, cutoff) ==
    /\ n \in 0 .. Len(h)
    /\ \A i \in 1 .. n : h[i] <= cutoff
    /\ n < Len(h) => h[n + 1] > cutoff

\* What stays of a deque when n hits have left it.
Drop(h, n) == SubSeq(h, n + 1, Len(h))

Larger(a, b) == IF a >= b THEN a ELSE b

Continue(t, c) == call' = [call EXCEPT ![t] = c]
Answer(t) == Continue(t, Idle)

-----------------------------------------------------------------------------

Tick ==
    /\ clock < MaxTime
    /\ clock' = clock + 1
    /\ UNCHANGED <<hits, lastCleanup, maxWindow, call, log, promise>>

\* A request to /api/ arrives; the health probe and static files are exempt.
Arrive(t) ==
    /\ call[t].at = "idle"
    /\ \E c \in Clients, l \in BOOLEAN :
         Continue(t, [Idle EXCEPT !.at = "clock", !.client = c, !.login = l])
    /\ UNCHANGED <<clock, hits, lastCleanup, maxWindow, log, promise>>

\* Mutant: the time kept is the start of the window.
ReadCutoff(t) ==
    /\ call[t].at = "clock"
    /\ Continue(t, [call[t] EXCEPT !.at = "lock",
                      !.now = clock - Window(<<call[t].scope, call[t].client>>)])
    /\ UNCHANGED <<clock, hits, lastCleanup, maxWindow, log, promise>>

ReadClock(t) ==
    /\ call[t].at = "clock"
    /\ Continue(t, [call[t] EXCEPT !.at = "lock", !.now = clock])
    /\ UNCHANGED <<clock, hits, lastCleanup, maxWindow, log, promise>>

\* Mutant: the second that int() cuts off is not added back.
RefuseShort(t, k, live, now) ==
    LET retry == ((live[1] + Window(k)) - now) \div Second
    IN  /\ hits' = [hits EXCEPT ![k] = live]
        /\ promise' = [promise EXCEPT ![k] = now + Larger(retry, 1) * Second]
        /\ Answer(t)
        /\ UNCHANGED <<lastCleanup, log>>

\* A hit that is not allowed.  int() rounds down to whole seconds.
Refuse(t, k, live, now) ==
    LET retry == ((live[1] + Window(k)) - now) \div Second + 1
    IN  /\ hits' = [hits EXCEPT ![k] = live]
        /\ promise' = [promise EXCEPT ![k] = now + Larger(retry, 1) * Second]
        /\ Answer(t)
        /\ UNCHANGED <<lastCleanup, log>>

\* Mutant: a sweep drops the buckets whose last hit is older than the window of
\* the key being checked.
SweptShort(h, k, now, longest) ==
    IF now - lastCleanup < Interval THEN h
    ELSE [j \in Keys |->
            IF h[j] # <<>> /\ h[j][Len(h[j])] <= now - Window(k)
            THEN <<>> ELSE h[j]]

\* Mutant: only empty buckets are dropped.
SweptEmpty(h, k, now, longest) == h

\* The buckets after the sweep that follows an allowed hit.
Swept(h, k, now, longest) ==
    IF now - lastCleanup < Interval THEN h
    ELSE [j \in Keys |->
            IF h[j] # <<>> /\ h[j][Len(h[j])] <= now - longest
            THEN <<>> ELSE h[j]]

\* An allowed hit is recorded; a login is then checked in its own bucket.
Allow(t, k, live, now) ==
    LET c == call[t]
    IN  /\ hits' = Swept([hits EXCEPT ![k] = Append(live, now)], k, now,
                         Larger(maxWindow, Window(k)))
        /\ lastCleanup' = IF now - lastCleanup < Interval
                          THEN lastCleanup ELSE now
        /\ log' = [log EXCEPT ![k] = Drop(Append(@, now),
                                          IF Len(@) > Limit(k) THEN 1 ELSE 0)]
        /\ promise' = [promise EXCEPT ![k] = Never]
        /\ IF c.scope = "ip" /\ c.login
           THEN Continue(t, [c EXCEPT !.at = "clock", !.scope = "login"])
           ELSE Answer(t)

\* check(), from the moment it holds the lock.
Check(t) ==
    LET c == call[t]
        k == <<c.scope, c.client>>
    IN  /\ c.at = "lock"
        /\ maxWindow' = Larger(maxWindow, Window(k))
        /\ \E n \in 0 .. Len(hits[k]) :
             LET live == Drop(hits[k], n)
             IN  /\ Leaving(hits[k], n, c.now - Window(k))
                 /\ IF Len(live) >= Limit(k)
                    THEN Refuse(t, k, live, c.now)
                    ELSE Allow(t, k, live, c.now)
        /\ UNCHANGED clock

Init ==
    /\ clock \in 0 .. MaxTime
    /\ hits = [k \in Keys |-> <<>>]
    /\ lastCleanup = 0
    /\ maxWindow = 0
    /\ call = [t \in Threads |-> Idle]
    /\ log = [k \in Keys |-> <<>>]
    /\ promise = [k \in Keys |-> Never]

Next == Tick \/ \E t \in Threads : Arrive(t) \/ ReadClock(t) \/ Check(t)

Spec == Init /\ [][Next]_vars

-----------------------------------------------------------------------------
(* With one thread *)

\* "allowed only while the remaining count is below the limit" of a sliding
\* window (_SlidingWindowLimiter): however evictions and sweeps of this and the
\* other buckets fall, Limit(k) + 1 allowed hits of one key take at least the
\* length of its window.
WindowLimit ==
    \A k \in Keys :
        Len(log[k]) > Limit(k)
            => log[k][Limit(k) + 1] - log[k][1] >= Window(k)

\* Retry-After, "whole number of seconds until the oldest recorded hit leaves
\* the window" (check): a client that comes back after that time is not refused
\* again, unless a hit of the same key was allowed meanwhile.
RetryAfterSuffices ==
    [][\A t \in Threads, k \in Keys :
         /\ call[t].at = "lock" /\ k = <<call[t].scope, call[t].client>>
         /\ promise[k] # Never /\ call[t].now >= promise[k]
         /\ call'[t] # call[t]
         => log'[k] # log[k]]_vars

\* "memory stays bounded as distinct client IPs churn": every bucket holds a hit
\* that had not left the longest window at the time of the last sweep.
IdleSwept ==
    \A k \in Keys : hits[k] # <<>> =>
        hits[k][Len(hits[k])] > lastCleanup - maxWindow
=============================================================================
