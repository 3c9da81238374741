-------------------------- MODULE RateLimiterProofs --------------------------
(***************************************************************************)
(* The limiter of a worker that calls it from one thread keeps its limits, *)
(* its promises and its memory, for all limits, windows and clients.       *)
(*                                                                         *)
(* hits[k] is the end of log[k].  What is missing at the front has left    *)
(* the window of k, by its own eviction or by a sweep, whose horizon is no *)
(* shorter: so an allowed hit is a window away from the one Limit(k) hits  *)
(* before it.  This needs that the time a check uses is not earlier than   *)
(* any used before, which is where one thread comes in.                    *)
(***************************************************************************)
EXTENDS RateLimiter, SequenceTheorems, TLAPS

\* The worker's event loop: the limiter is never called by two threads.
OneThread == \A t, u \in Threads : t = u

\* A bucket h is the end of the history l of its key; the history is in order,
\* and at the given time no hit in it is later, and those that are missing from
\* the bucket have left the window.
Kept(h, l, max, window, time) ==
    /\ h \in Seq(Nat) /\ l \in Seq(Nat)
    /\ Len(h) <= Len(l) /\ Len(h) <= max /\ Len(l) <= max + 1
    /\ \A i \in 1 .. Len(h) : h[i] = l[Len(l) - Len(h) + i]
    /\ \A i, j \in 1 .. Len(l) : i <= j => l[i] <= l[j]
    /\ \A i \in 1 .. Len(l) : l[i] <= time
    /\ \A i \in 1 .. Len(l) - Len(h) : l[i] <= time - window

KeptAt(k, time) == Kept(hits[k], log[k], Limit(k), Window(k), time)

\* The sweep's horizon covers the window of every bucket there is.
Covered(k) == hits[k] # <<>> => Window(k) <= maxWindow

\* A refused client's wait ends no sooner than the oldest hit leaves.
Promised(k) ==
    promise[k] # Never /\ hits[k] # <<>>
        => hits[k][1] + Window(k) <= promise[k]

\* No sweep left the bucket behind.
Fresh(k) == hits[k] # <<>> => hits[k][Len(hits[k])] > lastCleanup - maxWindow

\* Limit(k) + 1 allowed hits take a window.
Spread(l, max, window) == Len(l) > max => l[max + 1] - l[1] >= window

KeyInv(k) ==
    /\ KeptAt(k, clock)
    /\ Covered(k) /\ Promised(k) /\ Fresh(k)
    /\ Spread(log[k], Limit(k), Window(k))

\* A check that has read the clock.
CallInv(t) ==
    /\ call[t].at # "idle" => call[t].client \in Clients
    /\ call[t].at = "lock" =>
        /\ call[t].now <= clock
        /\ lastCleanup <= call[t].now
        /\ \A k \in Keys : KeptAt(k, call[t].now)

Inv ==
    /\ TypeOK
    /\ lastCleanup <= clock
    /\ \A t \in Threads : CallInv(t)
    /\ \A k \in Keys : KeyInv(k)

-----------------------------------------------------------------------------
(* Sequences *)

\* What Drop returns.
LEMMA DropProps ==
    ASSUME NEW h \in Seq(Nat), NEW n \in 0 .. Len(h)
    PROVE  /\ Drop(h, n) \in Seq(Nat)
           /\ Len(Drop(h, n)) = Len(h) - n
           /\ \A i \in 1 .. Len(h) - n : Drop(h, n)[i] = h[n + i]
BY SMT DEF Drop

\* What Append returns, as one fact.
LEMMA AppendProps ==
    ASSUME NEW h \in Seq(Nat), NEW x \in Nat
    PROVE  /\ Append(h, x) \in Seq(Nat)
           /\ Len(Append(h, x)) = Len(h) + 1
           /\ \A i \in 1 .. Len(h) : Append(h, x)[i] = h[i]
           /\ Append(h, x)[Len(h) + 1] = x
BY SMT

\* int(x / S) + 1 seconds are no shorter than x ticks.
LEMMA RoundUp ==
    ASSUME NEW x \in Int, NEW S \in Int, S > 0
    PROVE  /\ x \div S \in Int
           /\ x < (x \div S + 1) * S
<1>1. x \div S \in Int
  BY SMT
<1>2. x < (x \div S + 1) * S
  BY SMT
<1> QED BY <1>1, <1>2

-----------------------------------------------------------------------------
(* The bucket and the history of one key *)

\* Time passes.
LEMMA KeptLater ==
    ASSUME NEW h, NEW l, NEW max \in Nat \ {0}, NEW window \in Nat \ {0},
           NEW time \in Nat, NEW later \in Nat,
           Kept(h, l, max, window, time), time <= later
    PROVE  Kept(h, l, max, window, later)
BY SMTT(60) DEF Kept

\* Hits that have left the window are taken off the bucket.
LEMMA KeptEvict ==
    ASSUME NEW h, NEW l, NEW max \in Nat \ {0}, NEW window \in Nat \ {0},
           NEW now \in Nat, Kept(h, l, max, window, now),
           NEW n \in 0 .. Len(h), Leaving(h, n, now - window)
    PROVE  Kept(Drop(h, n), l, max, window, now)
<1> DEFINE live == Drop(h, n)
<1>1. h \in Seq(Nat) /\ l \in Seq(Nat)
  BY DEF Kept
<1>2. /\ live \in Seq(Nat) /\ Len(live) = Len(h) - n
      /\ \A i \in 1 .. Len(h) - n : live[i] = h[n + i]
  BY <1>1, DropProps
<1> HIDE DEF live
<1>3. ASSUME NEW i \in 1 .. Len(live)
      PROVE  live[i] = l[Len(l) - Len(live) + i]
  <2>1. n + i \in 1 .. Len(h) /\ live[i] = h[n + i]
    BY <1>1, <1>2, SMT
  <2>2. h[n + i] = l[Len(l) - Len(h) + (n + i)]
    BY <2>1 DEF Kept
  <2>3. Len(l) - Len(h) + (n + i) = Len(l) - Len(live) + i
    BY <1>1, <1>2, SMT
  <2> QED BY <2>1, <2>2, <2>3
<1>4. ASSUME NEW i \in 1 .. Len(l) - Len(live)
      PROVE  l[i] <= now - window
  <2>1. CASE i <= Len(l) - Len(h)
    BY <2>1, <1>1, <1>2, SMT DEF Kept
  <2>2. CASE i > Len(l) - Len(h)
    <3>1. i - (Len(l) - Len(h)) \in 1 .. n
      BY <2>2, <1>1, <1>2, SMT DEF Kept
    <3>2. l[i] = h[i - (Len(l) - Len(h))]
      BY <3>1, <1>1, SMT DEF Kept
    <3> QED BY <3>1, <3>2 DEF Leaving
  <2> QED BY <2>1, <2>2, <1>1, SMT
<1>5. Len(live) <= Len(l) /\ Len(live) <= max
  BY <1>1, <1>2, SMT DEF Kept
<1> QED BY <1>1, <1>2, <1>3, <1>4, <1>5 DEF Kept, live

\* A sweep takes the whole bucket away.
LEMMA KeptClear ==
    ASSUME NEW h, NEW l, NEW max \in Nat \ {0}, NEW window \in Nat \ {0},
           NEW now \in Nat, Kept(h, l, max, window, now),
           h # <<>>, h[Len(h)] <= now - window
    PROVE  Kept(<<>>, l, max, window, now)
<1>1. h \in Seq(Nat) /\ l \in Seq(Nat) /\ Len(h) \in 1 .. Len(l)
  BY SMT DEF Kept
<1>2. h[Len(h)] = l[Len(l)]
  BY <1>1, SMT DEF Kept
<1>3. ASSUME NEW i \in 1 .. Len(l)
      PROVE  l[i] <= now - window
  <2>1. l[i] <= l[Len(l)]
    BY <1>1, SMT DEF Kept
  <2>2. l[i] \in Nat /\ l[Len(l)] \in Nat
    BY <1>1, SMTT(60)
  <2> QED BY <1>2, <2>1, <2>2, SMT
<1>4. <<>> \in Seq(Nat) /\ Len(<<>>) = 0
  BY SMT
<1> QED BY <1>1, <1>3, <1>4, SMT DEF Kept

\* An allowed hit is recorded at the end of the bucket and of the history, and
\* the history has dropped a hit that lies a window back.
LEMMA KeptRecord ==
    ASSUME NEW h, NEW l, NEW max \in Nat \ {0}, NEW window \in Nat \ {0},
           NEW now \in Nat, Kept(h, l, max, window, now), Len(h) < max,
           NEW l2, l2 = Drop(Append(l, now), IF Len(l) > max THEN 1 ELSE 0)
    PROVE  /\ Kept(Append(h, now), l2, max, window, now)
           /\ Spread(l2, max, window)
<1> DEFINE d == IF Len(l) > max THEN 1 ELSE 0
           h1 == Append(h, now)
           l1 == Append(l, now)
<1>1. /\ h \in Seq(Nat) /\ l \in Seq(Nat)
      /\ Len(h) \in Nat /\ Len(l) \in Nat
      /\ Len(h) <= Len(l) /\ Len(l) <= max + 1
  BY SMT DEF Kept
<1>2. /\ h1 \in Seq(Nat) /\ Len(h1) = Len(h) + 1
      /\ \A i \in 1 .. Len(h) : h1[i] = h[i]
      /\ h1[Len(h) + 1] = now
  BY <1>1, AppendProps
<1>3. /\ l1 \in Seq(Nat) /\ Len(l1) = Len(l) + 1
      /\ \A i \in 1 .. Len(l) : l1[i] = l[i]
      /\ l1[Len(l) + 1] = now
  BY <1>1, AppendProps
<1>4. /\ d \in 0 .. 1 /\ d \in 0 .. Len(l1)
      /\ Len(l) + 1 - d <= max + 1 /\ Len(h) <= Len(l) - d
  BY <1>1, <1>3, SMT
<1> HIDE DEF d
<1>5. /\ l2 \in Seq(Nat) /\ Len(l2) = Len(l1) - d
      /\ \A i \in 1 .. Len(l1) - d : l2[i] = l1[d + i]
  BY <1>3, <1>4, DropProps DEF d, l1
<1>6. /\ Len(h) \in Nat /\ Len(l) \in Nat /\ Len(h) <= Len(l) /\ Len(h) < max
      /\ Len(h1) = Len(h) + 1 /\ Len(l1) = Len(l) + 1
      /\ Len(l2) = Len(l) + 1 - d /\ Len(l2) <= max + 1 /\ d \in 0 .. 1
      /\ Len(h) <= Len(l) - d
  BY <1>1, <1>2, <1>3, <1>4, <1>5, SMT
<1> HIDE DEF h1, l1
<1>7. \A i \in 1 .. Len(l1) : l1[i] \in Nat /\ l1[i] <= now
  <2> SUFFICES ASSUME NEW i \in 1 .. Len(l1) PROVE l1[i] \in Nat /\ l1[i] <= now
    OBVIOUS
  <2>1. CASE i = Len(l) + 1
    BY <2>1, <1>3, SMT
  <2>2. CASE i # Len(l) + 1
    <3>1. i \in 1 .. Len(l)
      BY <2>2, <1>1, <1>3, SMT
    <3>2. l1[i] = l[i] /\ l[i] \in Nat
      BY <3>1, <1>1, <1>3, ElementOfSeq
    <3> QED BY <3>1, <3>2 DEF Kept
  <2> QED BY <2>1, <2>2
<1>8. ASSUME NEW i \in 1 .. Len(l1), NEW j \in 1 .. Len(l1), i <= j
      PROVE  l1[i] <= l1[j]
  <2>1. CASE j = Len(l) + 1
    BY <2>1, <1>3, <1>7, SMT
  <2>2. CASE j # Len(l) + 1
    <3>1. i \in 1 .. Len(l) /\ j \in 1 .. Len(l)
      BY <2>2, <1>1, <1>3, <1>8, SMTT(60)
    <3>2. l1[i] = l[i] /\ l1[j] = l[j]
      BY <3>1, <1>3
    <3> QED BY <3>1, <3>2, <1>8 DEF Kept
  <2> QED BY <2>1, <2>2
<1>9. ASSUME NEW i \in 1 .. Len(l2)
      PROVE  d + i \in 1 .. Len(l1) /\ l2[i] = l1[d + i]
  <2>1. d + i \in 1 .. Len(l1) /\ i \in 1 .. Len(l1) - d
    BY <1>6, SMT
  <2> QED BY <2>1, <1>5
<1>10. \A i \in 1 .. Len(l2) : l2[i] <= now
  BY <1>7, <1>9
<1>11. ASSUME NEW i \in 1 .. Len(l2), NEW j \in 1 .. Len(l2), i <= j
       PROVE  l2[i] <= l2[j]
  <2>1. d + i <= d + j
    BY <1>4, <1>5, <1>11, SMT
  <2> QED BY <2>1, <1>8, <1>9
<1>13. Len(h1) <= Len(l2) /\ Len(h1) <= max
  BY <1>6, SMT
<1>12. ASSUME NEW i \in 1 .. Len(h1)
       PROVE  h1[i] = l2[Len(l2) - Len(h1) + i]
  <2>1. /\ Len(l2) - Len(h1) + i \in 1 .. Len(l2)
        /\ d + (Len(l2) - Len(h1) + i) = Len(l) - Len(h) + i
    BY <1>6, SMT
  <2>2. l2[Len(l2) - Len(h1) + i] = l1[Len(l) - Len(h) + i]
    BY <2>1, <1>9
  <2>3. CASE i = Len(h) + 1
    <3>1. Len(l) - Len(h) + i = Len(l) + 1
      BY <2>3, <1>1, SMT
    <3> QED BY <2>2, <2>3, <3>1, <1>2, <1>3
  <2>4. CASE i # Len(h) + 1
    <3>1. i \in 1 .. Len(h) /\ Len(l) - Len(h) + i \in 1 .. Len(l)
      BY <2>4, <1>1, <1>2, SMTT(60)
    <3>2. h1[i] = h[i] /\ l1[Len(l) - Len(h) + i] = l[Len(l) - Len(h) + i]
      BY <3>1, <1>2, <1>3
    <3>3. h[i] = l[Len(l) - Len(h) + i]
      BY <3>1 DEF Kept
    <3> QED BY <2>2, <3>2, <3>3
  <2> QED BY <2>3, <2>4
<1>14. ASSUME NEW i \in 1 .. Len(l2) - Len(h1)
       PROVE  l2[i] <= now - window
  <2>1. /\ i \in 1 .. Len(l2)
        /\ d + i \in 1 .. Len(l) - Len(h)
        /\ d + i \in 1 .. Len(l)
    BY <1>6, SMT
  <2>2. l2[i] = l[d + i]
    BY <2>1, <1>3, <1>9
  <2> QED BY <2>1, <2>2 DEF Kept
<1>15. Spread(l2, max, window)
  <2> SUFFICES ASSUME Len(l2) > max PROVE l2[max + 1] - l2[1] >= window
    BY DEF Spread
  <2>1. /\ Len(l2) = max + 1
        /\ 1 \in 1 .. Len(l2) - Len(h1) /\ 1 \in 1 .. Len(l2)
        /\ max + 1 \in 1 .. Len(l2) /\ d + (max + 1) = Len(l) + 1
    BY <1>6, SMT
  <2>2. l2[max + 1] = now
    BY <2>1, <1>3, <1>9
  <2>3. l2[1] <= now - window
    BY <2>1, <1>14
  <2>4. l2[1] \in Nat
    BY <2>1, <1>7, <1>9
  <2> QED BY <2>2, <2>3, <2>4, SMT
<1>17. Kept(h1, l2, max, window, now)
  BY <1>2, <1>5, <1>6, <1>10, <1>11, <1>12, <1>14, <1>13 DEF Kept
<1> QED BY <1>15, <1>17 DEF h1

-----------------------------------------------------------------------------
(* The invariant, action by action *)

\* Limits and windows are positive.
LEMMA Positive ==
    ASSUME NEW k \in Keys
    PROVE  Limit(k) \in Nat \ {0} /\ Window(k) \in Nat \ {0}
<1>1. k[1] \in Scopes
  BY DEF Keys
<1>2. /\ Max[k[1]] \in Nat \ {0}
      /\ Seconds[k[1]] \in Nat \ {0}
      /\ Second \in Nat \ {0}
  BY <1>1, ConstantsOK
<1>3. \A a, b \in Nat \ {0} : a * b \in Nat \ {0}
  BY SMT
<1> QED BY <1>2, <1>3 DEF Limit, Window

\* No bucket and no history at first.
LEMMA InitInv == Init => Inv
<1> SUFFICES ASSUME Init PROVE Inv
  OBVIOUS
<1>1. <<>> \in Seq(Nat) /\ Len(<<>>) = 0
  BY SMT
<1>2. clock \in Nat /\ 0 \in Nat
  BY ConstantsOK, SMT DEF Init
<1>3. TypeOK
  BY <1>1, <1>2 DEF Init, TypeOK, Call, Idle, Scopes
<1>4. \A t \in Threads : CallInv(t)
  BY DEF Init, CallInv, Idle
<1>5. ASSUME NEW k \in Keys PROVE KeyInv(k)
  <2>1. hits[k] = <<>> /\ log[k] = <<>>
    BY DEF Init
  <2>2. Kept(<<>>, <<>>, Limit(k), Window(k), clock)
    BY <1>1, <1>2, Positive, SMT DEF Kept
  <2>3. Spread(<<>>, Limit(k), Window(k))
    BY <1>1, Positive, SMT DEF Spread
  <2> QED BY <2>1, <2>2, <2>3 DEF KeyInv, KeptAt, Covered, Promised, Fresh
<1>6. lastCleanup <= clock
  BY <1>2, SMT DEF Init
<1> QED BY <1>3, <1>4, <1>5, <1>6 DEF Inv

\* A step that records nothing keeps what is known of every key.
LEMMA KeysQuiet ==
    ASSUME Inv, clock' \in Nat, clock <= clock',
           UNCHANGED <<hits, lastCleanup, maxWindow, log, promise>>
    PROVE  \A k \in Keys : KeyInv(k)'
<1> SUFFICES ASSUME NEW k \in Keys PROVE KeyInv(k)'
  OBVIOUS
<1>1. KeyInv(k) /\ clock \in Nat
  BY DEF Inv, TypeOK
<1>2. Kept(hits[k], log[k], Limit(k), Window(k), clock')
  BY <1>1, Positive, KeptLater DEF KeyInv, KeptAt
<1>3. KeptAt(k, clock)'
  BY <1>2 DEF KeptAt
<1>4. Covered(k)' /\ Promised(k)' /\ Fresh(k)'
  BY <1>1 DEF KeyInv, Covered, Promised, Fresh
<1>5. Spread(log[k], Limit(k), Window(k))'
  BY <1>1 DEF KeyInv
<1> QED BY <1>3, <1>4, <1>5 DEF KeyInv

\* Time passes.
LEMMA TickInv == Inv /\ Tick => Inv'
<1> SUFFICES ASSUME Inv, Tick PROVE Inv'
  OBVIOUS
<1>1. /\ clock \in Nat /\ lastCleanup \in Nat /\ clock' \in Nat
      /\ clock <= clock' /\ lastCleanup' <= clock'
  BY SMT DEF Inv, TypeOK, Tick
<1>2. UNCHANGED <<hits, lastCleanup, maxWindow, call, log, promise>>
  BY DEF Tick
<1>3. TypeOK'
  BY <1>1, <1>2 DEF Inv, TypeOK
<1>4. ASSUME NEW t \in Threads PROVE CallInv(t)'
  <2>1. CallInv(t) /\ call[t] \in Call
    BY DEF Inv, TypeOK
  <2>2. CASE call[t].at = "lock"
    <3>1. call[t].now \in Nat /\ call[t].now <= clock
      BY <2>1, <2>2 DEF CallInv, Call
    <3>2. call[t].now <= clock'
      BY <1>1, <3>1, SMT
    <3> QED BY <1>2, <2>1, <2>2, <3>2 DEF CallInv, KeptAt
  <2>3. CASE call[t].at # "lock"
    BY <1>2, <2>1, <2>3 DEF CallInv
  <2> QED BY <2>2, <2>3
<1>5. \A k \in Keys : KeyInv(k)'
  BY <1>1, <1>2, KeysQuiet
<1> QED BY <1>1, <1>3, <1>4, <1>5 DEF Inv

\* A request arrives.
LEMMA ArriveInv ==
    ASSUME Inv, NEW t \in Threads, Arrive(t)
    PROVE  Inv'
<1> PICK c \in Clients, l \in BOOLEAN :
       call' = [call EXCEPT ![t] =
                  [Idle EXCEPT !.at = "clock", !.client = c, !.login = l]]
  BY DEF Arrive, Continue
<1>1. UNCHANGED <<clock, hits, lastCleanup, maxWindow, log, promise>>
  BY DEF Arrive
<1> DEFINE new == [Idle EXCEPT !.at = "clock", !.client = c, !.login = l]
<1>2. new \in Call /\ new.at = "clock" /\ new.client = c
  BY DEF Idle, Call, Scopes
<1>3. TypeOK'
  BY <1>1, <1>2 DEF Inv, TypeOK
<1>4. ASSUME NEW u \in Threads PROVE CallInv(u)'
  <2>1. CASE u = t
    BY <1>2, <2>1 DEF CallInv, Inv, TypeOK
  <2>2. CASE u # t
    <3>1. call'[u] = call[u] /\ CallInv(u)
      BY <2>2 DEF Inv, TypeOK
    <3> QED BY <1>1, <3>1 DEF CallInv, KeptAt
  <2> QED BY <2>1, <2>2
<1>5. clock \in Nat /\ clock' \in Nat /\ clock <= clock'
  BY <1>1, SMT DEF Inv, TypeOK
<1>6. \A k \in Keys : KeyInv(k)'
  BY <1>1, <1>5, KeysQuiet
<1> QED BY <1>1, <1>3, <1>4, <1>6 DEF Inv

\* The time a check uses is the present one.
LEMMA ReadClockInv ==
    ASSUME Inv, NEW t \in Threads, ReadClock(t)
    PROVE  Inv'
<1> DEFINE new == [call[t] EXCEPT !.at = "lock", !.now = clock]
<1>1. UNCHANGED <<clock, hits, lastCleanup, maxWindow, log, promise>>
  BY DEF ReadClock
<1>2. call' = [call EXCEPT ![t] = new] /\ call[t].at = "clock"
  BY DEF ReadClock, Continue
<1>3. /\ clock \in Nat /\ lastCleanup <= clock /\ call[t] \in Call
      /\ call \in [Threads -> Call] /\ CallInv(t)
  BY DEF Inv, TypeOK
<1>4. /\ new \in Call /\ new.at = "lock" /\ new.now = clock
      /\ new.client = call[t].client
  BY <1>3 DEF Call
<1>5. call[t].client \in Clients
  BY <1>2, <1>3 DEF CallInv
<1>6. TypeOK'
  BY <1>1, <1>2, <1>4 DEF Inv, TypeOK
<1>7. ASSUME NEW u \in Threads PROVE CallInv(u)'
  <2>1. CASE u = t
    <3>1. call'[t] = new
      BY <1>2, <1>3
    <3>2. \A k \in Keys : KeptAt(k, clock)
      BY DEF Inv, KeyInv
    <3>3. \A k \in Keys : KeptAt(k, clock)'
      BY <1>1, <3>2 DEF KeptAt
    <3>4. clock <= clock
      BY <1>3, SMT
    <3> HIDE DEF new
    <3> QED BY <2>1, <1>1, <1>3, <1>4, <1>5, <3>1, <3>3, <3>4 DEF CallInv, KeptAt
  <2>2. CASE u # t
    <3>1. call'[u] = call[u] /\ CallInv(u)
      BY <2>2, <1>2, <1>3 DEF Inv
    <3> QED BY <1>1, <3>1 DEF CallInv, KeptAt
  <2> QED BY <2>1, <2>2
<1>8. \A k \in Keys : KeyInv(k)'
  <2>1. clock' \in Nat /\ clock <= clock'
    BY <1>1, <1>3, SMT
  <2> QED BY <1>1, <2>1, KeysQuiet
<1> QED BY <1>1, <1>3, <1>6, <1>7, <1>8 DEF Inv

-----------------------------------------------------------------------------
(* A check *)

\* What a check knows when it has evicted the hits that left the window.
LEMMA CheckStart ==
    ASSUME Inv, NEW t \in Threads, call[t].at = "lock",
           NEW k, k = <<call[t].scope, call[t].client>>,
           NEW n \in 0 .. Len(hits[k]),
           Leaving(hits[k], n, call[t].now - Window(k))
    PROVE  /\ k \in Keys
           /\ call[t].now \in Nat /\ call[t].now <= clock
           /\ lastCleanup <= call[t].now
           /\ \A j \in Keys : KeptAt(j, call[t].now)
           /\ Kept(Drop(hits[k], n), log[k], Limit(k), Window(k), call[t].now)
           /\ Len(Drop(hits[k], n)) = Len(hits[k]) - n
<1>1. call[t] \in Call /\ CallInv(t)
  BY DEF Inv, TypeOK
<1>2. k \in Keys
  BY <1>1 DEF CallInv, Call, Keys
<1>3. /\ call[t].now \in Nat /\ call[t].now <= clock
      /\ lastCleanup <= call[t].now
      /\ \A j \in Keys : KeptAt(j, call[t].now)
  BY <1>1 DEF CallInv, Call
<1>4. Kept(Drop(hits[k], n), log[k], Limit(k), Window(k), call[t].now)
  BY <1>2, <1>3, Positive, KeptEvict DEF KeptAt
<1>5. hits[k] \in Seq(Nat)
  BY <1>2 DEF Inv, TypeOK
<1> QED BY <1>2, <1>3, <1>4, <1>5, DropProps

\* A bucket that is full after the eviction lost nothing to it.
LEMMA FullKept ==
    ASSUME NEW k \in Keys, KeyInv(k), NEW n \in 0 .. Len(hits[k]),
           Len(Drop(hits[k], n)) >= Limit(k)
    PROVE  /\ n = 0 /\ Drop(hits[k], n) = hits[k]
           /\ Len(hits[k]) >= 1 /\ hits[k] \in Seq(Nat)
<1>1. hits[k] \in Seq(Nat) /\ Len(hits[k]) <= Limit(k)
  BY DEF KeyInv, KeptAt, Kept
<1>2. /\ Drop(hits[k], n) \in Seq(Nat)
      /\ Len(Drop(hits[k], n)) = Len(hits[k]) - n
      /\ \A i \in 1 .. Len(hits[k]) - n : Drop(hits[k], n)[i] = hits[k][n + i]
  BY <1>1, DropProps
<1>3. Len(hits[k]) \in Nat /\ Limit(k) \in Nat \ {0}
  BY <1>1, Positive, SMT
<1>4. n = 0 /\ Len(hits[k]) >= 1
  BY <1>1, <1>2, <1>3, SMT
<1>5. \A i \in 1 .. Len(hits[k]) : Drop(hits[k], n)[i] = hits[k][i]
  BY <1>2, <1>3, <1>4, SMT
<1>6. Drop(hits[k], n) = hits[k]
  BY <1>1, <1>2, <1>3, <1>4, <1>5, SeqEqual, SMTT(60)
<1> QED BY <1>1, <1>4, <1>6

\* What a refusal leaves: the bucket as it was, and a promise the client can
\* rely on.
LEMMA RefuseInv ==
    ASSUME Inv, NEW t \in Threads, call[t].at = "lock",
           NEW k, k = <<call[t].scope, call[t].client>>,
           NEW n \in 0 .. Len(hits[k]),
           Leaving(hits[k], n, call[t].now - Window(k)),
           Len(Drop(hits[k], n)) >= Limit(k),
           Refuse(t, k, Drop(hits[k], n), call[t].now),
           maxWindow' = Larger(maxWindow, Window(k)),
           UNCHANGED clock
    PROVE  Inv'
<1> DEFINE now == call[t].now
           retry == ((hits[k][1] + Window(k)) - now) \div Second
<1>1. k \in Keys /\ now \in Nat /\ KeyInv(k)
  BY CheckStart DEF Inv
<1>2. /\ Drop(hits[k], n) = hits[k] /\ Len(hits[k]) >= 1
      /\ hits[k] \in Seq(Nat)
  BY <1>1, FullKept
<1>3. /\ hits' = [hits EXCEPT ![k] = hits[k]]
      /\ promise' = [promise EXCEPT ![k] = now + Larger(retry + 1, 1) * Second]
      /\ call' = [call EXCEPT ![t] = Idle]
      /\ UNCHANGED <<clock, lastCleanup, log>>
  BY <1>2 DEF Refuse, Answer, Continue
<1>4. hits' = hits
  BY <1>3 DEF Inv, TypeOK
<1>5. hits[k][1] \in Nat
  BY <1>2, SMT
<1>6. /\ Window(k) \in Nat \ {0} /\ Second \in Nat \ {0}
      /\ maxWindow \in Nat /\ lastCleanup \in Nat
  BY <1>1, Positive, ConstantsOK DEF Inv, TypeOK
<1>7. /\ retry \in Int
      /\ (hits[k][1] + Window(k)) - now < (retry + 1) * Second
  <2>1. /\ (hits[k][1] + Window(k)) - now \in Int
        /\ Second \in Int /\ Second > 0
    BY <1>1, <1>5, <1>6, SMTT(60)
  <2> HIDE DEF now
  <2> QED BY <2>1, RoundUp
<1> HIDE DEF retry
<1>8. Larger(retry + 1, 1) \in Nat \ {0} /\ Larger(retry + 1, 1) >= retry + 1
  BY <1>7, SMT DEF Larger
<1>9. ASSUME NEW a \in Int, NEW b \in Int, a >= b
      PROVE  /\ a * Second \in Int /\ b * Second \in Int
             /\ a * Second >= b * Second
  BY <1>6, <1>9, SMT
<1>10. /\ Larger(retry + 1, 1) * Second \in Nat
       /\ Larger(retry + 1, 1) * Second >= (retry + 1) * Second
       /\ (retry + 1) * Second \in Int
  <2>1. Larger(retry + 1, 1) * Second >= 0 * Second
    BY <1>8, <1>9, SMT
  <2>2. /\ Larger(retry + 1, 1) * Second >= (retry + 1) * Second
        /\ (retry + 1) * Second \in Int /\ Larger(retry + 1, 1) * Second \in Int
    BY <1>7, <1>8, <1>9, SMT
  <2> QED BY <1>6, <2>1, <2>2, SMT
<1>11. /\ promise'[k] = now + Larger(retry + 1, 1) * Second
       /\ promise'[k] \in Nat /\ hits[k][1] + Window(k) <= promise'[k]
  <2>1. promise'[k] = now + Larger(retry + 1, 1) * Second
    BY <1>1, <1>3 DEF Inv, TypeOK
  <2> DEFINE leaves == hits[k][1] + Window(k)
             seconds == (retry + 1) * Second
             wait == Larger(retry + 1, 1) * Second
  <2>2. leaves \in Int
    BY <1>5, <1>6, SMT
  <2>3. /\ now \in Nat
        /\ leaves - now < seconds
        /\ seconds \in Int
        /\ wait \in Nat
        /\ wait >= seconds
        /\ promise'[k] = now + wait
    <3>1. now \in Nat BY <1>1
    <3>2. leaves - now < seconds BY <1>7
    <3>3. seconds \in Int BY <1>10
    <3>4. wait \in Nat BY <1>10
    <3>5. wait >= seconds BY <1>10
    <3>6. promise'[k] = now + wait BY <2>1
    <3> HIDE DEF leaves, seconds, wait, now
    <3> QED BY <3>1, <3>2, <3>3, <3>4, <3>5, <3>6
  <2> HIDE DEF leaves, seconds, wait, now
  <2>4. promise'[k] \in Nat /\ leaves <= promise'[k]
    BY <2>2, <2>3, SMT
  <2> QED BY <2>3, <2>4 DEF leaves, wait
<1>12. /\ maxWindow' \in Nat /\ maxWindow <= maxWindow'
       /\ Window(k) <= maxWindow'
  BY <1>6, SMT DEF Larger
<1>13. TypeOK'
  <2>1. Idle \in Call /\ clock \in Nat
    BY SMT DEF Idle, Call, Scopes, Inv, TypeOK
  <2>2. promise' \in [Keys -> Nat \cup {Never}]
    BY <1>3, <1>11 DEF Inv, TypeOK
  <2> QED BY <1>3, <1>4, <1>12, <2>1, <2>2 DEF Inv, TypeOK
<1>14. ASSUME NEW j \in Keys PROVE KeyInv(j)'
  <2>1. KeyInv(j) /\ Window(j) \in Nat
    BY Positive DEF Inv
  <2>2. KeptAt(j, clock)' /\ Spread(log[j], Limit(j), Window(j))'
    BY <1>3, <1>4, <2>1 DEF KeyInv, KeptAt
  <2>3. Covered(j)'
    BY <1>4, <1>6, <1>12, <2>1, SMT DEF KeyInv, Covered
  <2>4. Fresh(j)'
    <3> SUFFICES ASSUME hits[j] # <<>>
                 PROVE  hits[j][Len(hits[j])] > lastCleanup - maxWindow'
      BY <1>3, <1>4 DEF Fresh
    <3>1. hits[j] \in Seq(Nat)
      BY DEF Inv, TypeOK
    <3>2. hits[j][Len(hits[j])] \in Nat
      BY <3>1, SMT
    <3>3. hits[j][Len(hits[j])] > lastCleanup - maxWindow
      BY <2>1 DEF KeyInv, Fresh
    <3> QED BY <1>6, <1>12, <3>2, <3>3, SMT
  <2>5. Promised(j)'
    <3>1. CASE j = k
      BY <1>4, <1>11, <3>1 DEF Promised
    <3>2. CASE j # k
      <4>1. promise'[j] = promise[j]
        BY <1>3, <3>2 DEF Inv, TypeOK
      <4> QED BY <1>4, <2>1, <4>1 DEF KeyInv, Promised
    <3> QED BY <3>1, <3>2
  <2> QED BY <2>2, <2>3, <2>4, <2>5 DEF KeyInv
<1>15. ASSUME NEW u \in Threads PROVE CallInv(u)'
  <2>1. CASE u = t
    <3>1. call'[t] = Idle
      BY <1>3 DEF Inv, TypeOK
    <3> QED BY <2>1, <3>1 DEF CallInv, Idle
  <2>2. CASE u # t
    <3>1. call'[u] = call[u] /\ CallInv(u)
      BY <2>2, <1>3 DEF Inv, TypeOK
    <3> QED BY <1>3, <1>4, <3>1 DEF CallInv, KeptAt
  <2> QED BY <2>1, <2>2
<1>16. lastCleanup' <= clock'
  BY <1>3 DEF Inv
<1> QED BY <1>13, <1>14, <1>15, <1>16 DEF Inv

\* An allowed hit, before the sweep that may follow it.
LEMMA RecordKeys ==
    ASSUME Inv, NEW t \in Threads, call[t].at = "lock",
           NEW k, k = <<call[t].scope, call[t].client>>,
           NEW n \in 0 .. Len(hits[k]),
           Leaving(hits[k], n, call[t].now - Window(k)),
           Len(Drop(hits[k], n)) < Limit(k),
           log' = [log EXCEPT ![k] = Drop(Append(@, call[t].now),
                                          IF Len(@) > Limit(k) THEN 1 ELSE 0)],
           NEW h1, h1 = [hits EXCEPT ![k] = Append(Drop(hits[k], n), call[t].now)],
           NEW j \in Keys
    PROVE  /\ Kept(h1[j], log'[j], Limit(j), Window(j), call[t].now)
           /\ Spread(log'[j], Limit(j), Window(j))
<1>1. /\ k \in Keys /\ call[t].now \in Nat
      /\ KeptAt(j, call[t].now)
      /\ Kept(Drop(hits[k], n), log[k], Limit(k), Window(k), call[t].now)
  BY CheckStart
<1>2. /\ hits \in [Keys -> Seq(Nat)] /\ log \in [Keys -> Seq(Nat)] /\ KeyInv(j)
  BY DEF Inv, TypeOK
<1>3. CASE j = k
  <2>1. /\ h1[k] = Append(Drop(hits[k], n), call[t].now)
        /\ log'[k] = Drop(Append(log[k], call[t].now),
                          IF Len(log[k]) > Limit(k) THEN 1 ELSE 0)
    BY <1>1, <1>2
  <2>2. /\ Kept(Append(Drop(hits[k], n), call[t].now), log'[k], Limit(k),
                Window(k), call[t].now)
        /\ Spread(log'[k], Limit(k), Window(k))
    BY <1>1, <2>1, Positive, KeptRecord
  <2> QED BY <1>3, <2>1, <2>2
<1>4. CASE j # k
  <2>1. h1[j] = hits[j] /\ log'[j] = log[j]
    BY <1>2, <1>4
  <2> QED BY <1>1, <1>2, <2>1 DEF KeptAt, KeyInv
<1> QED BY <1>3, <1>4

\* What an allowed hit leaves, with or without a sweep: the sweep's horizon is
\* at least every bucket's window.
LEMMA AllowInv ==
    ASSUME Inv, NEW t \in Threads, call[t].at = "lock",
           NEW k, k = <<call[t].scope, call[t].client>>,
           NEW n \in 0 .. Len(hits[k]),
           Leaving(hits[k], n, call[t].now - Window(k)),
           Len(Drop(hits[k], n)) < Limit(k), OneThread,
           Allow(t, k, Drop(hits[k], n), call[t].now),
           maxWindow' = Larger(maxWindow, Window(k)),
           UNCHANGED clock
    PROVE  Inv'
<1> DEFINE now == call[t].now
           live == Drop(hits[k], n)
           h1 == [hits EXCEPT ![k] = Append(live, now)]
           due == ~(now - lastCleanup < Interval)
<1>1. /\ k \in Keys /\ now \in Nat /\ now <= clock /\ lastCleanup <= now
      /\ Kept(live, log[k], Limit(k), Window(k), now)
  BY CheckStart
<1>2. /\ hits' = Swept(h1, k, now, maxWindow')
      /\ lastCleanup' = (IF due THEN now ELSE lastCleanup)
      /\ log' = [log EXCEPT ![k] = Drop(Append(@, now),
                                        IF Len(@) > Limit(k) THEN 1 ELSE 0)]
      /\ promise' = [promise EXCEPT ![k] = Never]
      /\ clock' = clock
  BY DEF Allow
<1>3. \A j \in Keys :
        /\ Kept(h1[j], log'[j], Limit(j), Window(j), now)
        /\ Spread(log'[j], Limit(j), Window(j))
  BY <1>2, RecordKeys
<1>4. /\ hits \in [Keys -> Seq(Nat)] /\ log \in [Keys -> Seq(Nat)]
      /\ promise \in [Keys -> Nat \cup {Never}] /\ call \in [Threads -> Call]
      /\ clock \in Nat /\ lastCleanup \in Nat /\ maxWindow \in Nat
      /\ lastCleanup <= clock
  BY DEF Inv, TypeOK
<1>5. /\ maxWindow' \in Nat \ {0} /\ maxWindow <= maxWindow'
      /\ Window(k) <= maxWindow'
  BY <1>1, <1>4, Positive, SMT DEF Larger
<1>6. live \in Seq(Nat)
  BY <1>1 DEF Kept
<1>7. /\ h1 \in [Keys -> Seq(Nat)]
      /\ h1[k] = Append(live, now)
      /\ \A j \in Keys \ {k} : h1[j] = hits[j]
  BY <1>1, <1>4, <1>6, AppendProps
<1>8. h1[k][Len(h1[k])] = now
  BY <1>1, <1>6, <1>7, AppendProps
<1> HIDE DEF live, h1, now
<1>9. \A j \in Keys : h1[j] # <<>> => Window(j) <= maxWindow'
  <2> SUFFICES ASSUME NEW j \in Keys, h1[j] # <<>> PROVE Window(j) <= maxWindow'
    OBVIOUS
  <2>1. CASE j = k
    BY <1>5, <2>1
  <2>2. CASE j # k
    <3>1. Window(j) <= maxWindow /\ Window(j) \in Nat
      BY <1>7, <2>2, Positive DEF Inv, KeyInv, Covered
    <3> QED BY <1>4, <1>5, <3>1, SMT
  <2> QED BY <2>1, <2>2
<1>10. ASSUME NEW j \in Keys
       PROVE  \/ /\ hits'[j] = h1[j]
                 /\ due /\ h1[j] # <<>> => h1[j][Len(h1[j])] > now - maxWindow'
              \/ /\ hits'[j] = <<>> /\ due
                 /\ h1[j] # <<>> /\ h1[j][Len(h1[j])] <= now - maxWindow'
  <2>1. CASE due
    <3>1. hits'[j] = IF h1[j] # <<>> /\ h1[j][Len(h1[j])] <= now - maxWindow'
                     THEN <<>> ELSE h1[j]
      BY <1>2, <2>1 DEF Swept
    <3>2. h1[j] # <<>> => h1[j][Len(h1[j])] \in Nat
      <4>1. h1[j] \in Seq(Nat)
        BY <1>7
      <4> QED BY <4>1, SMT
    <3>3. now - maxWindow' \in Int
      BY <1>1, <1>5, SMT
    <3>4. CASE h1[j] # <<>> /\ h1[j][Len(h1[j])] <= now - maxWindow'
      BY <2>1, <3>1, <3>4
    <3>5. CASE ~(h1[j] # <<>> /\ h1[j][Len(h1[j])] <= now - maxWindow')
      <4>1. h1[j] # <<>> => h1[j][Len(h1[j])] > now - maxWindow'
        BY <3>2, <3>3, <3>5, SMT
      <4> QED BY <3>1, <3>5, <4>1
    <3> QED BY <3>4, <3>5
  <2>2. CASE ~due
    BY <1>2, <2>2 DEF Swept
  <2> QED BY <2>1, <2>2
<1>11. lastCleanup' \in Nat /\ lastCleanup' <= clock' /\ lastCleanup <= lastCleanup'
  BY <1>1, <1>2, <1>4, SMT
<1> HIDE DEF due
<1>12. ASSUME NEW j \in Keys
       PROVE  Kept(hits'[j], log'[j], Limit(j), Window(j), now)
  <2>1. CASE hits'[j] = h1[j]
    BY <1>3, <2>1
  <2>2. CASE hits'[j] # h1[j]
    <3>1. /\ hits'[j] = <<>> /\ h1[j] # <<>>
          /\ h1[j][Len(h1[j])] <= now - maxWindow'
      BY <1>10, <2>2
    <3>2. Window(j) <= maxWindow' /\ Window(j) \in Nat
      BY <1>9, <3>1, Positive
    <3>3. h1[j] \in Seq(Nat)
      BY <1>7
    <3>4. h1[j][Len(h1[j])] \in Nat
      BY <3>1, <3>3, SMT
    <3>5. h1[j][Len(h1[j])] <= now - Window(j)
      BY <1>1, <1>5, <3>1, <3>2, <3>4, SMT
    <3> QED BY <1>1, <1>3, <3>1, <3>5, Positive, KeptClear
  <2> QED BY <2>1, <2>2
<1>13. ASSUME NEW j \in Keys PROVE KeyInv(j)'
  <2>1. Kept(hits'[j], log'[j], Limit(j), Window(j), clock')
    BY <1>1, <1>2, <1>4, <1>12, Positive, KeptLater, ZenonT(60)
  <2>2. KeptAt(j, clock)' /\ Spread(log[j], Limit(j), Window(j))'
    BY <1>3, <2>1 DEF KeptAt
  <2>3. hits'[j] # <<>> => hits'[j] = h1[j]
    BY <1>10
  <2>4. Covered(j)'
    BY <1>9, <2>3 DEF Covered
  <2>5. Promised(j)'
    <3>1. CASE j = k
      BY <1>1, <1>2, <1>4, <3>1 DEF Promised
    <3>2. CASE j # k
      <4>1. promise'[j] = promise[j] /\ h1[j] = hits[j] /\ KeyInv(j)
        BY <1>2, <1>4, <1>7, <3>2 DEF Inv
      <4> QED BY <2>3, <4>1 DEF KeyInv, Promised
    <3> QED BY <3>1, <3>2
  <2>6. Fresh(j)'
    <3> SUFFICES ASSUME hits'[j] # <<>>
                 PROVE  h1[j][Len(h1[j])] > lastCleanup' - maxWindow'
      BY <2>3 DEF Fresh
    <3>1. CASE due
      BY <1>2, <1>10, <2>3, <3>1
    <3>2. CASE ~due
      <4>1. lastCleanup' = lastCleanup
        BY <1>2, <3>2
      <4>2. CASE j = k
        <5>1. now > lastCleanup - maxWindow'
          BY <1>1, <1>4, <1>5, SMT
        <5> QED BY <1>8, <4>1, <4>2, <5>1
      <4>3. CASE j # k
        <5>1. h1[j] = hits[j] /\ hits[j] \in Seq(Nat) /\ hits[j] # <<>>
          BY <1>4, <1>7, <2>3, <4>3
        <5>2. hits[j][Len(hits[j])] \in Nat
          BY <5>1, SMT
        <5>3. hits[j][Len(hits[j])] > lastCleanup - maxWindow
          BY <5>1 DEF Inv, KeyInv, Fresh
        <5>4. hits[j][Len(hits[j])] > lastCleanup - maxWindow'
          BY <1>4, <1>5, <5>2, <5>3, SMT
        <5> QED BY <4>1, <5>1, <5>4
      <4> QED BY <4>2, <4>3
    <3> QED BY <3>1, <3>2
  <2> QED BY <2>2, <2>4, <2>5, <2>6 DEF KeyInv
<1>14. /\ call[t] \in Call /\ call[t].client \in Clients
       /\ \/ call' = [call EXCEPT ![t] = Idle]
          \/ call' = [call EXCEPT ![t] =
                         [call[t] EXCEPT !.at = "clock", !.scope = "login"]]
  BY DEF Allow, Continue, Answer, Inv, TypeOK, CallInv
<1>15. /\ call'[t] \in Call /\ call'[t].at # "lock"
       /\ call'[t].at # "idle" => call'[t].client \in Clients
       /\ call' \in [Threads -> Call]
       /\ \A u \in Threads \ {t} : call'[u] = call[u]
  <2>1. CASE call' = [call EXCEPT ![t] = Idle]
    <3>1. Idle \in Call /\ Idle.at = "idle"
      BY SMT DEF Idle, Call, Scopes
    <3> QED BY <1>4, <2>1, <3>1
  <2>2. CASE call' = [call EXCEPT ![t] =
                         [call[t] EXCEPT !.at = "clock", !.scope = "login"]]
    <3> DEFINE new == [call[t] EXCEPT !.at = "clock", !.scope = "login"]
    <3>1. new \in Call /\ new.at = "clock" /\ new.client \in Clients
      BY <1>14 DEF Call, Scopes
    <3> HIDE DEF new
    <3>2. call' = [call EXCEPT ![t] = new]
      BY <2>2 DEF new
    <3> QED BY <1>4, <3>1, <3>2
  <2> QED BY <1>14, <2>1, <2>2
<1>16. ASSUME NEW u \in Threads PROVE CallInv(u)'
  BY <1>15 DEF CallInv, OneThread
<1>17. TypeOK'
  <2>1. /\ hits' \in [Keys -> Seq(Nat)]
        /\ log' \in [Keys -> Seq(Nat)]
    <3>1. \A j \in Keys : hits'[j] \in Seq(Nat) /\ log'[j] \in Seq(Nat)
      BY <1>12 DEF Kept
    <3>2. hits' = [j \in Keys |-> hits'[j]]
      BY <1>2, <1>4, <1>7 DEF Swept
    <3>3. log' = [j \in Keys |-> log'[j]]
      BY <1>2, <1>4
    <3> QED BY <3>1, <3>2, <3>3
  <2>2. promise' \in [Keys -> Nat \cup {Never}]
    BY <1>2, <1>4
  <2> QED BY <1>2, <1>4, <1>5, <1>11, <1>15, <2>1, <2>2 DEF TypeOK
<1> QED BY <1>11, <1>13, <1>16, <1>17 DEF Inv

\* Every check preserves the invariant.
LEMMA CheckInv ==
    ASSUME OneThread, Inv, NEW t \in Threads, Check(t)
    PROVE  Inv'
<1> DEFINE k == <<call[t].scope, call[t].client>>
<1>1. PICK n \in 0 .. Len(hits[k]) :
         /\ Leaving(hits[k], n, call[t].now - Window(k))
         /\ IF Len(Drop(hits[k], n)) >= Limit(k)
            THEN Refuse(t, k, Drop(hits[k], n), call[t].now)
            ELSE Allow(t, k, Drop(hits[k], n), call[t].now)
  BY DEF Check
<1>2. /\ call[t].at = "lock" /\ maxWindow' = Larger(maxWindow, Window(k))
      /\ UNCHANGED clock
  BY DEF Check
<1>3. CASE Len(Drop(hits[k], n)) >= Limit(k)
  BY <1>1, <1>2, <1>3, RefuseInv
<1>4. CASE ~(Len(Drop(hits[k], n)) >= Limit(k))
  <2>1. k \in Keys /\ Len(Drop(hits[k], n)) = Len(hits[k]) - n
    BY <1>1, <1>2, CheckStart
  <2>2. hits[k] \in Seq(Nat) /\ Limit(k) \in Nat
    BY <2>1, Positive DEF Inv, TypeOK
  <2>3. Len(Drop(hits[k], n)) < Limit(k)
    BY <1>4, <2>1, <2>2, SMT
  <2> QED BY <1>1, <1>2, <1>4, <2>3, AllowInv
<1> QED BY <1>3, <1>4

\* Every step does.
LEMMA NextInv ==
    ASSUME OneThread, Inv, [Next]_vars
    PROVE  Inv'
<1>1. CASE Tick
  BY <1>1, TickInv
<1>2. ASSUME NEW t \in Threads, Arrive(t) PROVE Inv'
  BY <1>2, ArriveInv
<1>3. ASSUME NEW t \in Threads, ReadClock(t) PROVE Inv'
  BY <1>3, ReadClockInv
<1>4. ASSUME NEW t \in Threads, Check(t) PROVE Inv'
  BY <1>4, CheckInv
<1>5. CASE UNCHANGED vars
  BY <1>5 DEF vars, Inv, TypeOK, CallInv, KeyInv, KeptAt, Covered, Promised,
              Fresh
<1> QED BY <1>1, <1>2, <1>3, <1>4, <1>5 DEF Next

-----------------------------------------------------------------------------
(* What the limiter promises *)

\* The invariant implies the properties the runs check.
LEMMA InvImplies == Inv => TypeOK /\ WindowLimit /\ IdleSwept
BY DEF Inv, KeyInv, Spread, Fresh, WindowLimit, IdleSwept

\* The invariant holds of every behaviour of a worker's event loop.
LEMMA Invariance ==
    ASSUME OneThread
    PROVE  Spec => []Inv
<1>1. Inv /\ [Next]_vars => Inv'
  BY NextInv
<1> QED BY <1>1, InitInv, PTL DEF Spec

\* check() keeps clock readings, deques and promises of the right types.
THEOREM TypeCorrect ==
    ASSUME OneThread
    PROVE  Spec => []TypeOK
BY Invariance, InvImplies, PTL

\* The sliding window of check(): no client gets more than the limit through in
\* a window, whatever the limits, the windows and the sweeps in between.
THEOREM WindowLimitHolds ==
    ASSUME OneThread
    PROVE  Spec => []WindowLimit
BY Invariance, InvImplies, PTL

\* _sweep() leaves no bucket that was idle for the longest window.
THEOREM IdleSweptHolds ==
    ASSUME OneThread
    PROVE  Spec => []IdleSwept
BY Invariance, InvImplies, PTL

\* A check at or after the promised time is not a refusal: the oldest hit of a
\* full bucket would have left the window and been evicted.
LEMMA PromiseKept ==
    ASSUME Inv, NEW t \in Threads, Check(t),
           NEW k, k = <<call[t].scope, call[t].client>>,
           promise[k] # Never, call[t].now >= promise[k]
    PROVE  log'[k] # log[k]
<1> DEFINE now == call[t].now
<1>1. PICK n \in 0 .. Len(hits[k]) :
         /\ Leaving(hits[k], n, now - Window(k))
         /\ IF Len(Drop(hits[k], n)) >= Limit(k)
            THEN Refuse(t, k, Drop(hits[k], n), now)
            ELSE Allow(t, k, Drop(hits[k], n), now)
  BY DEF Check
<1> DEFINE live == Drop(hits[k], n)
<1>2. call[t].at = "lock"
  BY DEF Check
<1>3. /\ k \in Keys /\ now \in Nat /\ Len(live) = Len(hits[k]) - n
      /\ Kept(live, log[k], Limit(k), Window(k), now)
  BY <1>1, <1>2, CheckStart
<1>4. /\ KeyInv(k) /\ hits[k] \in Seq(Nat) /\ log \in [Keys -> Seq(Nat)]
      /\ promise[k] \in Nat
      /\ Limit(k) \in Nat \ {0} /\ Window(k) \in Nat \ {0}
  BY <1>3, Positive DEF Inv, TypeOK
<1>5. ~(Len(live) >= Limit(k))
  <2> SUFFICES ASSUME Len(live) >= Limit(k) PROVE FALSE
    OBVIOUS
  <2>1. n = 0 /\ Len(hits[k]) >= 1
    BY <1>3, <1>4, FullKept
  <2>2. hits[k][1] > now - Window(k)
    BY <1>1, <1>4, <2>1, SMT DEF Leaving
  <2>3. hits[k][1] + Window(k) <= promise[k]
    BY <1>4, <2>1, EmptySeq DEF KeyInv, Promised
  <2>4. hits[k][1] \in Nat
    BY <1>4, <2>1, SMT
  <2>5. now \in Nat /\ now >= promise[k] /\ Window(k) \in Nat
    BY <1>3, <1>4
  <2> HIDE DEF live, now
  <2>6. promise[k] \in Nat
    BY <1>4
  <2> QED BY <2>2, <2>3, <2>4, <2>5, <2>6, SMTT(60)
<1>6. log'[k] = Drop(Append(log[k], now), IF Len(log[k]) > Limit(k) THEN 1 ELSE 0)
  BY <1>1, <1>3, <1>4, <1>5 DEF Allow
<1>7. Len(live) < Limit(k) /\ live \in Seq(Nat) /\ log[k] \in Seq(Nat)
  <2>1. live \in Seq(Nat) /\ log[k] \in Seq(Nat)
    BY <1>3 DEF Kept
  <2>2. Len(live) \in Nat /\ Limit(k) \in Nat
    BY <1>4, <2>1
  <2> HIDE DEF live
  <2>3. Len(live) < Limit(k)
    BY <1>5, <2>2, SMT
  <2> QED BY <2>1, <2>3
<1> DEFINE l == log[k]
           l1 == Append(l, now)
           gone == Len(l) - Len(live)
<1>8. /\ l1 \in Seq(Nat) /\ Len(l1) = Len(l) + 1
      /\ \A i \in 1 .. Len(l) : l1[i] = l[i]
      /\ l1[Len(l) + 1] = now
  BY <1>3, <1>7, AppendProps
<1>9. /\ Len(l) \in Nat /\ Len(live) \in Nat
      /\ Len(l) <= Limit(k) + 1 /\ Len(live) <= Len(l)
  <2>1. Len(l) \in Nat /\ Len(live) \in Nat
    BY <1>7
  <2>2. Len(l) <= Limit(k) + 1 /\ Len(live) <= Len(l)
    BY <1>3 DEF Kept
  <2> QED BY <2>1, <2>2
<1>10. CASE Len(l) <= Limit(k)
  <2>1. log'[k] = Drop(l1, 0)
    BY <1>4, <1>6, <1>9, <1>10, SMT
  <2>2. 0 \in 0 .. Len(l1)
    BY <1>8, <1>9, SMT
  <2>3. Len(Drop(l1, 0)) = Len(l1) - 0
    BY <1>8, <2>2, DropProps
  <2>4. Len(log'[k]) # Len(l)
    BY <1>8, <1>9, <2>1, <2>3, SMT
  <2> QED BY <2>4
<1>11. CASE Len(l) > Limit(k)
  <2>1. log'[k] = Drop(l1, 1) /\ 1 \in 0 .. Len(l1)
    BY <1>6, <1>8, <1>9, <1>11, SMT
  <2>2. \A i \in 1 .. Len(l1) - 1 : log'[k][i] = l1[1 + i]
    BY <1>8, <2>1, DropProps, ZenonT(60)
  <2>3. gone \in 1 .. Len(l) /\ gone \in 1 .. Len(l1) - 1
    <3>1. /\ Len(l1) = Len(l) + 1 /\ Len(live) < Limit(k)
          /\ Limit(k) \in Nat /\ Len(l) \in Nat /\ Len(live) \in Nat
      BY <1>4, <1>7, <1>8, <1>9
    <3> HIDE DEF l, l1, live
    <3> QED BY <1>11, <3>1, SMT
  <2>4. l[gone] \in Nat /\ l[gone] <= now - Window(k)
    <3>1. gone \in 1 .. Len(l) - Len(live)
      BY <2>3, SMT
    <3>2. l[gone] \in Nat
      BY <1>7, <2>3, ElementOfSeq
    <3> QED BY <1>3, <3>1, <3>2 DEF Kept
  <2>5. log'[k][gone] = l1[gone + 1]
    <3>1. gone \in Int /\ 1 + gone = gone + 1
      <4> HIDE DEF l, live
      <4> QED BY <1>9, SMT
    <3>2. log'[k][gone] = l1[1 + gone]
      BY <2>2, <2>3
    <3> QED BY <3>1, <3>2
  <2>6. l1[gone + 1] > now - Window(k)
    <3>1. CASE Len(live) = 0
      <4>1. gone + 1 = Len(l) + 1
        BY <1>9, <3>1, SMT
      <4>2. now > now - Window(k)
        BY <1>3, <1>4, SMT
      <4> QED BY <1>8, <4>1, <4>2
    <3>2. CASE Len(live) # 0
      <4>1. /\ 1 \in 1 .. Len(live) /\ gone + 1 \in 1 .. Len(l)
            /\ 1 \in 1 .. Len(hits[k]) - n /\ n < Len(hits[k])
        <5>1. Len(hits[k]) \in Nat /\ n \in Nat /\ Len(live) = Len(hits[k]) - n
          BY <1>3, <1>4, SMT
        <5> HIDE DEF l, live
        <5> QED BY <1>9, <3>2, <5>1, SMT
      <4>2. live[1] = l[gone + 1]
        BY <1>3, <4>1 DEF Kept
      <4>3. live[1] = hits[k][n + 1]
        BY <1>4, <4>1, DropProps
      <4>4. hits[k][n + 1] > now - Window(k)
        BY <1>1, <4>1 DEF Leaving
      <4>5. l1[gone + 1] = l[gone + 1]
        BY <1>8, <4>1
      <4> QED BY <4>2, <4>3, <4>4, <4>5
    <3> QED BY <3>1, <3>2
  <2>7. now \in Nat /\ Window(k) \in Nat
    BY <1>3, <1>4
  <2> HIDE DEF l, l1, gone, live, now
  <2>8. l1[gone + 1] # l[gone]
    BY <2>4, <2>6, <2>7, SMT
  <2> QED BY <2>5, <2>8 DEF l
<1> QED BY <1>9, <1>4, <1>10, <1>11, SMT

\* The Retry-After of check(): a client that waits as long as it was told to is
\* let through, unless a hit of the same key was let through meanwhile.
THEOREM RetryAfterHolds ==
    ASSUME OneThread
    PROVE  Spec => RetryAfterSuffices
<1> DEFINE A == \A t \in Threads, k \in Keys :
                  /\ call[t].at = "lock" /\ k = <<call[t].scope, call[t].client>>
                  /\ promise[k] # Never /\ call[t].now >= promise[k]
                  /\ call'[t] # call[t]
                  => log'[k] # log[k]
<1>1. Inv /\ [Next]_vars => [A]_vars
  <2> SUFFICES ASSUME Inv, Next, NEW t \in Threads, NEW k \in Keys,
                      call[t].at = "lock",
                      k = <<call[t].scope, call[t].client>>,
                      promise[k] # Never, call[t].now >= promise[k],
                      call'[t] # call[t]
               PROVE  log'[k] # log[k]
    BY DEF A
  <2>1. ASSUME Tick PROVE FALSE
    BY <2>1 DEF Tick
  <2>2. ASSUME NEW u \in Threads, Arrive(u) PROVE FALSE
    BY <2>2 DEF Arrive, OneThread
  <2>3. ASSUME NEW u \in Threads, ReadClock(u) PROVE FALSE
    BY <2>3 DEF ReadClock, OneThread
  <2>4. ASSUME NEW u \in Threads, Check(u) PROVE log'[k] # log[k]
    <3>1. u = t
      BY DEF OneThread
    <3> QED BY <2>4, <3>1, PromiseKept
  <2> QED BY <2>1, <2>2, <2>3, <2>4 DEF Next
<1>2. Spec => []Inv
  BY Invariance
<1> QED BY <1>1, <1>2, PTL DEF Spec, RetryAfterSuffices
=============================================================================
