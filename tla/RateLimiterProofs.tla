------------------------- MODULE RateLimiterProofs -------------------------
(***************************************************************************)
(* The limiter neither lets too many calls through nor locks anybody out   *)
(* without cause, for every limit, window and number of concurrent calls.  *)
(* Both bounds rest on one invariant of the deque: it is sorted by the     *)
(* time the calls were decided, which is never before the time they read.  *)
(***************************************************************************)
EXTENDS RateLimiter, FiniteSetTheorems, TLAPS

(* What the deque of client c holds: allowed calls of that client, none    *)
(* decided before it read the clock ...                                    *)
Entry(c, b) ==
  /\ b \in Attempt
  /\ phase[b] = "allowed" /\ client[b] = c
  /\ moment[b] <= decided[b] /\ decided[b] <= now

(* ... each once, in the order in which they were decided.                 *)
Ordered(h) ==
  \A i, j \in 1..Len(h) : i < j =>
    h[i] # h[j] /\ decided[h[i]] <= decided[h[j]]

DequeSorted ==
  \A c \in Client :
    /\ \A i \in 1..Len(hits[c]) : Entry(c, hits[c][i])
    /\ Ordered(hits[c])

(* A call that is recent is still in its deque.                            *)
RecentKept ==
  \A a \in Attempt :
    phase[a] = "allowed" /\ moment[a] > now - Window =>
      \E i \in 1..Len(hits[client[a]]) : hits[client[a]][i] = a

ClockRead == \A a \in Attempt : moment[a] <= now

LimiterInv == TypeOK /\ ClockRead /\ DequeSorted /\ RecentKept

(* A deque h that lost its first n calls, and then perhaps took call a.    *)
LEMMA RestOfDeque ==
  ASSUME NEW h \in Seq(Attempt), NEW n \in 0..Len(h)
  PROVE  /\ Rest(h, n) \in Seq(Attempt)
         /\ Len(Rest(h, n)) = Len(h) - n
         /\ \A i \in 1..Len(Rest(h, n)) :
              n + i \in 1..Len(h) /\ Rest(h, n)[i] = h[n + i]
         /\ \A k \in 1..Len(h) : k > n =>
              k - n \in 1..Len(Rest(h, n)) /\ Rest(h, n)[k - n] = h[k]
<1>1. /\ Rest(h, n) \in Seq(Attempt)
      /\ Len(Rest(h, n)) = Len(h) - n
      /\ \A i \in 1..(Len(h) - n) : Rest(h, n)[i] = h[n + i]
  BY DEF Rest
<1>2. Len(h) \in Nat
  OBVIOUS
<1> QED
  BY <1>1, <1>2

LEMMA DequeTaken ==
  ASSUME NEW h \in Seq(Attempt), NEW n \in 0..Len(h), NEW a \in Attempt,
         NEW g \in {Append(Rest(h, n), a)}
  PROVE  /\ g \in Seq(Attempt)
         /\ Len(g) = Len(h) - n + 1
         /\ g[Len(g)] = a
         /\ \A i \in 1..Len(g) : i # Len(g) =>
              n + i \in 1..Len(h) /\ g[i] = h[n + i]
         /\ \A k \in 1..Len(h) : k > n =>
              k - n \in 1..Len(g) /\ g[k - n] = h[k]
<1> DEFINE r == Rest(h, n)
<1>1. /\ r \in Seq(Attempt)
      /\ Len(r) = Len(h) - n
      /\ \A i \in 1..Len(r) : n + i \in 1..Len(h) /\ r[i] = h[n + i]
      /\ \A k \in 1..Len(h) : k > n => k - n \in 1..Len(r) /\ r[k - n] = h[k]
  BY RestOfDeque
<1>2. Len(h) \in Nat /\ Len(r) \in Nat
  BY <1>1
<1> HIDE DEF r
<1>3. /\ Append(r, a) \in Seq(Attempt)
      /\ Len(Append(r, a)) = Len(r) + 1
      /\ Append(r, a)[Len(r) + 1] = a
      /\ \A i \in 1..Len(r) : Append(r, a)[i] = r[i]
  BY <1>1
<1>4. g = Append(r, a)
  BY DEF r
<1> QED
  BY <1>1, <1>2, <1>3, <1>4

LEMMA InitLimiter == Init => LimiterInv
BY RateLimiterAssumption
DEF Init, LimiterInv, TypeOK, Phase, ClockRead, DequeSorted, RecentKept, Ordered

(* The front of a deque expires without losing a recent call.              *)
LEMMA RecentRemain ==
  ASSUME LimiterInv, NEW a \in Attempt,
         NEW h \in Seq(Attempt), NEW n \in 0..Len(h),
         Popped(h, moment[a] - Window, n),
         NEW i \in 1..Len(h), moment[h[i]] > now - Window
  PROVE  i > n
<1>1. moment[a] \in Nat /\ moment[a] <= now /\ now \in Nat /\ Window \in Nat
  BY RateLimiterAssumption DEF LimiterInv, TypeOK, ClockRead
<1>2. SUFFICES ASSUME i \in 1..n PROVE FALSE
  BY Len(h) \in Nat
<1>3. h[i] \in Attempt /\ moment[h[i]] \in Nat
  BY DEF LimiterInv, TypeOK
<1>4. moment[h[i]] <= moment[a] - Window
  BY <1>2 DEF Popped, Expired
<1> QED
  BY <1>1, <1>3, <1>4

LEMMA AllowLimiter ==
  ASSUME LimiterInv, NEW a \in Attempt, Allow(a)
  PROVE  LimiterInv'
<1>1. TypeOK /\ ClockRead /\ DequeSorted /\ RecentKept
  BY DEF LimiterInv
<1>2. PICK c \in Client, h \in Seq(Attempt) : c = client[a] /\ h = hits[c]
  BY <1>1 DEF TypeOK
<1>pop. PICK n \in 0..Len(h) :
          /\ Popped(h, moment[a] - Window, n)
          /\ ~Full(Rest(h, n))
          /\ hits' = [hits EXCEPT ![c] = Append(Rest(h, n), a)]
  BY <1>2 DEF Allow
<1>3. PICK g \in {Append(Rest(h, n), a)} :
        /\ Popped(h, moment[a] - Window, n)
        /\ ~Full(Rest(h, n))
        /\ g = Append(Rest(h, n), a)
        /\ hits' = [hits EXCEPT ![c] = g]
  BY <1>pop
<1>4. /\ g \in Seq(Attempt)
      /\ Len(g) = Len(h) - n + 1
      /\ g[Len(g)] = a
      /\ \A i \in 1..Len(g) : i # Len(g) =>
           n + i \in 1..Len(h) /\ g[i] = h[n + i]
      /\ \A k \in 1..Len(h) : k > n =>
           k - n \in 1..Len(g) /\ g[k - n] = h[k]
  <2>1. g \in {Append(Rest(h, n), a)}
    BY <1>3
  <2> QED
    BY ONLY <2>1, DequeTaken, a \in Attempt, h \in Seq(Attempt), n \in 0..Len(h)
<1>5. /\ hits' \in [Client -> Seq(Attempt)]
      /\ hits'[c] = g
      /\ \A d \in Client \ {c} : hits'[d] = hits[d]
  BY <1>1, <1>3, <1>4 DEF TypeOK
<1>6. /\ phase[a] = "waiting"
      /\ phase'[a] = "allowed" /\ decided'[a] = now
      /\ \A b \in Attempt \ {a} :
           phase'[b] = phase[b] /\ decided'[b] = decided[b]
      /\ phase' \in [Attempt -> Phase] /\ decided' \in [Attempt -> Nat]
      /\ now' = now /\ client' = client /\ moment' = moment
  BY <1>1 DEF Allow, TypeOK, Phase
<1>7. TypeOK' /\ ClockRead'
  <2>1. Len(g) <= MaxAttempts
    <3>1. Len(Rest(h, n)) = Len(h) - n
      BY RestOfDeque
    <3>2. ~(Len(h) - n >= MaxAttempts)
      BY <1>3, <3>1 DEF Full
    <3>3. Len(h) \in Nat /\ MaxAttempts \in Nat
      BY RateLimiterAssumption
    <3> QED
      BY <1>4, <3>2, <3>3
  <2>2. \A d \in Client : Len(hits'[d]) <= MaxAttempts
    BY <1>1, <1>5, <2>1 DEF TypeOK
  <2> QED
    BY <1>1, <1>5, <1>6, <2>2 DEF TypeOK, ClockRead
<1>8. DequeSorted'
  <2>1. \A d \in Client : \A b : Entry(d, b) => b # a /\ Entry(d, b)'
    BY <1>6 DEF Entry
  <2>2. Entry(c, a)'
    BY <1>1, <1>2, <1>6 DEF Entry, ClockRead, TypeOK
  <2>3. ASSUME NEW d \in Client \ {c}
        PROVE  /\ \A i \in 1..Len(hits'[d]) : Entry(d, hits[d][i])'
               /\ Ordered(hits[d])'
    <3>1. /\ hits'[d] = hits[d] /\ Ordered(hits[d])
          /\ \A i \in 1..Len(hits[d]) : Entry(d, hits[d][i])
      BY <1>1, <1>5 DEF DequeSorted
    <3>2. \A i \in 1..Len(hits[d]) : hits[d][i] \in Attempt \ {a}
      BY <2>1, <3>1 DEF Entry
    <3>3. \A i, j \in 1..Len(hits[d]) : i < j =>
            /\ hits[d][i] # hits[d][j]
            /\ decided'[hits[d][i]] <= decided'[hits[d][j]]
      <4> SUFFICES ASSUME NEW i \in 1..Len(hits[d]), NEW j \in 1..Len(hits[d]),
                          i < j
                   PROVE  /\ hits[d][i] # hits[d][j]
                          /\ decided'[hits[d][i]] <= decided'[hits[d][j]]
        OBVIOUS
      <4>1. /\ hits[d][i] # hits[d][j]
            /\ decided[hits[d][i]] <= decided[hits[d][j]]
        BY <3>1 DEF Ordered
      <4>2. /\ decided'[hits[d][i]] = decided[hits[d][i]]
            /\ decided'[hits[d][j]] = decided[hits[d][j]]
        BY <1>6, <3>2
      <4> QED
        BY <4>1, <4>2
    <3>4. Ordered(hits[d])'
      BY <3>1, <3>3 DEF Ordered
    <3> QED
      BY <2>1, <3>1, <3>4 DEF Entry
  <2>4. \A k \in 1..Len(h) : Entry(c, h[k]) /\ h[k] # a /\ h[k] \in Attempt
    BY <1>1, <1>2, <2>1 DEF DequeSorted, Entry
  <2>5. \A i \in 1..Len(g) : Entry(c, g[i])'
    BY <1>4, <2>1, <2>2, <2>4
  <2>6. ASSUME NEW i \in 1..Len(g), NEW j \in 1..Len(g), i < j
        PROVE  g[i] # g[j] /\ decided'[g[i]] <= decided'[g[j]]
    <3>1. /\ n + i \in 1..Len(h) /\ g[i] = h[n + i]
          /\ h[n + i] # a /\ h[n + i] \in Attempt
          /\ decided[h[n + i]] <= now
      <4>1. i # Len(g)
        BY <1>4, <2>6
      <4> QED
        BY <1>4, <2>4, <4>1 DEF Entry
    <3>2. CASE j = Len(g)
      BY <1>4, <1>6, <3>1, <3>2
    <3>3. CASE j # Len(g)
      <4>1. /\ n + j \in 1..Len(h) /\ g[j] = h[n + j]
            /\ h[n + j] # a /\ h[n + j] \in Attempt
        BY <1>4, <2>4, <3>3
      <4>2. n + i < n + j
        BY <1>4, <2>6
      <4>3. Ordered(h)
        BY <1>1, <1>2 DEF DequeSorted
      <4>4. h[n + i] # h[n + j] /\ decided[h[n + i]] <= decided[h[n + j]]
        BY <3>1, <4>1, <4>2, <4>3 DEF Ordered
      <4> QED
        BY <1>6, <3>1, <4>1, <4>4
    <3> QED
      BY <3>2, <3>3
  <2>7. \A i, j \in 1..Len(g) : i < j =>
          g[i] # g[j] /\ decided'[g[i]] <= decided'[g[j]]
    BY <2>6
  <2>8. Ordered(hits[c])'
    BY <1>5, <2>7 DEF Ordered
  <2> QED
    BY <1>5, <2>3, <2>5, <2>8 DEF DequeSorted, Entry
<1>9. RecentKept'
  <2> SUFFICES ASSUME NEW b \in Attempt, phase'[b] = "allowed",
                      moment[b] > now - Window
               PROVE  \E i \in 1..Len(hits'[client[b]]) : hits'[client[b]][i] = b
    BY <1>6 DEF RecentKept
  <2>1. CASE b = a
    <3>1. Len(g) \in 1..Len(g)
      BY <1>4
    <3> QED
      BY <1>2, <1>4, <1>5, <2>1, <3>1
  <2>2. CASE b # a
    <3>1. PICK i \in 1..Len(hits[client[b]]) : hits[client[b]][i] = b
      BY <1>1, <1>6, <2>2 DEF RecentKept
    <3>2. CASE client[b] # c
      <4>1. client[b] \in Client
        BY <1>1 DEF TypeOK
      <4> QED
        BY <1>5, <3>1, <3>2, <4>1
    <3>3. CASE client[b] = c
      <4>1. i \in 1..Len(h) /\ h[i] = b
        BY <1>2, <3>1, <3>3
      <4>2. i > n
        BY <1>3, <4>1, RecentRemain
      <4>3. i - n \in 1..Len(g) /\ g[i - n] = b
        BY <1>4, <4>1, <4>2
      <4> QED
        BY <1>5, <3>3, <4>3
    <3> QED
      BY <3>2, <3>3
  <2> QED
    BY <2>1, <2>2
<1> QED
  BY <1>7, <1>8, <1>9 DEF LimiterInv
LEMMA DenyLimiter ==
  ASSUME LimiterInv, NEW a \in Attempt, Deny(a)
  PROVE  LimiterInv'
<1>1. TypeOK /\ ClockRead /\ DequeSorted /\ RecentKept
  BY DEF LimiterInv
<1>2. PICK c \in Client, h \in Seq(Attempt) : c = client[a] /\ h = hits[c]
  BY <1>1 DEF TypeOK
<1>pop. PICK n \in 0..Len(h) :
          /\ Popped(h, moment[a] - Window, n)
          /\ hits' = [hits EXCEPT ![c] = Rest(h, n)]
  BY <1>2 DEF Deny
<1>3. PICK g \in {Rest(h, n)} :
        /\ Popped(h, moment[a] - Window, n)
        /\ g = Rest(h, n)
        /\ hits' = [hits EXCEPT ![c] = g]
  BY <1>pop
<1>4. /\ g \in Seq(Attempt)
      /\ Len(g) = Len(h) - n
      /\ \A i \in 1..Len(g) : n + i \in 1..Len(h) /\ g[i] = h[n + i]
      /\ \A k \in 1..Len(h) : k > n =>
           k - n \in 1..Len(g) /\ g[k - n] = h[k]
  <2>1. g = Rest(h, n)
    BY <1>3
  <2> QED
    BY <2>1, RestOfDeque
<1>5. /\ hits' \in [Client -> Seq(Attempt)]
      /\ hits'[c] = g
      /\ \A d \in Client \ {c} : hits'[d] = hits[d]
  BY <1>1, <1>3, <1>4 DEF TypeOK
<1>6. /\ phase[a] = "waiting" /\ phase'[a] = "denied"
      /\ \A b \in Attempt \ {a} : phase'[b] = phase[b]
      /\ phase' \in [Attempt -> Phase]
      /\ now' = now /\ client' = client /\ moment' = moment
      /\ decided' = decided
  BY <1>1 DEF Deny, TypeOK, Phase
<1>7. TypeOK' /\ ClockRead'
  <2>1. Len(g) <= MaxAttempts
    <3>1. Len(h) \in Nat /\ MaxAttempts \in Nat /\ Len(h) <= MaxAttempts
      BY <1>1, <1>2, RateLimiterAssumption DEF TypeOK
    <3> QED
      BY <1>4, <3>1
  <2>2. \A d \in Client : Len(hits'[d]) <= MaxAttempts
    BY <1>1, <1>5, <2>1 DEF TypeOK
  <2> QED
    BY <1>1, <1>5, <1>6, <2>2 DEF TypeOK, ClockRead
<1>8. DequeSorted'
  <2>1. \A d \in Client : \A b : Entry(d, b) => Entry(d, b)'
    BY <1>6 DEF Entry
  <2>2. \A k \in 1..Len(h) : Entry(c, h[k])
    BY <1>1, <1>2 DEF DequeSorted
  <2>3. \A i \in 1..Len(g) : Entry(c, g[i])'
    BY <1>4, <2>1, <2>2
  <2>4. ASSUME NEW i \in 1..Len(g), NEW j \in 1..Len(g), i < j
        PROVE  g[i] # g[j] /\ decided[g[i]] <= decided[g[j]]
    <3>1. /\ n + i \in 1..Len(h) /\ g[i] = h[n + i]
          /\ n + j \in 1..Len(h) /\ g[j] = h[n + j]
          /\ n + i < n + j
      BY <1>4, <2>4
    <3>2. Ordered(h)
      BY <1>1, <1>2 DEF DequeSorted
    <3>3. h[n + i] # h[n + j] /\ decided[h[n + i]] <= decided[h[n + j]]
      BY <3>1, <3>2 DEF Ordered
    <3> QED
      BY <3>1, <3>3
  <2>5. Ordered(hits[c])'
    BY <1>5, <1>6, <2>4 DEF Ordered
  <2>6. ASSUME NEW d \in Client \ {c}
        PROVE  /\ \A i \in 1..Len(hits'[d]) : Entry(d, hits[d][i])'
               /\ Ordered(hits[d])'
    <3>1. /\ hits'[d] = hits[d] /\ Ordered(hits[d])
          /\ \A i \in 1..Len(hits[d]) : Entry(d, hits[d][i])
      BY <1>1, <1>5 DEF DequeSorted
    <3>2. \A i \in 1..Len(hits'[d]) : Entry(d, hits[d][i])'
      BY <2>1, <3>1 DEF Entry
    <3>3. Ordered(hits[d])'
      BY <1>6, <3>1 DEF Ordered
    <3> QED
      BY <3>2, <3>3
  <2> QED
    BY <1>5, <2>3, <2>5, <2>6 DEF DequeSorted, Entry
<1>9. RecentKept'
  <2> SUFFICES ASSUME NEW b \in Attempt, phase'[b] = "allowed",
                      moment[b] > now - Window
               PROVE  \E i \in 1..Len(hits'[client[b]]) : hits'[client[b]][i] = b
    BY <1>6 DEF RecentKept
  <2>1. PICK i \in 1..Len(hits[client[b]]) : hits[client[b]][i] = b
    BY <1>1, <1>6 DEF RecentKept
  <2>2. CASE client[b] # c
    <3>1. client[b] \in Client
      BY <1>1 DEF TypeOK
    <3> QED
      BY <1>5, <2>1, <2>2, <3>1
  <2>3. CASE client[b] = c
    <3>1. i \in 1..Len(h) /\ h[i] = b
      BY <1>2, <2>1, <2>3
    <3>2. i > n
      BY <1>3, <3>1, RecentRemain
    <3>3. i - n \in 1..Len(g) /\ g[i - n] = b
      BY <1>4, <3>1, <3>2
    <3> QED
      BY <1>5, <2>3, <3>3
  <2> QED
    BY <2>2, <2>3
<1> QED
  BY <1>7, <1>8, <1>9 DEF LimiterInv

LEMMA ArriveLimiter ==
  ASSUME LimiterInv, NEW a \in Attempt, Arrive(a)
  PROVE  LimiterInv'
<1>1. TypeOK /\ ClockRead /\ DequeSorted /\ RecentKept
  BY DEF LimiterInv
<1>2. /\ phase[a] = "new" /\ phase'[a] = "waiting" /\ moment'[a] = now
      /\ \A b \in Attempt \ {a} : phase'[b] = phase[b] /\ moment'[b] = moment[b]
      /\ phase' \in [Attempt -> Phase] /\ moment' \in [Attempt -> Nat]
      /\ now' = now /\ client' = client /\ decided' = decided /\ hits' = hits
  BY <1>1 DEF Arrive, TypeOK, Phase
<1>3. TypeOK' /\ ClockRead'
  <2>1. now <= now
    BY <1>1 DEF TypeOK
  <2>2. ClockRead'
    BY <1>1, <1>2, <2>1 DEF ClockRead
  <2> QED
    BY <1>1, <1>2, <2>2 DEF TypeOK
<1>4. DequeSorted'
  <2>1. \A c \in Client : \A b : Entry(c, b) => Entry(c, b)'
    BY <1>2 DEF Entry
  <2>2. ASSUME NEW c \in Client
        PROVE  /\ \A i \in 1..Len(hits[c]) : Entry(c, hits[c][i])'
               /\ Ordered(hits[c])'
    BY <1>1, <1>2, <2>1 DEF DequeSorted, Ordered, Entry
  <2> QED
    BY <1>2, <2>2 DEF DequeSorted, Entry
<1>5. RecentKept'
  BY <1>1, <1>2 DEF RecentKept
<1> QED
  BY <1>3, <1>4, <1>5 DEF LimiterInv

LEMMA TickLimiter == LimiterInv /\ Tick => LimiterInv'
<1> SUFFICES ASSUME LimiterInv, Tick PROVE LimiterInv'
  OBVIOUS
<1>1. TypeOK /\ ClockRead /\ DequeSorted /\ RecentKept
  BY DEF LimiterInv
<1>2. /\ now' = now + 1 /\ now \in Nat /\ Window \in Nat
      /\ phase' = phase /\ client' = client /\ moment' = moment
      /\ decided' = decided /\ hits' = hits
  BY <1>1, RateLimiterAssumption DEF Tick, TypeOK
<1>3. TypeOK' /\ ClockRead'
  BY <1>1, <1>2 DEF TypeOK, ClockRead
<1>4. DequeSorted'
  <2>1. \A c \in Client : \A b : Entry(c, b) => Entry(c, b)'
    BY <1>1, <1>2 DEF Entry, TypeOK
  <2>2. ASSUME NEW c \in Client
        PROVE  /\ \A i \in 1..Len(hits[c]) : Entry(c, hits[c][i])'
               /\ Ordered(hits[c])'
    BY <1>1, <1>2, <2>1 DEF DequeSorted, Ordered, Entry
  <2> QED
    BY <1>2, <2>2 DEF DequeSorted, Entry
<1>5. RecentKept'
  <2>1. \A a \in Attempt : moment[a] \in Nat
    BY <1>1 DEF TypeOK
  <2> QED
    BY <1>1, <1>2, <2>1 DEF RecentKept
<1> QED
  BY <1>3, <1>4, <1>5 DEF LimiterInv

LEMMA ResetLimiter == LimiterInv /\ Reset => LimiterInv'
<1> SUFFICES ASSUME LimiterInv, Reset PROVE LimiterInv'
  OBVIOUS
<1>1. TypeOK /\ ClockRead
  BY DEF LimiterInv
<1>2. /\ hits' = [c \in Client |-> <<>>]
      /\ \A a \in Attempt : phase'[a] # "allowed"
      /\ phase' \in [Attempt -> Phase]
      /\ now' = now /\ client' = client /\ moment' = moment
      /\ decided' = decided
  BY <1>1 DEF Reset, TypeOK, Phase
<1>3. TypeOK' /\ ClockRead'
  BY <1>1, <1>2, RateLimiterAssumption DEF TypeOK, ClockRead
<1>4. DequeSorted'
  BY <1>2 DEF DequeSorted, Ordered, Entry
<1>5. RecentKept'
  BY <1>2 DEF RecentKept
<1> QED
  BY <1>3, <1>4, <1>5 DEF LimiterInv

LEMMA NextLimiter == LimiterInv /\ [Next]_vars => LimiterInv'
<1> SUFFICES ASSUME LimiterInv, [Next]_vars PROVE LimiterInv'
  OBVIOUS
<1>1. CASE Next
  BY <1>1, TickLimiter, ArriveLimiter, AllowLimiter, DenyLimiter, ResetLimiter
  DEF Next
<1>2. CASE UNCHANGED vars
  BY <1>2 DEF vars, LimiterInv, TypeOK, ClockRead, DequeSorted, RecentKept,
              Entry, Ordered
<1> QED
  BY <1>1, <1>2

(* The deques are always as the two bounds need them (ratelimit.py:19-33). *)
THEOREM LimiterInvariant == Spec => []LimiterInv
BY InitLimiter, NextLimiter, PTL DEF Spec

(* The limiter stays type-correct and no deque grows beyond the limit      *)
(* (ratelimit.py:26-28).                                                   *)
THEOREM LimiterTypeCorrect == Spec => []TypeOK
<1>1. LimiterInv => TypeOK
  BY DEF LimiterInv
<1> QED
  BY LimiterInvariant, <1>1, PTL
-----------------------------------------------------------------------------
(* The calls in a deque are no more than its length.                       *)
LEMMA DequeHolds ==
  ASSUME NEW h \in Seq(Attempt), NEW B \in SUBSET Attempt,
         \A b \in B : \E i \in 1..Len(h) : h[i] = b
  PROVE  IsFiniteSet(B) /\ Cardinality(B) <= Len(h)
<1> DEFINE I == 1..Len(h)
           T == {h[i] : i \in I}
           f == [i \in I |-> h[i]]
<1>1. IsFiniteSet(I) /\ Cardinality(I) = Len(h) /\ Len(h) \in Nat
  <2>1. Len(h) \in Nat
    OBVIOUS
  <2> QED
    BY <2>1, FS_Interval
<1>2. f \in Surjection(I, T)
  BY DEF Surjection
<1>3. IsFiniteSet(T) /\ Cardinality(T) <= Cardinality(I)
  BY <1>1, <1>2, FS_Surjection
<1>4. B \in SUBSET T
  OBVIOUS
<1>5. IsFiniteSet(B) /\ Cardinality(B) <= Cardinality(T)
  BY <1>3, <1>4, FS_Subset
<1>6. Cardinality(B) \in Nat /\ Cardinality(T) \in Nat
  BY <1>3, <1>5, FS_CardinalityType
<1> QED
  BY <1>1, <1>3, <1>5, <1>6

(* For every limit, window and number of threads, at no time have more     *)
(* than max_attempts recent calls of a client been allowed                 *)
(* (ratelimit.py:20-29).                                                   *)
THEOREM NeverOverLimit == Spec => []WithinLimit
<1>1. LimiterInv => WithinLimit
  <2> SUFFICES ASSUME LimiterInv, NEW c \in Client
               PROVE  Cardinality(Recent(c)) <= MaxAttempts
    BY DEF WithinLimit
  <2>1. PICK h \in Seq(Attempt) : h = hits[c] /\ Len(h) <= MaxAttempts
    BY DEF LimiterInv, TypeOK
  <2>2. \A b \in Recent(c) : \E i \in 1..Len(h) : h[i] = b
    BY <2>1 DEF LimiterInv, RecentKept, Recent
  <2>3. Recent(c) \in SUBSET Attempt
    BY DEF Recent
  <2>4. IsFiniteSet(Recent(c)) /\ Cardinality(Recent(c)) <= Len(h)
    BY <2>2, <2>3, DequeHolds
  <2>5. Cardinality(Recent(c)) \in Nat
    BY <2>4, FS_CardinalityType
  <2> QED
    BY <2>1, <2>4, <2>5, RateLimiterAssumption
<1> QED
  BY LimiterInvariant, <1>1, PTL

LEMMA DenialStep ==
  ASSUME LimiterInv, NEW a \in Attempt, Deny(a)
  PROVE  Cardinality(Causes(a)) >= MaxAttempts
<1>1. TypeOK /\ ClockRead /\ DequeSorted
  BY DEF LimiterInv
<1>2. PICK c \in Client, h \in Seq(Attempt) : c = client[a] /\ h = hits[c]
  BY <1>1 DEF TypeOK
<1>pop. PICK n \in 0..Len(h) :
          Popped(h, moment[a] - Window, n) /\ Full(Rest(h, n))
  BY <1>2 DEF Deny
<1>3. PICK g \in {Rest(h, n)} :
        /\ Popped(h, moment[a] - Window, n)
        /\ g = Rest(h, n) /\ Full(g)
  BY <1>pop
<1>4. /\ g \in Seq(Attempt) /\ Len(g) \in Nat
      /\ Len(g) = Len(h) - n
      /\ \A i \in 1..Len(g) : n + i \in 1..Len(h) /\ g[i] = h[n + i]
  <2>1. g = Rest(h, n)
    BY <1>3
  <2> QED
    BY <2>1, RestOfDeque
<1>5. /\ \A i \in 1..Len(h) : Entry(c, h[i])
      /\ Ordered(h)
  BY <1>1, <1>2 DEF DequeSorted
<1>6. \A i \in 1..Len(g) : g[i] \in Causes(a)
  <2> SUFFICES ASSUME NEW i \in 1..Len(g) PROVE g[i] \in Causes(a)
    OBVIOUS
  <2>1. /\ n + i \in 1..Len(h) /\ g[i] = h[n + i] /\ Entry(c, h[n + i])
        /\ n + 1 \in 1..Len(h) /\ n < Len(h) /\ Entry(c, h[n + 1])
    BY <1>4, <1>5
  <2>2. moment[h[n + 1]] > moment[a] - Window
    <3>1. ~(moment[h[n + 1]] <= moment[a] - Window)
      BY <1>3, <2>1 DEF Popped, Expired
    <3>2. moment[h[n + 1]] \in Nat /\ moment[a] \in Nat /\ Window \in Nat
      BY <1>1, <2>1, RateLimiterAssumption DEF TypeOK, Entry
    <3> QED
      BY <3>1, <3>2
  <2>3. decided[h[n + 1]] <= decided[h[n + i]]
    <3>1. CASE i = 1
      BY <1>1, <2>1, <3>1 DEF TypeOK, Entry
    <3>2. CASE i # 1
      <4>1. n + 1 < n + i
        BY <3>2
      <4> QED
        BY <1>5, <2>1, <4>1 DEF Ordered
    <3> QED
      BY <3>1, <3>2
  <2>4. decided[h[n + i]] > moment[a] - Window
    <3>1. /\ moment[h[n + 1]] \in Nat /\ decided[h[n + 1]] \in Nat
          /\ decided[h[n + i]] \in Nat /\ moment[a] \in Nat /\ Window \in Nat
      BY <1>1, <2>1, RateLimiterAssumption DEF TypeOK, Entry
    <3>2. moment[h[n + 1]] <= decided[h[n + 1]]
      BY <2>1 DEF Entry
    <3>3. \A p, q, r \in Nat, z \in Int : p > z /\ p <= q /\ q <= r => r > z
      OBVIOUS
    <3>4. moment[a] - Window \in Int
      BY <3>1
    <3> QED
      BY ONLY <2>2, <2>3, <3>1, <3>2, <3>3, <3>4
  <2> QED
    BY <1>2, <2>1, <2>4 DEF Causes, Entry
<1>7. \A i, j \in 1..Len(g) : i # j => g[i] # g[j]
  <2> SUFFICES ASSUME NEW i \in 1..Len(g), NEW j \in 1..Len(g), i < j
               PROVE  g[i] # g[j]
    OBVIOUS
  <2>1. /\ n + i \in 1..Len(h) /\ g[i] = h[n + i]
        /\ n + j \in 1..Len(h) /\ g[j] = h[n + j]
        /\ n + i < n + j
    BY <1>4
  <2> QED
    BY <1>5, <2>1 DEF Ordered
<1> DEFINE I == 1..Len(g)
           f == [i \in I |-> g[i]]
<1>8. f \in Injection(I, Causes(a))
  BY <1>6, <1>7 DEF Injection, IsInjective
<1>9. IsFiniteSet(Causes(a))
  <2>1. Causes(a) \in SUBSET Attempt
    BY DEF Causes
  <2> QED
    BY <2>1, RateLimiterAssumption, FS_Subset
<1>10. Cardinality(I) = Len(g)
  BY <1>4, FS_Interval
<1>11. Cardinality(I) <= Cardinality(Causes(a))
  BY <1>8, <1>9, FS_Injection
<1>12. Cardinality(Causes(a)) \in Nat
  BY <1>9, FS_CardinalityType
<1>13. Len(g) >= MaxAttempts
  BY <1>3 DEF Full
<1> QED
  BY <1>4, <1>10, <1>11, <1>12, <1>13, RateLimiterAssumption

(* For every limit, window and number of threads, a denied call finds      *)
(* max_attempts allowed calls of its client in its window                  *)
(* (ratelimit.py:24-27).                                                   *)
THEOREM NobodyDeniedWithoutCause == Spec => DenialHasCause
<1>1. LimiterInv /\ [Next]_vars =>
        [\A a \in Attempt :
           phase[a] = "waiting" /\ phase'[a] = "denied"
             => Cardinality(Causes(a)) >= MaxAttempts]_vars
  <2> SUFFICES ASSUME LimiterInv, Next, NEW a \in Attempt,
                      phase[a] = "waiting", phase'[a] = "denied"
               PROVE  Cardinality(Causes(a)) >= MaxAttempts
    BY DEF vars
  <2>0. phase \in [Attempt -> Phase]
    BY DEF LimiterInv, TypeOK
  <2>1. ASSUME Tick PROVE FALSE
    BY <2>1 DEF Tick
  <2>2. ASSUME Reset PROVE FALSE
    BY <2>0, <2>2 DEF Reset
  <2>3. ASSUME NEW b \in Attempt, Arrive(b) PROVE FALSE
    BY <2>0, <2>3 DEF Arrive
  <2>4. ASSUME NEW b \in Attempt, Allow(b) PROVE FALSE
    <3>1. phase' = [phase EXCEPT ![b] = "allowed"]
      BY <2>4 DEF Allow
    <3> QED
      BY <2>0, <3>1
  <2>5. ASSUME NEW b \in Attempt, Deny(b)
        PROVE  Cardinality(Causes(a)) >= MaxAttempts
    <3>1. phase' = [phase EXCEPT ![b] = "denied"]
      BY <2>5 DEF Deny
    <3>2. b = a
      BY <2>0, <3>1
    <3> QED
      BY <2>5, <3>2, DenialStep
  <2> QED
    BY <2>1, <2>2, <2>3, <2>4, <2>5 DEF Next
<1> QED
  BY LimiterInvariant, <1>1, PTL DEF Spec, DenialHasCause
=============================================================================
