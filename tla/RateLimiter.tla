---------------------------- MODULE RateLimiter ----------------------------
(***************************************************************************)
(* The limiter of sign-in attempts (core/ratelimit.py).  A thread reads    *)
(* the clock and then waits for the lock, so attempts enter the deque of   *)
(* their client in another order than they read the clock.                 *)
(***************************************************************************)
EXTENDS Integers, Sequences, FiniteSets

CONSTANTS
  Attempt,      \* calls of allow, each made once
  Client,       \* client addresses
  MaxAttempts,  \* max_attempts
  Window,       \* window_seconds
  MaxTime       \* bound on the clock, for model checking

ASSUME RateLimiterAssumption ==
  /\ MaxAttempts \in Nat /\ Window \in Nat /\ MaxTime \in Nat
  /\ IsFiniteSet(Attempt) /\ Client # {}

VARIABLES
  now,      \* the monotonic clock
  phase,    \* how far each call is
  client,   \* the key of each call
  moment,   \* the clock as each call read it
  decided,  \* the clock when each allowed call held the lock
  hits      \* _hits: the calls in the deque of each client

vars == <<now, phase, client, moment, decided, hits>>

(* An allowed call that reset() made the limiter forget is "forgotten".    *)
Phase == {"new", "waiting", "allowed", "denied", "forgotten"}

TypeOK ==
  /\ now \in Nat
  /\ phase \in [Attempt -> Phase]
  /\ client \in [Attempt -> Client]
  /\ moment \in [Attempt -> Nat]
  /\ decided \in [Attempt -> Nat]
  /\ hits \in [Client -> Seq(Attempt)]
  /\ \A c \in Client : Len(hits[c]) <= MaxAttempts

Init ==
  /\ now = 0
  /\ phase = [a \in Attempt |-> "new"]
  /\ client \in [Attempt -> Client]
  /\ moment = [a \in Attempt |-> 0]
  /\ decided = [a \in Attempt |-> 0]
  /\ hits = [c \in Client |-> <<>>]

Tick ==
  /\ now < MaxTime
  /\ now' = now + 1
  /\ UNCHANGED <<phase, client, moment, decided, hits>>

(* allow reads the clock.                                                  *)
Arrive(a) ==
  /\ phase[a] = "new"
  /\ phase' = [phase EXCEPT ![a] = "waiting"]
  /\ moment' = [moment EXCEPT ![a] = now]
  /\ UNCHANGED <<now, client, decided, hits>>

(* A wrong comparison: hits[0] < cutoff.                                   *)
ExpiredLate(a, cutoff) == moment[a] < cutoff

Expired(a, cutoff) == moment[a] <= cutoff

(* The while loop takes n expired calls from the front of the deque.       *)
Popped(h, cutoff, n) ==
  /\ n \in 0..Len(h)
  /\ \A i \in 1..n : Expired(h[i], cutoff)
  /\ n < Len(h) => ~Expired(h[n + 1], cutoff)

Rest(h, n) == SubSeq(h, n + 1, Len(h))

(* A wrong comparison: one call too many.                                  *)
FullAbove(h) == Len(h) > MaxAttempts

Full(h) == Len(h) >= MaxAttempts

(* The body of the lock, once the clock has been read.                     *)
Allow(a) ==
  LET h == hits[client[a]] IN
  /\ phase[a] = "waiting"
  /\ \E n \in 0..Len(h) :
       /\ Popped(h, moment[a] - Window, n)
       /\ ~Full(Rest(h, n))
       /\ hits' = [hits EXCEPT ![client[a]] = Append(Rest(h, n), a)]
  /\ phase' = [phase EXCEPT ![a] = "allowed"]
  /\ decided' = [decided EXCEPT ![a] = now]
  /\ UNCHANGED <<now, client, moment>>

Deny(a) ==
  LET h == hits[client[a]] IN
  /\ phase[a] = "waiting"
  /\ \E n \in 0..Len(h) :
       /\ Popped(h, moment[a] - Window, n)
       /\ Full(Rest(h, n))
       /\ hits' = [hits EXCEPT ![client[a]] = Rest(h, n)]
  /\ phase' = [phase EXCEPT ![a] = "denied"]
  /\ UNCHANGED <<now, client, moment, decided>>

Reset ==
  /\ hits' = [c \in Client |-> <<>>]
  /\ phase' = [a \in Attempt |->
                 IF phase[a] = "allowed" THEN "forgotten" ELSE phase[a]]
  /\ UNCHANGED <<now, client, moment, decided>>

Next ==
  \/ Tick
  \/ \E a \in Attempt : Arrive(a) \/ Allow(a) \/ Deny(a)
  \/ Reset

Spec == Init /\ [][Next]_vars

-----------------------------------------------------------------------------
(* At no time have more than MaxAttempts calls of a client been allowed    *)
(* that read the clock within the last window, although the deque is not   *)
(* sorted by that reading (ratelimit.py:20-29).                            *)
Recent(c) ==
  {a \in Attempt : /\ phase[a] = "allowed" /\ client[a] = c
                   /\ moment[a] > now - Window}

WithinLimit ==
  \A c \in Client : Cardinality(Recent(c)) <= MaxAttempts

(* Nobody is locked out without cause: when a call is denied, MaxAttempts  *)
(* calls of the same client were allowed within the window before the time *)
(* it read, counted by when they were decided.                             *)
Causes(a) ==
  {b \in Attempt : /\ phase[b] = "allowed" /\ client[b] = client[a]
                   /\ decided[b] > moment[a] - Window}

DenialHasCause ==
  [][\A a \in Attempt :
       phase[a] = "waiting" /\ phase'[a] = "denied"
         => Cardinality(Causes(a)) >= MaxAttempts]_vars
=============================================================================
