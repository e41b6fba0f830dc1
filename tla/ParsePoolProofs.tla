-------------------------- MODULE ParsePoolProofs --------------------------
(***************************************************************************)
(* A sync gets one true result of every table it reads, for any number of  *)
(* tables and threads and any timeout.  The loop forgets a future in the   *)
(* step that records its result, whatever the pool does between the wait   *)
(* and the look at the clock.                                              *)
(***************************************************************************)
EXTENDS ParsePool, FiniteSetTheorems, SequenceTheorems, TLAPS

(* A table is pending until its one result is recorded; what was recorded  *)
(* waits for no thread any more.                                           *)
PendingUnrecorded == \A j \in pending : Recorded(j) = {}

OthersRecordedOnce == \A j \in Job \ pending : \E i : Recorded(j) = {i}

NothingLeftQueued == \A j \in Job \ pending : future[j] # "queued"

PoolInv ==
  /\ TypeOK
  /\ PendingUnrecorded /\ OthersRecordedOnce /\ NothingLeftQueued
  /\ ResultsAreTrue
  /\ pc = "ended" => pending = {}
  /\ pc = "stamping" => Len(started) < JobCount

(* Sets of jobs are finite, as their orders need.                          *)
LEMMA JobsFinite ==
  ASSUME NEW S \in SUBSET Job
  PROVE  IsFiniteSet(S)
<1>1. IsFiniteSet(Job)
  BY FS_Interval, ParsePoolAssumption DEF Job
<1> QED  BY <1>1, FS_Subset

(* An order of S is a sequence in which every member of S has one place.   *)
LEMMA OrderHasAll ==
  ASSUME NEW S, IsFiniteSet(S), NEW q \in Orders(S)
  PROVE  /\ Cardinality(S) \in Nat /\ DOMAIN q = 1..Cardinality(S)
         /\ \A i \in 1..Cardinality(S) : q[i] \in S
         /\ \A j \in S : \E i \in 1..Cardinality(S) :
              \A k \in 1..Cardinality(S) : q[k] = j <=> k = i
<1>2. Cardinality(S) \in Nat
  BY FS_CardinalityType
<1> DEFINE n == Cardinality(S)
<1>3. q \in [1..n -> S] /\ \A i, j \in 1..n : i # j => q[i] # q[j]
  BY DEF Orders
<1>4. IsFiniteSet(1..n) /\ Cardinality(1..n) = n
  BY <1>2, FS_Interval
<1>5. q \in Injection(1..n, S)
  BY <1>3 DEF Injection, IsInjective
<1>6. q \in Surjection(1..n, S)
  BY <1>2, <1>4, <1>5, FS_Injection
<1>7. \A j \in S : \E i \in 1..n : q[i] = j
  BY <1>6 DEF Surjection
<1> QED  BY <1>2, <1>3, <1>7

(* What K says of the jobs of S can be recorded.                           *)
Kinds(K, S) == \A j \in S : K[j] \in {"parsed", "raised", "timed out"}

(* What the loop records after r, in the order q, of the kinds K says.      *)
Recording(q, K) == [i \in DOMAIN q |-> [job |-> q[i], kind |-> K[q[i]]]]

(* The results after u = r \o new: first those of r, then one of each job  *)
(* of S, of the kind that K says.                                          *)
Appended(r, u, S, q, K, m, n) ==
  /\ m \in Nat /\ n \in Nat
  /\ DOMAIN r = 1..m /\ DOMAIN u = 1..(m + n)
  /\ \A j \in S : \E i \in 1..n : \A k \in 1..n : q[k] = j <=> k = i
  /\ \A i \in 1..m : u[i] = r[i]
  /\ \A k \in 1..n :
       q[k] \in S /\ u[m + k].job = q[k] /\ u[m + k].kind = K[q[k]]

(* Two sequences of results, one after the other.                          *)
LEMMA Joined ==
  ASSUME NEW r \in Seq(Result), NEW s \in Seq(Result)
  PROVE  /\ Len(r) \in Nat /\ Len(s) \in Nat /\ r \o s \in Seq(Result)
         /\ DOMAIN r = 1..Len(r) /\ DOMAIN (r \o s) = 1..(Len(r) + Len(s))
         /\ \A i \in 1..Len(r) : (r \o s)[i] = r[i]
         /\ \A k \in 1..Len(s) : (r \o s)[Len(r) + k] = s[k]
  BY ConcatProperties, LenProperties

(* What is recorded of S has one result of each of its jobs.               *)
LEMMA RecordingTyped ==
  ASSUME NEW S \in SUBSET Job, NEW q \in Orders(S),
         NEW K, Kinds(K, S)
  PROVE  /\ Recording(q, K) \in Seq(Result)
         /\ Len(Recording(q, K)) = Cardinality(S)
         /\ Cardinality(S) \in Nat
         /\ \A j \in S : \E i \in 1..Cardinality(S) :
              \A k \in 1..Cardinality(S) : q[k] = j <=> k = i
         /\ \A k \in 1..Cardinality(S) :
              /\ q[k] \in S /\ Recording(q, K)[k].job = q[k]
              /\ Recording(q, K)[k].kind = K[q[k]]
<1> DEFINE n == Cardinality(S)
           new == Recording(q, K)
<1>0. IsFiniteSet(S)
  BY JobsFinite
<1>1. n \in Nat /\ DOMAIN q = 1..n /\ \A k \in 1..n : q[k] \in S
  BY <1>0, OrderHasAll
<1>2. ASSUME NEW k \in 1..n
      PROVE  new[k] \in Result /\ new[k].job = q[k] /\ new[k].kind = K[q[k]]
  <2>1. new[k] = [job |-> q[k], kind |-> K[q[k]]]
    BY <1>1 DEF Recording
  <2>2. q[k] \in Job /\ K[q[k]] \in {"parsed", "raised", "timed out"}
    BY <1>1 DEF Kinds
  <2>3. [job |-> q[k], kind |-> K[q[k]]] \in Result
    BY <2>2 DEF Result
  <2> QED  BY <2>1, <2>3
<1>3. new = [k \in 1..n |-> new[k]]
  BY <1>1 DEF Recording
<1>4. new \in [1..n -> Result]
  <2> HIDE DEF new, n
  <2> QED  BY <1>2, <1>3
<1>5. new \in Seq(Result) /\ Len(new) = n
  <2> HIDE DEF new, n
  <2>1. n \in Nat
    BY <1>1
  <2> QED  BY <2>1, <1>4
<1>6. \A j \in S : \E i \in 1..n : \A k \in 1..n : q[k] = j <=> k = i
  BY <1>0, <1>1, OrderHasAll
<1> QED  BY <1>1, <1>2, <1>5, <1>6

(* One turn of the loop (results.append) is such an addition.              *)
LEMMA AppendedHolds ==
  ASSUME NEW S \in SUBSET Job, NEW q \in Orders(S), NEW r \in Seq(Result),
         NEW K, Kinds(K, S)
  PROVE  /\ r \o Recording(q, K) \in Seq(Result)
         /\ Appended(r, r \o Recording(q, K), S, q, K, Len(r), Cardinality(S))
<1>1. Recording(q, K) \in Seq(Result)
  BY RecordingTyped
<1>2. \A k \in 1..Len(Recording(q, K)) :
        (r \o Recording(q, K))[Len(r) + k] = Recording(q, K)[k]
  BY <1>1, Joined
<1>3. /\ Len(Recording(q, K)) = Cardinality(S) /\ Cardinality(S) \in Nat
      /\ \A j \in S : \E i \in 1..Cardinality(S) :
           \A k \in 1..Cardinality(S) : q[k] = j <=> k = i
      /\ \A k \in 1..Cardinality(S) :
           /\ q[k] \in S /\ Recording(q, K)[k].job = q[k]
           /\ Recording(q, K)[k].kind = K[q[k]]
  BY RecordingTyped
<1>4. /\ Len(r) \in Nat /\ r \o Recording(q, K) \in Seq(Result)
      /\ DOMAIN r = 1..Len(r)
      /\ DOMAIN (r \o Recording(q, K)) = 1..(Len(r) + Cardinality(S))
      /\ \A i \in 1..Len(r) : (r \o Recording(q, K))[i] = r[i]
  BY <1>1, <1>3, Joined
<1> QED  BY <1>2, <1>3, <1>4 DEF Appended

(* What the code has recorded are results.                                 *)
LEMMA ResultsTyped ==
  ASSUME TypeOK
  PROVE  \A i \in DOMAIN results : results[i] \in Result
  BY DEF TypeOK

(* Recorded(j), of any results.                                            *)
RecordedIn(u, j) == {i \in DOMAIN u : u[i].job = j}

(* Recording the jobs of S, none of which has a result in r yet, changes   *)
(* nothing for the others, gives each one result, and that of its kind.    *)
NoneIn(r, S) == \A i \in DOMAIN r : r[i].job \notin S

SameOthers(r, u, S) ==
  \A j \in Job \ S : RecordedIn(u, j) = RecordedIn(r, j)

OnceEach(u, S) == \A j \in S : \E i : RecordedIn(u, j) = {i}

NewOnes(r, u, S, K) ==
  \A i \in DOMAIN u :
    \/ i \in DOMAIN r /\ u[i] = r[i]
    \/ u[i].job \in S /\ u[i].kind = K[u[i].job]

(* The three facts that a turn of the loop establishes.                    *)
LEMMA RecordOnce ==
  ASSUME NEW r, NEW u, NEW S \in SUBSET Job, NEW q, NEW K,
         NEW m, NEW n, Appended(r, u, S, q, K, m, n), NoneIn(r, S)
  PROVE  SameOthers(r, u, S) /\ OnceEach(u, S) /\ NewOnes(r, u, S, K)
<1> USE DEF Appended
<1>1. \A i \in 1..m : i \in 1..(m + n)
  OBVIOUS
<1>2. \A i \in 1..(m + n) : i \in 1..m \/ \E k \in 1..n : i = m + k
  <2> SUFFICES ASSUME NEW i \in 1..(m + n), i \notin 1..m
               PROVE  \E k \in 1..n : i = m + k
    OBVIOUS
  <2>1. i - m \in 1..n /\ i = m + (i - m)
    OBVIOUS
  <2> QED  BY <2>1
<1>3. \A k \in 1..n : m + k \in 1..(m + n) /\ m + k \notin 1..m
  OBVIOUS
<1>4. \A k \in 1..n : u[m + k].job = q[k] /\ u[m + k].kind = K[q[k]]
  OBVIOUS
<1>5. \A i \in 1..m : u[i] = r[i]
  OBVIOUS
<1>6. DOMAIN u = 1..(m + n) /\ DOMAIN r = 1..m
  OBVIOUS
<1>7. \A k \in 1..n : q[k] \in S
  OBVIOUS
<1>8. m \in Nat /\ n \in Nat
  OBVIOUS
<1> HIDE DEF Appended
<1> USE <1>6
<1>9. ASSUME NEW j \in Job \ S
      PROVE  {i \in 1..(m + n) : u[i].job = j} = {i \in 1..m : r[i].job = j}
  <2>1. \A i \in 1..(m + n) : u[i].job = j => i \in 1..m
    BY <1>2, <1>4, <1>7
  <2> QED  BY <1>1, <1>5, <2>1
<1>10. ASSUME NEW j \in S
       PROVE  \E i : {k \in 1..(m + n) : u[k].job = j} = {i}
  <2>1. PICK i \in 1..n : \A k \in 1..n : q[k] = j <=> k = i
    BY DEF Appended
  <2>2. \A k \in 1..m : u[k].job # j
    BY <1>5, <1>8 DEF NoneIn
  <2>3. \A k \in 1..(m + n) : u[k].job = j => k = m + i
    BY <1>2, <1>4, <2>1, <2>2
  <2>4. m + i \in 1..(m + n) /\ u[m + i].job = j
    BY <1>3, <1>4, <2>1
  <2>5. {k \in 1..(m + n) : u[k].job = j} = {m + i}
    BY <2>3, <2>4
  <2> QED  BY <2>5
<1>11. \A i \in 1..(m + n) :
         \/ i \in 1..m /\ u[i] = r[i]
         \/ u[i].job \in S /\ u[i].kind = K[u[i].job]
  BY <1>2, <1>4, <1>5, <1>7
<1> QED
  BY <1>6, <1>9, <1>10, <1>11
     DEF RecordedIn, SameOthers, OnceEach, NewOnes

(* At the start every table is pending and nothing is recorded.            *)
LEMMA InitPool == Init => PoolInv
<1> SUFFICES ASSUME Init PROVE PoolInv
  OBVIOUS
<1>1. TypeOK
  BY ParsePoolAssumption DEF Init, TypeOK, FutureState
<1>2. \A j \in Job : Recorded(j) = {}
  BY DEF Init, Recorded
<1>3. /\ pc = "ended" => pending = {}
      /\ pc = "stamping" => Len(started) < JobCount
  BY ParsePoolAssumption DEF Init, Job
<1> QED
  BY <1>1, <1>2, <1>3 DEF Init, PoolInv, PendingUnrecorded, OthersRecordedOnce,
     NothingLeftQueued, ResultsAreTrue

(* The clock and the threads of the pool: what is recorded as parsed or    *)
(* raised has ended, and no thread takes it again.                         *)
LEMMA PoolMoves ==
  ASSUME PoolInv, UNCHANGED <<started, pc, since, pending, results>>, TypeOK',
         \A j \in Job : future[j] # "queued" => future'[j] # "queued",
         \A j \in Job : future[j] \in Finished => future'[j] = future[j]
  PROVE  PoolInv'
<1>1. \A j \in Job : Recorded(j)' = Recorded(j)
  BY DEF Recorded
<1>2. ResultsAreTrue'
  <2>1. \A i \in DOMAIN results : results[i] \in Result
    BY DEF PoolInv, TypeOK
  <2> QED
    BY <2>1 DEF PoolInv, ResultsAreTrue, Result, Finished
<1> QED
  BY <1>1, <1>2 DEF PoolInv, TypeOK, PendingUnrecorded, OthersRecordedOnce,
     NothingLeftQueued

(* The clock settles nothing.                                              *)
LEMMA TickKeeps == PoolInv /\ Tick => PoolInv'
<1> SUFFICES ASSUME PoolInv, Tick PROVE PoolInv'
  OBVIOUS
<1>1. TypeOK'
  BY DEF PoolInv, TypeOK, Tick
<1> QED  BY <1>1, PoolMoves DEF Tick

(* A thread that takes a job settles nothing.                              *)
LEMMA StartKeeps ==
  ASSUME PoolInv, NEW j \in Job, Start(j)
  PROVE  PoolInv'
<1>1. TypeOK'
  BY DEF PoolInv, TypeOK, Start, FutureState
<1>2. \A i \in Job : future'[i] = IF i = j THEN "running" ELSE future[i]
  BY DEF PoolInv, TypeOK, Start
<1> QED
  BY <1>1, <1>2, PoolMoves DEF Start, Finished

(* A thread that ends its job changes no result.                           *)
LEMMA FinishKeeps ==
  ASSUME PoolInv, NEW j \in Job, Finish(j)
  PROVE  PoolInv'
<1>1. TypeOK'
  BY DEF PoolInv, TypeOK, Finish, Finished, FutureState
<1>2. \A i \in Job : i # j => future'[i] = future[i]
  BY DEF PoolInv, TypeOK, Finish
<1>3. future'[j] # "queued" /\ future[j] = "running"
  BY DEF PoolInv, TypeOK, Finish, Finished
<1> QED
  BY <1>1, <1>2, <1>3, PoolMoves DEF Finish, Finished

(* The readings of the clock settle nothing, and end with one per future.  *)
LEMMA StampKeeps == PoolInv /\ Stamp => PoolInv'
<1> SUFFICES ASSUME PoolInv, Stamp PROVE PoolInv'
  OBVIOUS
<1>1. /\ started' \in Seq(Nat) /\ Len(started') = Len(started) + 1
      /\ Len(started) \in Nat /\ Len(started) < JobCount /\ JobCount \in Nat
  BY ParsePoolAssumption DEF PoolInv, TypeOK, Stamp
<1>2. UNCHANGED <<now, future, pending, results>>
  BY DEF Stamp
<1>3. TypeOK'
  BY <1>1, <1>2 DEF PoolInv, TypeOK, Stamp, WaitBegin
<1>4. /\ pc' = "ended" => pending' = {}
      /\ pc' = "stamping" => Len(started') < JobCount
  BY <1>1, <1>2 DEF Stamp, WaitBegin
<1>5. \A j \in Job : Recorded(j)' = Recorded(j)
  BY <1>2 DEF Recorded
<1>6. ResultsAreTrue'
  BY <1>2 DEF PoolInv, ResultsAreTrue
<1>7. pending' = pending /\ \A j \in pending : j \in Job
  BY <1>2 DEF PoolInv, TypeOK
<1>8. PendingUnrecorded'
  BY <1>5, <1>7 DEF PoolInv, PendingUnrecorded
<1>9. OthersRecordedOnce'
  BY <1>5, <1>7 DEF PoolInv, OthersRecordedOnce
<1>10. NothingLeftQueued'
  BY <1>2 DEF PoolInv, NothingLeftQueued
<1> QED  BY <1>3, <1>4, <1>6, <1>8, <1>9, <1>10 DEF PoolInv

(* What is recorded of the jobs of S is how their futures ended, unless    *)
(* they are given up.                                                      *)
TrueKinds(K, S, ended) ==
  \A j \in S : K[j] = "timed out" \/ K[j] = ended[j]

(* A turn of the loop: the members of S get their result and are forgotten.*)
LEMMA LoopRecords ==
  ASSUME PoolInv, NEW S \in SUBSET pending, NEW q, NEW K, NEW m, NEW n,
         Appended(results, results', S, q, K, m, n),
         TrueKinds(K, S, future'),
         \A j \in S : future'[j] # "queued",
         \A j \in Job : future[j] # "queued" => future'[j] = future[j],
         pending' = pending \ S
  PROVE  /\ PendingUnrecorded' /\ OthersRecordedOnce' /\ NothingLeftQueued'
         /\ ResultsAreTrue'
<1>1. TypeOK /\ S \in SUBSET Job /\ \A j \in S : Recorded(j) = {}
  BY DEF PoolInv, TypeOK, PendingUnrecorded
<1>2. /\ SameOthers(results, results', S) /\ OnceEach(results', S)
      /\ NewOnes(results, results', S, K)
  <2>1. NoneIn(results, S)
    BY <1>1 DEF NoneIn, Recorded
  <2> QED  BY <1>1, <2>1, RecordOnce
<1>2a. \A j \in Job : /\ Recorded(j) = RecordedIn(results, j)
                      /\ Recorded(j)' = RecordedIn(results', j)
  BY DEF Recorded, RecordedIn
<1>2b. \A j \in Job \ S : Recorded(j)' = Recorded(j)
  BY <1>2, <1>2a DEF SameOthers
<1>2c. \A j \in S : \E i : Recorded(j)' = {i}
  BY <1>1, <1>2, <1>2a DEF OnceEach
<1>3. PendingUnrecorded'
  BY <1>1, <1>2b DEF PoolInv, TypeOK, PendingUnrecorded
<1>4. OthersRecordedOnce'
  <2> SUFFICES ASSUME NEW j \in Job \ pending'
               PROVE  \E i : Recorded(j)' = {i}
    BY DEF OthersRecordedOnce
  <2>1. CASE j \in S
    BY <1>2c, <2>1
  <2>2. CASE j \notin S
    <3>1. j \in Job \ pending
      BY <2>2
    <3>2. \E i : Recorded(j) = {i}
      BY <3>1 DEF PoolInv, OthersRecordedOnce
    <3> QED  BY <1>2b, <2>2, <3>2
  <2> QED  BY <2>1, <2>2
<1>5. NothingLeftQueued'
  BY <1>1 DEF PoolInv, NothingLeftQueued
<1>6. \A i \in DOMAIN results : results[i] \in Result
  BY <1>1, ResultsTyped
<1>7. \A i \in DOMAIN results :
        results[i].kind # "timed out" =>
          future'[results[i].job] = results[i].kind
  BY <1>6 DEF PoolInv, ResultsAreTrue, Result
<1>8. ResultsAreTrue'
  BY <1>2, <1>7 DEF ResultsAreTrue, TrueKinds, NewOnes
<1> QED  BY <1>3, <1>4, <1>5, <1>8

(* The wait: what it found done is settled as it ended.                    *)
LEMMA CollectKeeps == PoolInv /\ Collect => PoolInv'
<1> SUFFICES ASSUME PoolInv, Collect PROVE PoolInv'
  OBVIOUS
<1>1. PICK q \in Orders(Done) : results' = results \o Recording(q, future)
  BY DEF Collect, Recording
<1>2. /\ Done \in SUBSET pending
      /\ \A j \in Done : future[j] \in {"parsed", "raised"}
  BY DEF Done, Finished
<1>3. /\ future' = future /\ future \in [Job -> FutureState]
      /\ pending \in SUBSET Job /\ pending' = pending \ Done
  BY DEF PoolInv, TypeOK, Collect
<1>3a. /\ results' \in Seq(Result)
       /\ Appended(results, results', Done, q, future, Len(results),
                   Cardinality(Done))
  BY <1>1, <1>2, <1>3, AppendedHolds DEF PoolInv, TypeOK, Kinds
<1>4. /\ PendingUnrecorded' /\ OthersRecordedOnce' /\ NothingLeftQueued'
      /\ ResultsAreTrue'
  BY <1>2, <1>3, <1>3a, LoopRecords DEF TrueKinds
<1>5. TypeOK'
  BY <1>3, <1>3a DEF PoolInv, TypeOK, Collect
<1> QED  BY <1>4, <1>5 DEF PoolInv, Collect

(* The look at the clock: what is late is given up and cancelled if it waits. *)
LEMMA CheckKeeps == PoolInv /\ Check => PoolInv'
<1> SUFFICES ASSUME PoolInv, Check PROVE PoolInv'
  OBVIOUS
<1> DEFINE late == [j \in Job |-> "timed out"]
<1>1. PICK q \in Orders(TimedOut) : results' = results \o
        [i \in DOMAIN q |-> [job |-> q[i], kind |-> "timed out"]]
  BY DEF Check
<1>2. TimedOut \in SUBSET pending /\ pending \in SUBSET Job
  BY DEF TimedOut, PoolInv, TypeOK
<1>3. \A i \in DOMAIN q : late[q[i]] = "timed out"
  <2>1. IsFiniteSet(TimedOut)
    BY <1>2, JobsFinite
  <2>2. \A i \in DOMAIN q : q[i] \in TimedOut
    BY <2>1, OrderHasAll
  <2> QED  BY <1>2, <2>2
<1>4. results' = results \o Recording(q, late)
  BY <1>1, <1>3 DEF Recording
<1>5. /\ future' \in [Job -> FutureState]
      /\ \A j \in TimedOut : future'[j] # "queued"
      /\ \A j \in Job : future[j] # "queued" => future'[j] = future[j]
  BY <1>2 DEF PoolInv, TypeOK, Check, Cancelled, FutureState
<1>6. pending' = pending \ TimedOut
  BY DEF Check, StillPending
<1>6a. /\ results' \in Seq(Result)
       /\ Appended(results, results', TimedOut, q, late, Len(results),
                   Cardinality(TimedOut))
  BY <1>2, <1>4, AppendedHolds DEF PoolInv, TypeOK, Kinds
<1>6b. TrueKinds(late, TimedOut, future')
  BY <1>2 DEF TrueKinds
<1>7. /\ PendingUnrecorded' /\ OthersRecordedOnce' /\ NothingLeftQueued'
      /\ ResultsAreTrue'
  BY <1>2, <1>5, <1>6, <1>6a, <1>6b, LoopRecords
<1>8. TypeOK'
  BY <1>2, <1>5, <1>6, <1>6a DEF PoolInv, TypeOK, Check, WaitBegin
<1>9. /\ pc' = "ended" => pending' = {}
      /\ pc' # "stamping"
  BY DEF Check, WaitBegin
<1> QED  BY <1>7, <1>8, <1>9 DEF PoolInv

(* The clock, the pool and the loop keep every table on one side: pending  *)
(* without a result, or settled with one.                                  *)
THEOREM PoolHolds == Spec => []PoolInv
<1>1. ASSUME PoolInv, UNCHANGED vars  PROVE PoolInv'
  <2>1. TypeOK'
    BY <1>1 DEF PoolInv, TypeOK, vars
  <2> QED  BY <1>1, <2>1, PoolMoves DEF vars
<1>2. PoolInv /\ [Next]_vars => PoolInv'
  BY <1>1, TickKeeps, StartKeeps, FinishKeeps, StampKeeps, CollectKeeps,
     CheckKeeps
     DEF Next
<1> QED  BY <1>2, InitPool, PTL DEF Spec

(* Every table gets exactly one result by the time the loop ends.          *)
THEOREM EveryTableSettledOnce == Spec => []OneResultPerTable
<1>1. ASSUME PoolInv  PROVE OneResultPerTable
  <2>1. ASSUME NEW j \in pending  PROVE Cardinality(Recorded(j)) = 0
    BY <1>1, FS_EmptySet DEF PoolInv, PendingUnrecorded
  <2>2. ASSUME NEW j \in Job \ pending  PROVE Cardinality(Recorded(j)) = 1
    <3>1. PICK i : Recorded(j) = {i}
      BY <1>1 DEF PoolInv, OthersRecordedOnce
    <3> QED  BY <3>1, FS_Singleton
  <2> QED  BY <1>1, <2>1, <2>2 DEF PoolInv, OneResultPerTable
<1> QED  BY <1>1, PoolHolds, PTL

(* Metadata and errors are recorded only of jobs that ended with them.     *)
THEOREM ResultsStayTrue == Spec => []ResultsAreTrue
BY PoolHolds, PTL DEF PoolInv

(* The variables of the pool keep their types.                             *)
THEOREM PoolTyped == Spec => []TypeOK
BY PoolHolds, PTL DEF PoolInv

(* A job that was given up while it waited never takes a thread.           *)
THEOREM GivenUpStaysOut == Spec => GivenUpNeverStarts
<1>1. ASSUME PoolInv, [Next]_vars, NEW j \in Job, Recorded(j) # {},
             future[j] # "running"
      PROVE  future'[j] = future[j]
  <2>1. /\ j \in Job \ pending /\ future[j] # "queued"
        /\ future \in [Job -> FutureState]
    BY <1>1 DEF PoolInv, PendingUnrecorded, NothingLeftQueued, TypeOK
  <2>2. ASSUME NEW i \in Job, Start(i) \/ Finish(i)
        PROVE  future'[j] = future[j]
    BY <1>1, <2>1, <2>2 DEF Start, Finish
  <2>3. CASE Check
    BY <2>1, <2>3 DEF Check, Cancelled, TimedOut
  <2> QED  BY <1>1, <2>2, <2>3 DEF Next, Tick, Stamp, Collect, vars
<1>2. PoolInv /\ [Next]_vars =>
        [\A j \in Job : Recorded(j) # {} /\ future[j] # "running" =>
           future'[j] = future[j]]_vars
  BY <1>1
<1> QED  BY <1>2, PoolHolds, PTL DEF Spec, GivenUpNeverStarts

(* What is said of a job, of any results.                                  *)
SaidIn(u, j) == {u[i].kind : i \in RecordedIn(u, j)}

Said == [j \in Job |-> SaidIn(results, j)]

(* The mapping of the refinement, in these terms.                          *)
LEMMA SaidIsMapped ==
  /\ Said = [j \in Job |-> {results[i].kind : i \in Recorded(j)}]
  /\ Said' = [j \in Job |-> {results'[i].kind : i \in Recorded(j)'}]
BY DEF Said, SaidIn, RecordedIn, Recorded

(* A job is unsettled in the abstract as long as it is pending.            *)
LEMMA PendingIsUnsettled ==
  ASSUME PoolInv
  PROVE  {j \in Job : Said[j] = {}} = pending
<1>1. ASSUME NEW j \in pending  PROVE j \in Job /\ Said[j] = {}
  <2>1. Recorded(j) = {} /\ j \in Job
    BY <1>1 DEF PoolInv, PendingUnrecorded, TypeOK
  <2> QED  BY <2>1 DEF Said, SaidIn, RecordedIn, Recorded
<1>2. ASSUME NEW j \in Job \ pending  PROVE Said[j] # {}
  <2>1. PICK i : Recorded(j) = {i}
    BY <1>2 DEF PoolInv, OthersRecordedOnce
  <2>2. i \in RecordedIn(results, j)
    BY <2>1 DEF RecordedIn, Recorded
  <2> QED  BY <2>2 DEF Said, SaidIn
<1> QED  BY <1>1, <1>2

(* Recording the jobs of S says of each what K has, and of others nothing. *)
LEMMA RecordingSays ==
  ASSUME PoolInv, NEW S \in SUBSET pending, NEW q, NEW K, NEW m, NEW n,
         Appended(results, results', S, q, K, m, n)
  PROVE  Said' = [j \in Job |-> IF j \in S THEN {K[j]} ELSE Said[j]]
<1>1. /\ S \in SUBSET Job /\ NoneIn(results, S)
  BY DEF PoolInv, TypeOK, PendingUnrecorded, NoneIn, Recorded
<1>2. /\ SameOthers(results, results', S) /\ OnceEach(results', S)
      /\ NewOnes(results, results', S, K)
  BY <1>1, RecordOnce
<1>3. ASSUME NEW j \in Job \ S
      PROVE  SaidIn(results', j) = SaidIn(results, j)
  <2>1. RecordedIn(results', j) = RecordedIn(results, j)
    BY <1>2 DEF SameOthers
  <2>2. \A i \in RecordedIn(results, j) : results'[i] = results[i]
    BY DEF RecordedIn, Appended
  <2> QED  BY <2>1, <2>2 DEF SaidIn
<1>4. ASSUME NEW j \in S
      PROVE  SaidIn(results', j) = {K[j]}
  <2>1. PICK i : RecordedIn(results', j) = {i}
    BY <1>2 DEF OnceEach
  <2>2. i \in DOMAIN results' /\ results'[i].job = j
    BY <2>1 DEF RecordedIn
  <2>3. results'[i].kind = K[j]
    BY <1>1, <1>2, <2>2 DEF NewOnes, NoneIn
  <2> QED  BY <2>1, <2>3 DEF SaidIn
<1> QED  BY <1>3, <1>4 DEF Said

(* A step that leaves the results alone says nothing.                      *)
LEMMA SaidStays == results' = results => Said' = Said
BY DEF Said, SaidIn, RecordedIn

(* A deadline that has passed stays passed.                                *)
LEMMA LateGrows ==
  ASSUME PoolInv, Tick \/ Stamp
  PROVE  Late \subseteq Late' /\ Late' \subseteq Job
<1>1. /\ now \in Nat /\ Timeout \in Nat /\ JobCount \in Nat
      /\ started \in Seq(Nat) /\ Len(started) \in Nat
      /\ Len(started) <= JobCount
  BY ParsePoolAssumption DEF PoolInv, TypeOK
<1>2. CASE Tick
  BY <1>1, <1>2 DEF Tick, Late, Job
<1>3. CASE Stamp
  <2>1. /\ started' = Append(started, now) /\ now' = now
        /\ Len(started) < JobCount
    BY <1>3 DEF Stamp, PoolInv
  <2>2. /\ DOMAIN started = 1..Len(started)
        /\ DOMAIN started' = 1..(Len(started) + 1)
        /\ \A j \in 1..Len(started) : started'[j] = started[j]
    BY <1>1, <2>1
  <2> QED  BY <1>1, <2>1, <2>2 DEF Late, Job
<1> QED  BY <1>2, <1>3

(* The pool of threads and the loop implement the reading of tables: what  *)
(* the wait finds done is reported, and the look at the clock gives up     *)
(* those of the others whose own time is over.                             *)
THEOREM ImplementsTableReading == Spec => RefinesTableReading
<1> USE DEF Reading!vars
<1>1. Init => Reading!Init
  <2> SUFFICES ASSUME Init PROVE Reading!Init
    OBVIOUS
  <2>1. \A j \in Job : {results[i].kind : i \in Recorded(j)} = {}
    BY DEF Init, Recorded
  <2>2. Late = {}
    BY DEF Init, Late
  <2>3. [j \in Job |-> {results[i].kind : i \in Recorded(j)}]
          = [j \in Job |-> {}]
    BY <2>1
  <2> QED  BY <2>2, <2>3 DEF Init, Reading!Init
<1>2. ASSUME PoolInv, [Next]_vars  PROVE [Reading!Next]_(Reading!vars)
  <2>1. CASE Tick \/ Stamp
    <3>1. Late \subseteq Late' /\ Late' \subseteq Job
      BY <1>2, <2>1, LateGrows
    <3>2. future' = future /\ Said' = Said
      BY <2>1, SaidStays DEF Tick, Stamp
    <3>3. PICK S \in SUBSET Job : S = Late'
      BY <3>1
    <3>4. Late' = Late \cup S
      BY <3>1, <3>3
    <3>5. Reading!Deadline(S)
      BY <3>2, <3>4, SaidIsMapped DEF Reading!Deadline
    <3> QED  BY <3>5 DEF Reading!Next
  <2>2. ASSUME NEW j \in Job, Start(j)  PROVE Reading!Begin(j)
    BY <2>2, SaidStays, SaidIsMapped DEF Start, Late, Reading!Begin
  <2>3. ASSUME NEW j \in Job, Finish(j)  PROVE Reading!End(j)
    BY <2>3, SaidStays, SaidIsMapped DEF Finish, Finished, Late, Reading!End
  <2>4. CASE Collect
    <3>1. PICK q \in Orders(Done) : results' = results \o Recording(q, future)
      BY <2>4 DEF Collect, Recording
    <3>2. /\ Done \in SUBSET pending /\ pending \in SUBSET Job
          /\ \A j \in Done : future[j] \in {"parsed", "raised"}
      BY <1>2 DEF Done, Finished, PoolInv, TypeOK
    <3>3. Appended(results, results', Done, q, future, Len(results),
                   Cardinality(Done))
      BY <1>2, <3>1, <3>2, AppendedHolds DEF PoolInv, TypeOK, Kinds
    <3>4. Said' = [j \in Job |-> IF j \in Done THEN {future[j]} ELSE Said[j]]
      BY <1>2, <3>2, <3>3, RecordingSays
    <3>5. Done \subseteq {j \in Job : Said[j] = {}}
      BY <1>2, <3>2, PendingIsUnsettled
    <3>6. future' = future /\ Late' = Late
      BY <2>4 DEF Collect, Late
    <3>7. PICK S \in SUBSET Job : S = Done
      BY <3>2
    <3>8. Reading!Report(S)
      BY <3>2, <3>4, <3>5, <3>6, <3>7, SaidIsMapped
         DEF Reading!Report, Reading!Unsettled
    <3> QED  BY <3>8 DEF Reading!Next
  <2>5. CASE Check
    <3> DEFINE all == [j \in Job |-> "timed out"]
    <3>1. PICK q \in Orders(TimedOut) : results' = results \o
            [i \in DOMAIN q |-> [job |-> q[i], kind |-> "timed out"]]
      BY <2>5 DEF Check
    <3>2. TimedOut \in SUBSET pending /\ pending \in SUBSET Job
      BY <1>2 DEF TimedOut, PoolInv, TypeOK
    <3>3. \A i \in DOMAIN q : all[q[i]] = "timed out"
      <4>1. IsFiniteSet(TimedOut)
        BY <3>2, JobsFinite
      <4>2. \A i \in DOMAIN q : q[i] \in TimedOut
        BY <4>1, OrderHasAll
      <4> QED  BY <3>2, <4>2
    <3>4. results' = results \o Recording(q, all)
      BY <3>1, <3>3 DEF Recording
    <3>5. Appended(results, results', TimedOut, q, all, Len(results),
                   Cardinality(TimedOut))
      BY <1>2, <3>2, <3>4, AppendedHolds DEF PoolInv, TypeOK, Kinds
    <3>6. Said' = [j \in Job |-> IF j \in TimedOut THEN {all[j]} ELSE Said[j]]
      BY <1>2, <3>2, <3>5, RecordingSays
    <3>7. future' = Cancelled(TimedOut) /\ Late' = Late
      BY <2>5 DEF Check, Late
    <3>8. PICK S \in SUBSET Job : S = TimedOut
      BY <3>2
    <3>9. S \subseteq {j \in Job : Said[j] = {}} \cap Late
      BY <1>2, <3>8, PendingIsUnsettled DEF TimedOut
    <3>10. Reading!GiveUp(S)
      BY <3>6, <3>7, <3>8, <3>9, SaidIsMapped
         DEF Reading!GiveUp, Reading!Unsettled, Cancelled
    <3> QED  BY <3>10 DEF Reading!Next
  <2>6. CASE UNCHANGED vars
    BY <2>6, SaidStays, SaidIsMapped DEF vars, Late
  <2> QED
    BY <1>2, <2>1, <2>2, <2>3, <2>4, <2>5, <2>6 DEF Next, Reading!Next
<1> QED
  BY <1>1, <1>2, PoolHolds, PTL DEF Spec, RefinesTableReading, Reading!Spec
=============================================================================
