---------------------------- MODULE LoggerProofs ----------------------------
(***************************************************************************)
(* While calls of logging() overlap neither each other nor initiate() and  *)
(* deinitiate(), no entry is written outside the mapping and the ring      *)
(* holds the latest entries: for any number of threads, entries and calls. *)
(***************************************************************************)
EXTENDS Logger, TLAPS, SequenceTheorems

\* initiate() and deinitiate() keep the invariant: the log is empty when it
\* comes up, and a thread that is in logging() then makes it a race.
LEMMA LifetimeInv ==
  ASSUME LogInv, init_logd \/ deinit_logd
  PROVE  LogInv'
<1> USE LoggerAssumption DEF LogInv, TypeOK
<1>1. CASE init_logd
  <2>1. PICK count \in Counts :
          size' = count /\ state' = IF count = 0 THEN "failed" ELSE "up"
    BY <1>1 DEF init_logd
  <2>2. /\ state = "down" /\ pos' = 0 /\ logcount' = 0
        /\ at' = at /\ reg' = reg /\ entry' = entry
    BY <1>1 DEF init_logd
  <2>3. raced' \in BOOLEAN /\ (~raced' => Idle)
    BY <1>1, Zenon DEF init_logd
  <2>4. ~raced' => \A t \in Threads : at[t] = "out"
    BY <2>3 DEF Idle
  <2>5. TypeOK'
    BY <2>1, <2>2, <2>3
  <2>6. /\ (state = "up" => size > 0)' /\ (state = "up" => pos <= size)'
        /\ state' # "crashed"
    BY <2>1, <2>2
  <2>7. QED
    BY <2>2, <2>3, <2>4, <2>5, <2>6
<1>2. CASE deinit_logd
  <2>1. /\ state' = "down" /\ at' = at /\ reg' = reg /\ entry' = entry
        /\ size' = size /\ pos' = pos /\ logcount' = logcount
    BY <1>2 DEF deinit_logd
  <2>2. raced' \in BOOLEAN /\ (~raced' => ~raced /\ Idle)
    BY <1>2, Zenon DEF deinit_logd
  <2>3. ~raced' => \A t \in Threads : at[t] = "out"
    BY <2>2 DEF Idle
  <2>4. QED
    BY <2>1, <2>2, <2>3
<1>3. QED
  BY <1>1, <1>2

\* A thread that enters while another is inside, or while the log is down, makes
\* the history a race; otherwise it is alone and the log is mapped.
LEMMA EntryInv ==
  ASSUME LogInv, NEW t \in Threads, logging(t) \/ LoadCount(t) \/ StoreCount(t),
         calls \in Nat
  PROVE  LogInv'
<1> USE LoggerAssumption DEF LogInv, TypeOK, lvars
<1>1. CASE logging(t)
  <2>1. /\ Alive /\ at[t] = "out" /\ at' = [at EXCEPT ![t] = "count"]
        /\ entry' = [entry EXCEPT ![t] = calls + 1]
        /\ reg' = reg /\ size' = size /\ pos' = pos /\ logcount' = logcount
        /\ state' = state
    BY <1>1 DEF logging
  <2>2. raced' \in BOOLEAN
    BY <1>1, Zenon DEF logging
  <2>3. TypeOK'
    BY <2>1, <2>2
  <2>4. ~raced' => ~raced /\ Idle /\ state = "up"
    <3>1. ~raced' => ~raced /\ Idle /\ state # "down"
      BY <1>1, Zenon DEF logging
    <3>2. QED
      BY <2>1, <3>1 DEF Alive
  <2>5. ~raced' =>
          /\ \A u, v \in Threads : at'[u] # "out" /\ at'[v] # "out" => u = v
          /\ \A u \in Threads : at'[u] \notin {"copy", "load", "store"}
    BY <2>1, <2>4 DEF Idle
  <2>6. QED
    BY <2>1, <2>3, <2>4, <2>5
<1>2. CASE LoadCount(t)
  BY <1>2 DEF LoadCount
<1>3. CASE StoreCount(t)
  BY <1>3 DEF StoreCount
<1>4. QED
  BY <1>1, <1>2, <1>3

\* append_log() by a thread that is alone: the test leaves pos below size, the
\* copy and the advance take it to size at most.
LEMMA AppendInv ==
  ASSUME LogInv, NEW t \in Threads, append_log(t)
  PROVE  LogInv'
<1> USE LoggerAssumption DEF LogInv, TypeOK, lvars
<1>1. CASE Test(t)
  BY <1>1 DEF Test
<1>2. CASE Wrap(t)
  BY <1>2 DEF Wrap
<1>3. CASE Copy(t)
  BY <1>3 DEF Copy
<1>4. CASE Load(t)
  BY <1>4 DEF Load
<1>5. CASE Store(t)
  BY <1>5 DEF Store
<1>6. QED
  BY <1>1, <1>2, <1>3, <1>4, <1>5 DEF append_log

\* The number of calls, from which messages get their numbers, is a number.
Counted == calls \in Nat

\* LogInv is an invariant of the log: where a thread is in append_log() bounds
\* logc.pos, and the log is mapped then, as long as calls of logging() overlap
\* neither each other nor initiate() and deinitiate().
THEOREM LogSafe == Spec => [](LogInv /\ Counted)
<1>1. Init => LogInv /\ Counted
  <2> SUFFICES ASSUME Init PROVE LogInv /\ Counted
    OBVIOUS
  <2>1. raced \in BOOLEAN /\ ~raced
    BY Zenon DEF Init
  <2>2. /\ at = [t \in Threads |-> "out"] /\ reg = [t \in Threads |-> 0]
        /\ entry = [t \in Threads |-> 0] /\ state = "down"
        /\ size = 0 /\ pos = 0 /\ logcount = 0 /\ calls = 0
    BY DEF Init
  <2>3. QED
    BY <2>1, <2>2 DEF LogInv, TypeOK, Counted
<1>2. LogInv /\ Counted /\ [Next]_vars => (LogInv /\ Counted)'
  <2> SUFFICES ASSUME LogInv, Counted, [Next]_vars
               PROVE  LogInv' /\ Counted'
    OBVIOUS
  <2>1. CASE init_logd \/ deinit_logd
    BY <2>1, LifetimeInv DEF Counted, init_logd, deinit_logd
  <2>2. ASSUME NEW t \in Threads, logging(t) \/ LoadCount(t) \/ StoreCount(t)
        PROVE  LogInv' /\ Counted'
    BY <2>2, EntryInv DEF Counted, logging, LoadCount, StoreCount
  <2>3. ASSUME NEW t \in Threads, append_log(t)
        PROVE  LogInv' /\ Counted'
    <3>1. calls' = calls
      BY <2>3 DEF append_log, Test, Wrap, Copy, Load, Store
    <3>2. QED
      BY <2>3, <3>1, AppendInv DEF Counted
  <2>4. CASE UNCHANGED vars
    BY <2>4 DEF vars, LogInv, TypeOK, Counted
  <2>5. QED
    BY <2>1, <2>2, <2>3, <2>4 DEF Next
<1>3. QED
  BY <1>1, <1>2, PTL DEF Spec

\* append_log() never copies an entry behind the end of the mapping, or after
\* the mapping is gone, while calls of logging() overlap neither each other nor
\* initiate() and deinitiate(): testing for the end by equality is enough then.
THEOREM WritesInside == Spec => []InsideUnlessRaced
<1>1. LogInv => InsideUnlessRaced
  BY DEF LogInv, TypeOK, InsideUnlessRaced
<1>2. QED
  BY <1>1, LogSafe, PTL

-----------------------------------------------------------------------------
(***************************************************************************)
(* The ring holds the latest messages.                                     *)
(***************************************************************************)
RingTypes ==
  /\ buffer \in [0..MaxLogs -> Nat] /\ written \in Seq(Nat)
  /\ calls \in Nat /\ calls <= MaxLogs

\* Each message of w behind the first m - s ones is in its place of b.
HeldIn(b, s, w, m) ==
  \A i \in 1..Len(w) : i > m - s => b[(i - 1) % s] = w[i]

Held(m) == HeldIn(buffer, size, written, m)

\* What a thread in logging() has done so far: it has counted its message, and
\* from the copy on the oldest message of a full ring has given way to it.
Progress(t) ==
  LET n == Len(written)
  IN  /\ n < calls
      /\ logcount = IF at[t] \in {"count", "counted"} THEN n ELSE n + 1
      /\ at[t] = "counted" => reg[t] = n
      /\ at[t] = "wrap" => pos = size
      /\ at[t] \in {"load", "store"} => buffer[pos] = entry[t] /\ Held(n + 1)
      /\ at[t] \notin {"load", "store"} => Held(n)

\* Unless there was a race the position is that of the next message.
RingInv ==
  ~raced /\ state = "up" =>
    /\ Len(written) <= calls /\ pos <= Len(written)
    /\ pos % size = Len(written) % size
    /\ Idle => logcount = Len(written) /\ Held(Len(written))
    /\ \A t \in Threads : at[t] # "out" => Progress(t)

\* A number is its place and a multiple of s.
LEMMA Place ==
  ASSUME NEW n \in Nat, NEW s \in Nat \ {0}
  PROVE  /\ n \div s \in Nat /\ n % s \in Nat /\ n % s < s
         /\ n = s * (n \div s) + (n % s) /\ n % s <= n
  BY SMT

\* The place of a number is what is left of it.
LEMMA PlaceOf ==
  ASSUME NEW q \in Nat, NEW s \in Nat \ {0}, NEW p \in 0..(s - 1)
  PROVE  (q * s + p) % s = p
  BY SMT

\* The place behind that of a number is the place of the next number.
LEMMA ModNext ==
  ASSUME NEW n \in Nat, NEW s \in Nat \ {0}, NEW p \in Nat,
         p < s, p % s = n % s
  PROVE  p = n % s /\ (p + 1) % s = (n + 1) % s
<1>1. p = n % s
  BY SMT
<1>2. PICK q \in Nat : n = s * q + p
  BY <1>1, Place
<1>3. CASE p + 1 < s
  <2>1. n + 1 = q * s + (p + 1) /\ p + 1 \in 0..(s - 1)
    BY <1>2, <1>3
  <2>2. (p + 1) % s = p + 1
    BY <1>3
  <2>3. (n + 1) % s = p + 1
    BY <2>1, PlaceOf
  <2> QED
    BY <1>1, <2>2, <2>3
<1>4. CASE p + 1 = s
  <2>1. n + 1 = (q + 1) * s + 0 /\ q + 1 \in Nat /\ 0 \in 0..(s - 1)
    BY <1>2, <1>4
  <2>2. (n + 1) % s = 0
    BY <2>1, PlaceOf
  <2>3. (p + 1) % s = 0
    BY <1>4
  <2> QED
    BY <1>1, <2>2, <2>3
<1> QED
  BY <1>3, <1>4

\* Numbers closer than s have different places.
LEMMA ModApart ==
  ASSUME NEW a \in Nat, NEW b \in Nat, NEW s \in Nat \ {0}, a < b, b - a < s
  PROVE  a % s # b % s
<1> SUFFICES ASSUME a % s = b % s PROVE FALSE
  OBVIOUS
<1>1. PICK q \in Nat : a = s * q + (a % s)
  BY Place, Zenon
<1>2. PICK r \in Nat : b = s * r + (b % s)
  BY Place, Zenon
<1>3. PICK m \in Nat : m = a % s
  BY Place
<1>4. b - a = (r - q) * s
  BY <1>1, <1>2, <1>3
<1>5. PICK k \in Int : k = r - q
  BY <1>1, <1>2
<1>6. k * s > 0 /\ k * s < s
  BY <1>4, <1>5
<1>7. CASE k <= 0
  BY <1>6, <1>7
<1>8. CASE k >= 1
  BY <1>6, <1>8
<1> QED
  BY <1>5, <1>7, <1>8

\* The messages, their number and the entries of the log keep their types.
LEMMA RingTypesStep == LogInv /\ RingTypes /\ [Next]_vars => RingTypes'
<1> SUFFICES ASSUME LogInv, RingTypes, [Next]_vars PROVE RingTypes'
  OBVIOUS
<1> USE LoggerAssumption DEF RingTypes, lvars
<1>1. CASE init_logd \/ deinit_logd \/ UNCHANGED vars
  <2>1. CASE init_logd
    <3>1. << >> \in Seq(Nat)
      OBVIOUS
    <3> QED
      BY <2>1, <3>1 DEF init_logd
  <2>2. CASE deinit_logd
    BY <2>2 DEF deinit_logd
  <2>3. CASE UNCHANGED vars
    BY <2>3 DEF vars
  <2> QED
    BY <1>1, <2>1, <2>2, <2>3
<1>2. ASSUME NEW t \in Threads,
             logging(t) \/ LoadCount(t) \/ StoreCount(t) \/ Test(t) \/ Wrap(t)
               \/ Load(t)
      PROVE  RingTypes'
  BY <1>2 DEF logging, LoadCount, StoreCount, Test, Wrap, Load
<1>3. ASSUME NEW t \in Threads, Copy(t) PROVE RingTypes'
  <2>1. entry[t] \in Nat
    BY DEF LogInv, TypeOK
  <2> QED
    BY <1>3, <2>1 DEF Copy
<1>4. ASSUME NEW t \in Threads, Store(t) PROVE RingTypes'
  <2>1. entry[t] \in Nat
    BY DEF LogInv, TypeOK
  <2>2. written' \in Seq(Nat)
    BY <1>4, <2>1, AppendProperties DEF Store
  <2> QED
    BY <1>4, <2>1, <2>2 DEF Store
<1> QED
  BY <1>1, <1>2, <1>3, <1>4 DEF Next, append_log

\* Without a race a thread in logging() is alone there.
LEMMA Alone ==
  ASSUME LogInv, ~raced, NEW t \in Threads, at[t] # "out"
  PROVE  \A u \in Threads : u # t => at[u] = "out"
  BY Zenon DEF LogInv

\* After a step of such a thread only its own progress matters.
LEMMA RingOne ==
  ASSUME NEW t \in Threads, NEW x, x # "out", at' = [at EXCEPT ![t] = x],
         LogInv, \A u \in Threads : u # t => at[u] = "out",
         Len(written)' <= calls', pos' <= Len(written)',
         pos' % size' = Len(written)' % size', Progress(t)'
  PROVE  RingInv'
<1>1. at \in [Threads -> {"out", "count", "counted", "test", "wrap", "copy",
                          "load", "store"}]
  BY DEF LogInv, TypeOK
<1>2. at'[t] = x /\ \A u \in Threads : u # t => at'[u] = "out"
  BY <1>1
<1>3. ~Idle'
  BY <1>2 DEF Idle
<1>4. \A u \in Threads : at'[u] # "out" => u = t
  BY <1>2
<1>5. \A u \in Threads : at'[u] # "out" => Progress(u)'
  BY <1>4
<1> QED
  BY <1>3, <1>5, Zenon DEF RingInv

\* What RingInv says of a thread that is in logging() without a race.
LEMMA RingFacts ==
  ASSUME LogInv, RingTypes, RingInv, ~raced, state = "up"
  PROVE  /\ Len(written) \in Nat /\ Len(written) <= calls
         /\ calls \in Nat /\ calls <= MaxLogs
         /\ pos \in Nat /\ pos <= Len(written) /\ pos <= size
         /\ pos % size = Len(written) % size
         /\ size \in Nat \ {0} /\ logcount \in Nat
<1>1. /\ Len(written) <= calls /\ pos <= Len(written)
      /\ pos % size = Len(written) % size
  BY Zenon DEF RingInv
<1>2. pos \in Nat /\ logcount \in Nat /\ size \in Nat \ {0} /\ pos <= size
  BY DEF LogInv, TypeOK
<1>3. Len(written) \in Nat /\ calls \in Nat /\ calls <= MaxLogs
  BY LenProperties DEF RingTypes
<1> QED
  BY <1>1, <1>2, <1>3

\* A thread enters, counts its message and tests for the end.
LEMMA RingEntered ==
  ASSUME LogInv, RingTypes, RingInv, NEW t \in Threads,
         logging(t) \/ LoadCount(t) \/ StoreCount(t) \/ Test(t) \/ Load(t)
  PROVE  RingInv'
<1> SUFFICES ASSUME ~raced', state' = "up" PROVE RingInv'
  BY Zenon DEF RingInv
<1>1. UNCHANGED <<size, pos, buffer, state, written>> /\ ~raced
  <2>1. CASE logging(t)
    BY <2>1, Zenon DEF logging, lvars
  <2>2. CASE LoadCount(t) \/ StoreCount(t) \/ Test(t) \/ Load(t)
    BY <2>2 DEF LoadCount, StoreCount, Test, Load, lvars
  <2> QED
    BY <2>1, <2>2
<1>2. /\ Len(written) \in Nat /\ Len(written) <= calls /\ calls \in Nat
      /\ pos <= Len(written) /\ pos % size = Len(written) % size
      /\ logcount \in Nat
  BY <1>1, RingFacts
<1>3. \A m : Held(m)' = Held(m)
  BY <1>1, Zenon DEF Held
<1>4. CASE logging(t)
  <2>1. /\ at[t] = "out" /\ at' = [at EXCEPT ![t] = "count"]
        /\ calls' = calls + 1 /\ logcount' = logcount
    BY <1>4, Zenon DEF logging, lvars
  <2>2. Idle /\ \A u \in Threads : u # t => at[u] = "out"
    BY <1>4, Zenon DEF logging, Idle
  <2>3. logcount = Len(written) /\ Held(Len(written))
    BY <1>1, <2>2, Zenon DEF RingInv
  <2>4. at'[t] = "count"
    BY <2>1 DEF LogInv, TypeOK
  <2>5. Progress(t)'
    BY <1>1, <1>2, <1>3, <2>1, <2>3, <2>4 DEF Progress
  <2>6. /\ Len(written)' <= calls' /\ pos' <= Len(written)'
        /\ pos' % size' = Len(written)' % size' /\ "count" # "out"
    BY <1>1, <1>2, <2>1
  <2> QED
    BY <2>1, <2>2, <2>5, <2>6, RingOne, Zenon
<1>5. CASE LoadCount(t) \/ StoreCount(t) \/ Test(t) \/ Load(t)
  <2>1. /\ at[t] # "out" /\ calls' = calls /\ entry' = entry
    BY <1>5 DEF LoadCount, StoreCount, Test, Load
  <2>2. Progress(t) /\ \A u \in Threads : u # t => at[u] = "out"
    BY <1>1, <2>1, Alone, Zenon DEF RingInv
  <2>3. PICK x : x # "out" /\ at' = [at EXCEPT ![t] = x]
    BY <1>5 DEF LoadCount, StoreCount, Test, Load
  <2>4. Progress(t)'
    <3>1. at \in [Threads -> {"out", "count", "counted", "test", "wrap", "copy",
                              "load", "store"}]
          /\ reg \in [Threads -> Nat]
      BY DEF LogInv, TypeOK
    <3>2. CASE LoadCount(t)
      <4>1. /\ at[t] = "count" /\ at'[t] = "counted" /\ reg'[t] = logcount
            /\ logcount' = logcount
        BY <3>1, <3>2 DEF LoadCount, lvars
      <4> QED
        BY <1>1, <1>2, <1>3, <2>1, <2>2, <4>1 DEF Progress
    <3>3. CASE StoreCount(t)
      <4>1. at[t] = "counted" /\ at'[t] = "test" /\ logcount' = reg[t] + 1
        BY <3>1, <3>3 DEF StoreCount
      <4> QED
        BY <1>1, <1>2, <1>3, <2>1, <2>2, <4>1 DEF Progress
    <3>4. CASE Test(t)
      <4>1. /\ at[t] = "test" /\ logcount' = logcount
            /\ at'[t] = IF pos = size THEN "wrap" ELSE "copy"
        BY <3>1, <3>4 DEF Test, lvars
      <4> QED
        BY <1>1, <1>2, <1>3, <2>1, <2>2, <4>1 DEF Progress
    <3>5. CASE Load(t)
      <4>1. at[t] = "load" /\ at'[t] = "store" /\ logcount' = logcount
        BY <3>1, <3>5 DEF Load, lvars
      <4> QED
        BY <1>1, <1>2, <1>3, <2>1, <2>2, <4>1 DEF Progress
    <3> QED
      BY <1>5, <3>2, <3>3, <3>4, <3>5
  <2> QED
    BY <1>1, <1>2, <2>1, <2>2, <2>3, <2>4, RingOne
<1> QED
  BY <1>4, <1>5

\* The return to the start: the end and the start are the same place.
LEMMA RingWrapped ==
  ASSUME LogInv, RingTypes, RingInv, NEW t \in Threads, Wrap(t)
  PROVE  RingInv'
<1> SUFFICES ASSUME ~raced', state' = "up" PROVE RingInv'
  BY Zenon DEF RingInv
<1>1. /\ UNCHANGED <<size, logcount, buffer, state, written, raced, calls>>
      /\ at[t] = "wrap" /\ at' = [at EXCEPT ![t] = "copy"] /\ pos' = 0
  BY DEF Wrap
<1>2. /\ Len(written) \in Nat /\ Len(written) <= calls
      /\ pos % size = Len(written) % size /\ size \in Nat \ {0}
  BY <1>1, RingFacts
<1>3. Progress(t) /\ \A u \in Threads : u # t => at[u] = "out"
  BY <1>1, Alone, Zenon DEF RingInv
<1>4. pos = size
  BY <1>1, <1>3 DEF Progress
<1>5. 0 % size = Len(written) % size
  BY <1>2, <1>4
<1>6. \A m : Held(m)' = Held(m)
  BY <1>1, Zenon DEF Held
<1>7. at'[t] = "copy"
  BY <1>1 DEF LogInv, TypeOK
<1>8. Progress(t)'
  BY <1>1, <1>3, <1>6, <1>7 DEF Progress
<1>9. /\ Len(written)' <= calls' /\ pos' <= Len(written)'
      /\ pos' % size' = Len(written)' % size' /\ "copy" # "out"
  BY <1>1, <1>2, <1>5
<1> QED
  BY <1>1, <1>3, <1>8, <1>9, RingOne, Zenon

\* The copy overwrites the oldest message of a full ring and no other.
LEMMA RingCopied ==
  ASSUME LogInv, RingTypes, RingInv, NEW t \in Threads, Copy(t)
  PROVE  RingInv'
<1> SUFFICES ASSUME ~raced', state' = "up" PROVE RingInv'
  BY Zenon DEF RingInv
<1>1. /\ UNCHANGED <<entry, size, pos, logcount, state, written, raced, calls>>
      /\ at[t] = "copy" /\ at' = [at EXCEPT ![t] = "load"]
      /\ buffer' = [buffer EXCEPT ![pos] = entry[t]]
  BY DEF Copy, Alive
<1>2. /\ Len(written) \in Nat /\ Len(written) <= calls
      /\ calls \in Nat /\ calls <= MaxLogs /\ pos \in Nat
      /\ pos <= Len(written) /\ pos % size = Len(written) % size
      /\ size \in Nat \ {0}
  BY <1>1, RingFacts
<1>3. Progress(t) /\ \A u \in Threads : u # t => at[u] = "out"
  BY <1>1, Alone, Zenon DEF RingInv
<1>4. pos < size
  BY <1>1 DEF LogInv
<1>5. PICK n \in Nat : n = Len(written)
  BY <1>2
<1>6. pos = n % size
  BY <1>2, <1>4, <1>5, ModNext
<1>7. /\ Held(n) /\ n < calls /\ logcount = n + 1
  BY <1>1, <1>3, <1>5 DEF Progress
<1>8. pos \in 0..MaxLogs /\ buffer \in [0..MaxLogs -> Nat]
  BY <1>2, LoggerAssumption DEF RingTypes
<1>9. buffer'[pos] = entry[t]
  BY <1>1, <1>8
<1>10. ASSUME NEW i \in 1..n, i > n + 1 - size
       PROVE  buffer'[(i - 1) % size] = written[i]
  <2>1. i - 1 \in Nat /\ i - 1 < n /\ n - (i - 1) < size
    BY <1>2, <1>10
  <2>2. PICK k \in Nat : k = (i - 1) % size
    BY <1>2, <2>1, Place
  <2>3. k # pos
    BY <1>2, <1>6, <2>1, <2>2, ModApart
  <2>4. k \in 0..MaxLogs
    BY <1>2, <1>5, <2>1, <2>2, Place, LoggerAssumption
  <2>5. buffer'[k] = buffer[k]
    BY <1>1, <1>8, <2>3, <2>4
  <2>6. i > n - size
    BY <1>2, <1>10
  <2>7. buffer[k] = written[i]
    BY <1>5, <1>7, <2>2, <2>6 DEF Held, HeldIn
  <2> QED
    BY <2>2, <2>5, <2>7
<1>11. Held(n + 1)'
  <2>1. PICK b : b = buffer'
    OBVIOUS
  <2>2. HeldIn(b, size, written, n + 1)
    BY <1>2, <1>5, <1>10, <2>1 DEF HeldIn
  <2> QED
    BY <1>1, <2>1, <2>2, Zenon DEF Held
<1>12. at'[t] = "load"
  BY <1>1 DEF LogInv, TypeOK
<1>13. Progress(t)'
  BY <1>1, <1>5, <1>7, <1>9, <1>11, <1>12 DEF Progress
<1> QED
  BY <1>1, <1>2, <1>3, <1>13, RingOne

\* With the advance the message is one of the written ones.
LEMMA RingStored ==
  ASSUME LogInv, RingTypes, RingInv, NEW t \in Threads, Store(t)
  PROVE  RingInv'
<1> SUFFICES ASSUME ~raced', state' = "up" PROVE RingInv'
  BY Zenon DEF RingInv
<1>1. /\ UNCHANGED <<size, logcount, buffer, state, raced, calls>>
      /\ at[t] = "store" /\ at' = [at EXCEPT ![t] = "out"]
      /\ pos' = reg[t] + 1 /\ written' = Append(written, entry[t])
  BY DEF Store
<1>2. /\ Len(written) \in Nat /\ calls \in Nat /\ pos \in Nat
      /\ pos <= Len(written) /\ pos % size = Len(written) % size
      /\ size \in Nat \ {0}
  BY <1>1, RingFacts
<1>3. Progress(t) /\ \A u \in Threads : u # t => at[u] = "out"
  BY <1>1, Alone, Zenon DEF RingInv
<1>4. pos < size /\ reg[t] = pos
  BY <1>1 DEF LogInv
<1>5. PICK n \in Nat : n = Len(written)
  BY <1>2
<1>6. pos = n % size /\ (pos + 1) % size = (n + 1) % size
  BY <1>2, <1>4, <1>5, ModNext
<1>7. n < calls /\ logcount = n + 1 /\ buffer[pos] = entry[t] /\ Held(n + 1)
  BY <1>1, <1>3, <1>5 DEF Progress
<1>8. entry[t] \in Nat
  BY DEF LogInv, TypeOK
<1>9. /\ Len(written') = n + 1 /\ written'[n + 1] = entry[t]
      /\ \A i \in 1..n : written'[i] = written[i]
  BY <1>1, <1>5, <1>8, AppendProperties DEF RingTypes
<1>10. Idle'
  BY <1>1, <1>3 DEF Idle, LogInv, TypeOK
<1>11. ASSUME NEW i \in 1..(n + 1), i > n + 1 - size
       PROVE  buffer[(i - 1) % size] = written'[i]
  <2>1. CASE i = n + 1
    <3>1. i - 1 = n
      BY <2>1
    <3> QED
      BY <1>6, <1>7, <1>9, <2>1, <3>1
  <2>2. CASE i # n + 1
    <3>1. i \in 1..n
      BY <2>2
    <3>2. buffer[(i - 1) % size] = written[i]
      BY <1>2, <1>5, <1>7, <1>11, <3>1 DEF Held, HeldIn
    <3> QED
      BY <1>9, <3>1, <3>2, Zenon
  <2> QED
    BY <2>1, <2>2
<1>12. Held(Len(written))'
  <2>1. PICK w : w = written'
    OBVIOUS
  <2>2. HeldIn(buffer, size, w, n + 1)
    BY <1>2, <1>9, <1>11, <2>1 DEF HeldIn
  <2> QED
    BY <1>1, <1>9, <2>1, <2>2, Zenon DEF Held
<1>13. \A u \in Threads : at'[u] = "out"
  BY <1>10 DEF Idle
<1>14. /\ Len(written') <= calls' /\ pos' <= Len(written')
       /\ pos' % size' = Len(written') % size' /\ logcount' = Len(written')
  <2>1. pos' = pos + 1 /\ size' = size /\ logcount' = n + 1 /\ calls' = calls
    BY <1>1, <1>4, <1>7, Zenon
  <2>2. pos + 1 <= n + 1 /\ n + 1 <= calls
    BY <1>2, <1>5, <1>7
  <2> QED
    BY <1>6, <1>9, <2>1, <2>2, Zenon
<1> QED
  BY <1>12, <1>13, <1>14, Zenon DEF RingInv

\* Every step keeps the ring in order, unless calls overlap.
LEMMA RingStep == LogInv /\ RingTypes /\ RingInv /\ [Next]_vars => RingInv'
<1> SUFFICES ASSUME LogInv, RingTypes, RingInv, [Next]_vars PROVE RingInv'
  OBVIOUS
<1>1. CASE init_logd
  <2> SUFFICES ASSUME state' = "up", ~raced' PROVE RingInv'
    BY Zenon DEF RingInv
  <2>1. /\ state = "down" /\ pos' = 0 /\ logcount' = 0 /\ written' = << >>
        /\ UNCHANGED <<at, calls>> /\ size' \in Nat \ {0}
    BY <1>1, LoggerAssumption DEF init_logd
  <2>2. calls \in Nat
    BY DEF RingTypes
  <2>3. Len(written') = 0
    BY <2>1
  <2>4. \A u \in Threads : at'[u] = "out"
    <3>1. Idle
      BY <1>1, Zenon DEF init_logd
    <3> QED
      BY <2>1, <3>1 DEF Idle
  <2>5. Held(Len(written))'
    BY <2>3 DEF Held, HeldIn
  <2>6. Len(written') <= calls' /\ pos' <= Len(written')
    BY <2>1, <2>2, <2>3
  <2> QED
    BY <2>1, <2>3, <2>4, <2>5, <2>6, Zenon DEF RingInv
<1>2. CASE deinit_logd
  BY <1>2 DEF deinit_logd, RingInv
<1>3. CASE UNCHANGED vars
  BY <1>3, Zenon DEF vars, RingInv, Idle, Held, Progress
<1>4. ASSUME NEW t \in Threads,
             logging(t) \/ LoadCount(t) \/ StoreCount(t) \/ append_log(t)
      PROVE  RingInv'
  BY <1>4, RingEntered, RingWrapped, RingCopied, RingStored DEF append_log
<1> QED
  BY <1>1, <1>2, <1>3, <1>4 DEF Next

\* While calls of logging() overlap neither each other nor initiate() and
\* deinitiate(), the ring holds the latest messages, each in its place, and
\* logc.logcount counts all of them.
THEOREM LatestHeld == Spec => []RingHoldsLatest
<1>1. Init => RingTypes /\ RingInv
  <2> SUFFICES ASSUME Init PROVE RingTypes /\ RingInv
    OBVIOUS
  <2>1. << >> \in Seq(Nat)
    OBVIOUS
  <2> QED
    BY <2>1, LoggerAssumption DEF Init, RingTypes, RingInv
<1>2. RingInv => RingHoldsLatest
  BY Zenon DEF RingInv, RingHoldsLatest, Held, HeldIn
<1> QED
  BY <1>1, <1>2, RingTypesStep, RingStep, LogSafe, PTL DEF Spec
=============================================================================
