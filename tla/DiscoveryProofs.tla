--------------------------- MODULE DiscoveryProofs ---------------------------
(***************************************************************************)
(* Machine-checked proofs about Discovery, for every number of casters,    *)
(* every configuration, interval and try count, and every budget of the    *)
(* environment.                                                            *)
(***************************************************************************)
EXTENDS Discovery, InfostrProofs, FiniteSetTheorems

-----------------------------------------------------------------------------
(***************************************************************************)
(* The inductive invariant.                                                *)
(***************************************************************************)
Places == {"loop", "poll", "close", "done", "exited", "crashed"}

\* The tries left and the failures since the last announcement add up to
\* sp_trycount, and the loop goes on exactly while tries are left.
TriesInv ==
  /\ scan_at \in Places
  /\ sp_try \in 0..sp_trycount /\ errors \in Nat
  /\ sp_try + errors = sp_trycount
  /\ scan_at \in {"loop", "poll", "done"} => sp_try # 0
  /\ scan_at = "exited" => sp_try = 0

\* The moment at which the loop's test fails.
End == sp_interval * TPS

\* A prompt scan polls only within its time, and not beyond the limit of poll().
TimeInv ==
  /\ world \in Worlds /\ now \in Nat /\ deadline \in Nat /\ start_time = 0
  /\ world.prompt =>
       /\ scan_at = "poll" => now <= deadline /\ deadline < End + spt_cast
       /\ scan_at = "loop" => now < End + spt_cast
  /\ scan_at = "close" /\ sp_try # 0 => now >= End

Datagrams == [kind : {"CAST"}, from : Casters] \union [kind : {"other", "short"}]

\* The socket, the casters and the list.
CastInv ==
  /\ queue \in Seq(Datagrams) /\ Len(queue) <= MaxQueue
  /\ wake \in [Casters -> Nat] /\ trycount \in [Casters -> Nat]
  /\ \E S : info \in Seq(S)

Listed(c) == \E i \in 1..Len(info) : info[i].from = c
Queued(c) == \E i \in 1..Len(queue) : queue[i] = [kind |-> "CAST", from |-> c]

\* The first announcement of c is still to come, and comes in time.
Expected(c) == trycount[c] # 0 /\ now <= wake[c] /\ wake[c] < End

\* A caster of which nothing was lost is listed, or will be in time.
FoundInv ==
  world.prompt /\ sp_interval > bc_interval =>
    /\ scan_at \in {"loop", "poll", "close"} =>
         \A c \in Casters \ unheard :
           Listed(c) \/ (now < End /\ Queued(c)) \/ Expected(c)
    /\ scan_at = "done" => \A c \in Casters \ unheard : Listed(c)

\* Where the short datagrams in the socket are.
ShortAt == {i \in 1..Len(queue) : queue[i].kind = "short"}

\* Each failure, met or still in the socket, is one the environment has caused.
BlameInv ==
  /\ spent \in [Kinds -> Nat]
  /\ errors + Cardinality(ShortAt) <= spent["recvfail"] + spent["short"]

ScanInv == TriesInv /\ TimeInv /\ CastInv /\ FoundInv /\ BlameInv
-----------------------------------------------------------------------------
(***************************************************************************)
(* Lemmas.                                                                 *)
(***************************************************************************)
\* The intervals and limits are positive, in seconds and in ticks.
LEMMA Constants ==
  /\ TPS \in Nat \ {0} /\ spt_cast \in Nat \ {0} /\ MaxQueue \in Nat \ {0}
  /\ bc_interval \in Nat \ {0} /\ bc_trycount \in Nat \ {0}
  /\ sp_interval \in Nat \ {0} /\ sp_trycount \in Nat \ {0}
  /\ bc_interval * TPS \in Nat /\ End \in Nat
<1>1. {TPS, bc_interval, bc_trycount, sp_interval, sp_trycount, spt_cast,
       MaxNow, MaxQueue} \subseteq Nat \ {0}
  BY DiscoveryAssumption, Zenon
<1> QED
  BY <1>1 DEF End

\* time() is below n exactly while the clock is below n seconds.
LEMMA Seconds ==
  ASSUME NEW a \in Nat, NEW b \in Nat \ {0}, NEW n \in Nat
  PROVE  a \div b < n <=> a < n * b
<1>1. (a \div b) \in Nat /\ (a \div b) * b <= a /\ a < (a \div b) * b + b
  BY SMT
<1> DEFINE q == a \div b
<1> HIDE DEF q
<1>2. ASSUME q < n PROVE a < n * b
  <2>1. (q + 1) * b <= n * b /\ (q + 1) * b = q * b + b
    BY <1>1, <1>2 DEF q
  <2> QED
    BY <1>1, <2>1 DEF q
<1>3. ASSUME n <= q PROVE n * b <= a
  <2>1. n * b <= q * b
    BY <1>1, <1>3 DEF q
  <2> QED
    BY <1>1, <2>1 DEF q
<1> QED
  BY <1>1, <1>2, <1>3 DEF q

\* What arrives goes behind what is there, as far as there is room.
LEMMA Arrival ==
  ASSUME NEW D, NEW q \in Seq(D), NEW ds \in Seq(D), NEW n \in Nat, Len(q) <= n
  PROVE  LET r == cut(q \o ds, n)
         IN  /\ r \in Seq(D) /\ Len(r) <= n /\ Len(q) <= Len(r)
             /\ \A i \in 1..Len(q) : r[i] = q[i]
             /\ \A i \in 1..Len(r) : i > Len(q) =>
                  i - Len(q) \in 1..Len(ds) /\ r[i] = ds[i - Len(q)]
             /\ Len(r) = Len(q) => r = q
<1> DEFINE s == q \o ds
           r == cut(s, n)
<1>1. /\ s \in Seq(D) /\ Len(s) = Len(q) + Len(ds)
      /\ Len(q) \in Nat /\ Len(ds) \in Nat
      /\ \A i \in 1..Len(q) + Len(ds) :
           s[i] = IF i <= Len(q) THEN q[i] ELSE ds[i - Len(q)]
  BY ConcatProperties, LenProperties
<1>2. /\ r \in Seq(D) /\ \A i \in 1..Len(r) : r[i] = s[i]
      /\ Len(r) = IF Len(q) + Len(ds) < n THEN Len(q) + Len(ds) ELSE n
  <2> HIDE DEF s
  <2>1. /\ r \in Seq(D) /\ \A i \in 1..Len(r) : r[i] = s[i]
        /\ Len(r) = IF Len(s) < n THEN Len(s) ELSE n
    BY <1>1, CutFacts, Zenon
  <2> QED
    BY <1>1, <2>1
<1> HIDE DEF r, s
<1>3. Len(r) \in Nat /\ Len(r) <= n /\ Len(q) <= Len(r)
      /\ Len(r) <= Len(q) + Len(ds)
  BY <1>1, <1>2
<1>4. \A i \in 1..Len(r) : r[i] = IF i <= Len(q) THEN q[i] ELSE ds[i - Len(q)]
  BY <1>1, <1>2, <1>3
<1>5. \A i \in 1..Len(q) : r[i] = q[i]
  BY <1>1, <1>3, <1>4
<1>6. \A i \in 1..Len(r) : i > Len(q) =>
        i - Len(q) \in 1..Len(ds) /\ r[i] = ds[i - Len(q)]
  BY <1>1, <1>3, <1>4
<1>7. Len(r) = Len(q) => r = q
  BY <1>2, <1>5, SeqEqual
<1> QED
  BY <1>2, <1>3, <1>5, <1>6, <1>7 DEF r, s
-----------------------------------------------------------------------------
(***************************************************************************)
(* Each part of the invariant is kept by every step.                       *)
(***************************************************************************)
LEMMA ScanInit == Init => ScanInv
<1> SUFFICES ASSUME Init PROVE ScanInv
  OBVIOUS
<1>0. /\ world \in Worlds /\ now \in 0..(TPS - 1)
      /\ start_time = now \div TPS /\ deadline = now
  BY Zenon DEF Init, time
<1>1. scan_at = "loop" /\ sp_try = sp_trycount /\ errors = 0
  BY Zenon DEF Init
<1>2. /\ wake \in [Casters -> 0..(bc_interval * TPS + now)]
      /\ \A c \in Casters : wake[c] >= now
      /\ trycount = [c \in Casters |-> bc_trycount]
  BY Zenon DEF Init
<1>3. queue = << >> /\ info = << >>
  BY Zenon DEF Init
<1> HIDE DEF Init
<1>4. TriesInv
  BY <1>1, Constants DEF TriesInv, Places
<1>5. now \in Nat /\ now < TPS /\ start_time = 0
  BY <1>0, Constants
<1>6. /\ TPS <= End
      /\ sp_interval > bc_interval => bc_interval * TPS + TPS <= End
  <2>1. 1 * TPS <= sp_interval * TPS
    BY Constants
  <2>2. sp_interval > bc_interval => (bc_interval + 1) * TPS <= sp_interval * TPS
    BY Constants
  <2>3. (bc_interval + 1) * TPS = bc_interval * TPS + TPS
    BY Constants
  <2> QED
    BY <2>1, <2>2, <2>3, Constants DEF End
<1>7. TimeInv
  BY <1>0, <1>1, <1>5, <1>6, Constants DEF TimeInv
<1>8. \A c \in Casters : wake[c] \in Nat /\ now <= wake[c]
                         /\ wake[c] <= bc_interval * TPS + now
  BY <1>2, <1>5, Constants
<1>9. CastInv
  <2>1. wake \in [Casters -> Nat] /\ trycount \in [Casters -> Nat]
    BY <1>2, <1>8, Constants
  <2>2. Len(<< >>) <= MaxQueue
    BY Constants
  <2> QED
    BY <1>3, <2>1, <2>2, EmptySeq DEF CastInv
<1>10. FoundInv
  <2> SUFFICES ASSUME sp_interval > bc_interval, NEW c \in Casters
               PROVE  Expected(c)
    BY <1>1 DEF FoundInv
  <2>1. wake[c] < End
    BY <1>5, <1>6, <1>8, Constants
  <2>2. trycount[c] # 0
    BY <1>2, Constants
  <2> QED
    BY <1>8, <2>1, <2>2 DEF Expected
<1>11. BlameInv
  <2>1. ShortAt = {}
    BY <1>3 DEF ShortAt
  <2>2. Cardinality(ShortAt) = 0
    BY <2>1, FS_EmptySet
  <2>3. spent = [k \in Kinds |-> 0]
    BY Zenon DEF Init
  <2> QED
    BY <1>1, <2>2, <2>3 DEF BlameInv, Kinds
<1> QED
  BY <1>4, <1>7, <1>9, <1>10, <1>11 DEF ScanInv

\* A failed receive takes one try, an announcement gives all of them back.
LEMMA TriesStep == TriesInv /\ [Next]_vars => TriesInv'
<1> SUFFICES ASSUME TriesInv, [Next]_vars PROVE TriesInv'
  OBVIOUS
<1>0. sp_trycount \in Nat \ {0} /\ sp_try \in 0..sp_trycount
  BY Constants DEF TriesInv
<1> USE <1>0 DEF TriesInv, Places
<1>1. CASE UNCHANGED <<scan_at, sp_try, errors>>
  BY <1>1
<1>2. CASE ScanTest
  BY <1>2 DEF ScanTest
<1>3. CASE pull_CAST
  BY <1>3 DEF pull_CAST, ScanBack
<1>4. CASE pull_CAST_no_memory
  BY <1>4 DEF pull_CAST_no_memory
<1>5. CASE pull_error
  BY <1>5 DEF pull_error, ScanBack
<1>6. CASE pull_ignored
  BY <1>6 DEF pull_ignored, ScanBack
<1>7. CASE ScanClose
  BY <1>7 DEF ScanClose
<1>8. CASE Broadcast \/ Foreign \/ Tick \/ UNCHANGED vars
  BY <1>1, <1>8 DEF Broadcast, push_broadcast_header, push_broadcast_fails,
     Foreign, Tick, vars, svars
<1> QED
  BY <1>2, <1>3, <1>4, <1>5, <1>6, <1>7, <1>8 DEF Next, Scan

\* The clock of a prompt scan does not pass the end of a poll().
LEMMA TimeStep == TriesInv /\ TimeInv /\ [Next]_vars => TimeInv'
<1> SUFFICES ASSUME TriesInv, TimeInv, [Next]_vars PROVE TimeInv'
  OBVIOUS
<1>0. /\ spt_cast \in Nat \ {0} /\ End \in Nat /\ now \in Nat
      /\ deadline \in Nat /\ start_time = 0
      /\ TPS \in Nat \ {0} /\ sp_interval \in Nat
  BY Constants DEF TimeInv
<1>1. CASE UNCHANGED <<world, now, scan_at, start_time, deadline, sp_try>>
  BY <1>1 DEF TimeInv
<1>2. CASE ScanTest
  <2>1. time - start_time < sp_interval <=> now < End
    <3>1. time = now \div TPS /\ time \in Nat
      BY <1>0 DEF time
    <3>2. now \div TPS < sp_interval <=> now < sp_interval * TPS
      BY <1>0, Seconds
    <3> QED
      BY <1>0, <3>1, <3>2 DEF End
  <2>2. CASE now < End
    BY <1>0, <1>2, <2>1, <2>2 DEF ScanTest, TimeInv
  <2>3. CASE ~(now < End)
    BY <1>0, <1>2, <2>1, <2>3 DEF ScanTest, TimeInv
  <2> QED
    BY <2>2, <2>3
<1>3. CASE pull_CAST \/ pull_error \/ pull_ignored
  <2>1. /\ scan_at = "poll" /\ UNCHANGED <<world, now, start_time, deadline>>
        /\ scan_at' = IF sp_try' = 0 THEN "close" ELSE "loop"
    BY <1>3 DEF pull_CAST, pull_error, pull_ignored, ScanBack
  <2> QED
    BY <1>0, <2>1 DEF TimeInv
<1>4. CASE pull_CAST_no_memory
  BY <1>4 DEF pull_CAST_no_memory, TimeInv
<1>5. CASE ScanClose
  BY <1>5 DEF ScanClose, TimeInv
<1>6. CASE Tick
  <2>1. /\ now' = now + 1 /\ UNCHANGED <<world, svars>>
        /\ world.prompt => ~Ready
    BY <1>6 DEF Tick
  <2>2. CASE world.prompt
    <3>1. scan_at \notin {"loop", "close"} /\ (scan_at = "poll" => ~(now >= deadline))
      BY <2>1, <2>2 DEF Ready
    <3> QED
      BY <1>0, <2>1, <3>1 DEF TimeInv, svars
  <2>3. CASE ~world.prompt
    BY <1>0, <2>1, <2>3 DEF TimeInv, svars
  <2> QED
    BY <2>2, <2>3
<1>7. CASE Broadcast \/ Foreign \/ UNCHANGED vars
  BY <1>1, <1>7 DEF Broadcast, push_broadcast_header, push_broadcast_fails,
     Foreign, vars, svars
<1> QED
  BY <1>2, <1>3, <1>4, <1>5, <1>6, <1>7 DEF Next, Scan
\* The datagrams of an action that adds some.
LEMMA ArriveKept ==
  ASSUME CastInv, NEW ds \in Seq(Datagrams), Arrive(ds)
  PROVE  /\ queue' \in Seq(Datagrams) /\ Len(queue') <= MaxQueue
         /\ Len(queue) \in Nat /\ Len(queue') \in Nat
         /\ Len(queue) <= Len(queue')
         /\ \A i \in 1..Len(queue) : queue'[i] = queue[i]
         /\ \A i \in 1..Len(queue') : i > Len(queue) =>
              i - Len(queue) \in 1..Len(ds) /\ queue'[i] = ds[i - Len(queue)]
         /\ Len(queue') = Len(queue) => queue' = queue
<1>1. /\ queue \in Seq(Datagrams) /\ Len(queue) <= MaxQueue
      /\ queue' = cut(queue \o ds, MaxQueue)
  BY DEF CastInv, Arrive
<1> DEFINE r == cut(queue \o ds, MaxQueue)
<1>2. /\ r \in Seq(Datagrams) /\ Len(r) <= MaxQueue /\ Len(queue) <= Len(r)
      /\ \A i \in 1..Len(queue) : r[i] = queue[i]
      /\ \A i \in 1..Len(r) : i > Len(queue) =>
           i - Len(queue) \in 1..Len(ds) /\ r[i] = ds[i - Len(queue)]
      /\ Len(r) = Len(queue) => r = queue
  <2>1. MaxQueue \in Nat
    BY Constants
  <2> QED
    BY <1>1, <2>1, Arrival, Zenon
<1>3. queue' = r
  BY <1>1
<1> HIDE DEF r
<1> QED
  BY <1>1, <1>2, <1>3, LenProperties

\* A CAST datagram, once or twice.
LEMMA Announcement ==
  ASSUME NEW c \in Casters, NEW d, d = [kind |-> "CAST", from |-> c]
  PROVE  /\ d \in Datagrams
         /\ <<d>> \in Seq(Datagrams) /\ <<d, d>> \in Seq(Datagrams)
         /\ \A i \in 1..Len(<<d>>) : <<d>>[i] = d
         /\ \A i \in 1..Len(<<d, d>>) : <<d, d>>[i] = d
<1>1. d \in Datagrams
  BY DEF Datagrams
<1>2. <<d>> \in Seq(Datagrams) /\ <<d, d>> \in Seq(Datagrams)
  BY <1>1
<1>3. Len(<<d>>) = 1 /\ Len(<<d, d>>) = 2
  OBVIOUS
<1> QED
  BY <1>1, <1>2, <1>3

\* An announcement is queued unless there is no room for it, and none that is
\* queued is lost.
LEMMA Announced ==
  ASSUME CastInv, NEW c \in Casters, push_broadcast_header(c)
  PROVE  /\ queue' \in Seq(Datagrams) /\ Len(queue') <= MaxQueue
         /\ \A b \in Casters : Queued(b) => Queued(b)'
         /\ c \notin unheard' => Queued(c)'
<1> DEFINE d == [kind |-> "CAST", from |-> c]
<1>1. /\ d \in Datagrams /\ <<d>> \in Seq(Datagrams)
      /\ <<d, d>> \in Seq(Datagrams)
      /\ \A i \in 1..Len(<<d>>) : <<d>>[i] = d
      /\ \A i \in 1..Len(<<d, d>>) : <<d, d>>[i] = d
  BY Announcement, Zenon
<1>2. unheard' = IF queue' = queue THEN unheard \union {c} ELSE unheard
  BY DEF push_broadcast_header
<1>3. ASSUME NEW ds \in Seq(Datagrams), Arrive(ds),
             \A i \in 1..Len(ds) : ds[i] = d
      PROVE  /\ queue' \in Seq(Datagrams) /\ Len(queue') <= MaxQueue
             /\ \A b \in Casters : Queued(b) => Queued(b)'
             /\ queue' # queue => Queued(c)'
  <2> HIDE DEF d
  <2>1. /\ queue' \in Seq(Datagrams) /\ Len(queue') <= MaxQueue
        /\ Len(queue) \in Nat /\ Len(queue') \in Nat
        /\ Len(queue) <= Len(queue')
        /\ \A i \in 1..Len(queue) : queue'[i] = queue[i]
        /\ \A i \in 1..Len(queue') : i > Len(queue) =>
             i - Len(queue) \in 1..Len(ds) /\ queue'[i] = ds[i - Len(queue)]
        /\ Len(queue') = Len(queue) => queue' = queue
    BY <1>3, ArriveKept
  <2>2. \A b \in Casters : Queued(b) => Queued(b)'
    BY <2>1 DEF Queued
  <2>3. ASSUME queue' # queue PROVE Queued(c)'
    <3>1. Len(queue') \in 1..Len(queue') /\ Len(queue') > Len(queue)
      BY <2>1, <2>3
    <3>2. queue'[Len(queue')] = d
      BY <1>3, <2>1, <3>1
    <3> QED
      BY <3>1, <3>2 DEF Queued, d
  <2> QED
    BY <2>1, <2>2, <2>3
<1>4. Arrive(<<d>>) \/ Arrive(<<d, d>>) \/ queue' = queue
  BY DEF push_broadcast_header
<1>5. CASE queue' = queue
  BY <1>2, <1>5 DEF CastInv, Queued
<1>6. CASE Arrive(<<d>>)
  BY <1>1, <1>2, <1>3, <1>6
<1>7. CASE Arrive(<<d, d>>)
  BY <1>1, <1>2, <1>3, <1>7
<1> QED
  BY <1>4, <1>5, <1>6, <1>7

\* Other traffic does not displace an announcement.
LEMMA ForeignKept ==
  ASSUME CastInv, Foreign
  PROVE  /\ queue' \in Seq(Datagrams) /\ Len(queue') <= MaxQueue
         /\ \A b \in Casters : Queued(b) => Queued(b)'
<1>1. PICK k \in {"other", "short"} : Arrive(<<[kind |-> k]>>)
  BY DEF Foreign
<1> DEFINE ds == <<[kind |-> k]>>
<1>2. ds \in Seq(Datagrams)
  <2>1. [kind |-> k] \in Datagrams
    BY DEF Datagrams
  <2> QED
    BY <2>1
<1>3. Arrive(ds)
  BY <1>1
<1> HIDE DEF ds
<1>4. /\ queue' \in Seq(Datagrams) /\ Len(queue') <= MaxQueue
      /\ Len(queue) \in Nat /\ Len(queue') \in Nat
      /\ Len(queue) <= Len(queue')
      /\ \A i \in 1..Len(queue) : queue'[i] = queue[i]
  BY <1>2, <1>3, ArriveKept
<1> QED
  BY <1>4 DEF Queued

\* Taking a datagram leaves the others.
LEMMA TakeKept ==
  ASSUME CastInv, queue # << >>, queue' = Tail(queue)
  PROVE  /\ queue' \in Seq(Datagrams) /\ Len(queue') <= MaxQueue
         /\ Head(queue) \in Datagrams
         /\ \A b \in Casters : Queued(b) =>
              Queued(b)' \/ Head(queue) = [kind |-> "CAST", from |-> b]
<1>1. /\ queue \in Seq(Datagrams) /\ Len(queue) \in Nat /\ MaxQueue \in Nat
      /\ Len(queue) <= MaxQueue
  BY Constants, LenProperties DEF CastInv
<1>2. /\ queue' \in Seq(Datagrams) /\ Len(queue') = Len(queue) - 1
      /\ Head(queue) \in Datagrams /\ Head(queue) = queue[1]
      /\ \A i \in 1..Len(Tail(queue)) : Tail(queue)[i] = queue[i + 1]
  <2>1. Head(queue) = queue[1]
    BY <1>1
  <2>2. /\ Head(queue) \in Datagrams /\ Tail(queue) \in Seq(Datagrams)
        /\ Len(Tail(queue)) = Len(queue) - 1
        /\ \A i \in 1..Len(Tail(queue)) : Tail(queue)[i] = queue[i + 1]
    BY <1>1, HeadTailProperties
  <2> QED
    BY <2>1, <2>2
<1>3. ASSUME NEW b \in Casters, Queued(b), Head(queue) # [kind |-> "CAST", from |-> b]
      PROVE  Queued(b)'
  <2>1. PICK i \in 1..Len(queue) : queue[i] = [kind |-> "CAST", from |-> b]
    BY <1>3 DEF Queued
  <2>2. i # 1
    BY <1>2, <1>3, <2>1
  <2>3. i - 1 \in 1..Len(queue') /\ queue'[i - 1] = queue[i]
    BY <1>1, <1>2, <2>2
  <2> QED
    BY <2>1, <2>3 DEF Queued
<1>4. Len(queue') <= MaxQueue
  BY <1>1, <1>2
<1> QED
  BY <1>2, <1>3, <1>4, Zenon

\* Socket, casters and list keep their types, and the socket its capacity.
LEMMA CastStep == TimeInv /\ CastInv /\ [Next]_vars => CastInv'
<1> SUFFICES ASSUME TimeInv, CastInv, [Next]_vars PROVE CastInv'
  OBVIOUS
<1>0. /\ wake \in [Casters -> Nat] /\ trycount \in [Casters -> Nat]
      /\ now \in Nat
  BY DEF CastInv, TimeInv
<1>1. CASE UNCHANGED <<queue, wake, trycount, info>>
  BY <1>1 DEF CastInv
<1>2. CASE Broadcast
  <2>1. PICK c \in Casters : push_broadcast_header(c) \/ push_broadcast_fails(c)
    BY <1>2 DEF Broadcast
  <2>2. info' = info
    BY <2>1 DEF push_broadcast_header, push_broadcast_fails, svars
  <2>3. wake' \in [Casters -> Nat]
    <3>1. wake' = [wake EXCEPT ![c] = now + bc_interval * TPS]
      BY <2>1 DEF push_broadcast_header, push_broadcast_fails, Sleep
    <3>2. now + bc_interval * TPS \in Nat
      BY <1>0, Constants
    <3> QED
      BY <1>0, <3>1, <3>2
  <2>4. trycount' \in [Casters -> Nat]
    <3>1. CASE push_broadcast_header(c)
      BY <1>0, <3>1, Constants DEF push_broadcast_header
    <3>2. CASE push_broadcast_fails(c)
      <4>1. trycount[c] # 0 /\ trycount' = [trycount EXCEPT ![c] = @ - 1]
        BY <3>2 DEF push_broadcast_fails, Due
      <4> QED
        BY <1>0, <4>1
    <3> QED
      BY <2>1, <3>1, <3>2
  <2>5. queue' \in Seq(Datagrams) /\ Len(queue') <= MaxQueue
    <3>1. CASE push_broadcast_header(c)
      BY <3>1, Announced
    <3>2. CASE push_broadcast_fails(c)
      BY <3>2 DEF push_broadcast_fails, CastInv
    <3> QED
      BY <2>1, <3>1, <3>2
  <2> QED
    BY <2>2, <2>3, <2>4, <2>5 DEF CastInv
<1>3. CASE Foreign
  <2>1. queue' \in Seq(Datagrams) /\ Len(queue') <= MaxQueue
    BY <1>3, ForeignKept
  <2>2. UNCHANGED <<wake, trycount, info>>
    BY <1>3 DEF Foreign, cvars, svars
  <2> QED
    BY <2>1, <2>2 DEF CastInv
<1>4. CASE pull_CAST
  <2>1. queue' \in Seq(Datagrams) /\ Len(queue') <= MaxQueue
    BY <1>4, TakeKept DEF pull_CAST
  <2>2. PICK e : info' = Append(info, e)
    BY <1>4, Zenon DEF pull_CAST
  <2>3. PICK S : info \in Seq(S)
    BY DEF CastInv
  <2>4. info \in Seq(S \union {e})
    BY <2>3, SeqMonotonic
  <2>5. info' \in Seq(S \union {e})
    BY <2>2, <2>4, AppendProperties
  <2>6. UNCHANGED <<wake, trycount>>
    BY <1>4 DEF pull_CAST, cvars
  <2> QED
    BY <2>1, <2>5, <2>6 DEF CastInv
<1>5. CASE pull_CAST_no_memory \/ pull_error \/ pull_ignored
  <2>1. UNCHANGED <<wake, trycount, info>>
        /\ (queue' = queue \/ (queue # << >> /\ queue' = Tail(queue)))
    BY <1>5 DEF pull_CAST_no_memory, pull_error, pull_ignored, cvars
  <2>2. queue' \in Seq(Datagrams) /\ Len(queue') <= MaxQueue
    BY <2>1, TakeKept DEF CastInv
  <2> QED
    BY <2>1, <2>2 DEF CastInv
<1>6. CASE ScanTest \/ ScanClose \/ Tick \/ UNCHANGED vars
  BY <1>1, <1>6 DEF ScanTest, ScanClose, Tick, vars, cvars, svars
<1> QED
  BY <1>2, <1>3, <1>4, <1>5, <1>6 DEF Next, Scan

\* A listed caster stays listed, and pull_CAST() lists the one it hears.
LEMMA ListedKept ==
  ASSUME CastInv, NEW e, info' = Append(info, e)
  PROVE  /\ \A c \in Casters : Listed(c) => Listed(c)'
         /\ Listed(e.from)'
<1>1. PICK S : info \in Seq(S)
  BY DEF CastInv
<1>2. info \in Seq(S \union {e})
  BY <1>1, SeqMonotonic
<1>3. /\ Len(info') = Len(info) + 1 /\ Len(info) \in Nat
      /\ \A i \in 1..Len(info) : info'[i] = info[i]
      /\ info'[Len(info) + 1] = e
  BY <1>2, AppendProperties, LenProperties
<1>4. Len(info) + 1 \in 1..Len(info') /\ \A i \in 1..Len(info) : i \in 1..Len(info')
  BY <1>3
<1> QED
  BY <1>3, <1>4, Zenon DEF Listed
\* What FoundInv says of a running scan.
InTime(c) == Listed(c) \/ (now < End /\ Queued(c)) \/ Expected(c)

\* No step lets a caster of which nothing was lost be missed.
LEMMA FoundStep == ScanInv /\ [Next]_vars => FoundInv'
<1> SUFFICES ASSUME ScanInv, [Next]_vars, world.prompt',
                    sp_interval > bc_interval
             PROVE  /\ (scan_at \in {"loop", "poll", "close"})' =>
                         \A c \in Casters \ unheard' : InTime(c)'
                    /\ (scan_at = "done")' =>
                         \A c \in Casters \ unheard' : Listed(c)'
  BY DEF FoundInv, InTime
<1>0. /\ TriesInv /\ CastInv /\ now \in Nat /\ End \in Nat
      /\ wake \in [Casters -> Nat] /\ trycount \in [Casters -> Nat]
  BY Constants DEF ScanInv, CastInv, TimeInv
<1>p. world' = world
  BY DEF Next, Broadcast, push_broadcast_header, push_broadcast_fails, Foreign,
     Scan, ScanTest, pull_CAST, pull_CAST_no_memory, pull_error, pull_ignored,
     ScanClose, Tick, vars
<1>1. /\ scan_at \in {"loop", "poll", "close"} =>
           \A c \in Casters \ unheard : InTime(c)
      /\ scan_at = "done" => \A c \in Casters \ unheard : Listed(c)
  BY <1>p DEF ScanInv, FoundInv, InTime
<1>2. CASE UNCHANGED <<now, wake, trycount, queue, scan_at, info, unheard>>
  BY <1>1, <1>2 DEF InTime, Listed, Queued, Expected
<1>3. CASE Broadcast
  <2>1. PICK c \in Casters : push_broadcast_header(c) \/ push_broadcast_fails(c)
    BY <1>3 DEF Broadcast
  <2>2. /\ scan_at \in {"loop", "poll", "close"}
        /\ UNCHANGED <<scan_at, info, now>>
    BY <1>0, <2>1
       DEF push_broadcast_header, push_broadcast_fails, Due, Over, svars,
           TriesInv, Places
  <2>3. unheard \subseteq unheard'
    BY <2>1 DEF push_broadcast_header, push_broadcast_fails
  <2>4. \A b \in Casters : Queued(b) => Queued(b)'
    <3>1. CASE push_broadcast_header(c)
      BY <1>0, <3>1, Announced
    <3>2. CASE push_broadcast_fails(c)
      BY <3>2 DEF push_broadcast_fails, Queued
    <3> QED
      BY <2>1, <3>1, <3>2
  <2>5. ASSUME NEW b \in Casters \ unheard', b # c
        PROVE  InTime(b)'
    <3>1. InTime(b)
      BY <1>1, <2>2, <2>3
    <3>2. wake'[b] = wake[b] /\ trycount'[b] = trycount[b]
      BY <1>0, <2>1, <2>5
         DEF push_broadcast_header, push_broadcast_fails, Sleep
    <3> QED
      BY <2>2, <2>4, <3>1, <3>2 DEF InTime, Listed, Expected
  <2>6. ASSUME c \notin unheard' PROVE InTime(c)'
    <3>1. InTime(c)
      BY <1>1, <2>2, <2>3, <2>6
    <3>2. push_broadcast_header(c)
      BY <2>1, <2>6 DEF push_broadcast_fails
    <3>3. Queued(c)'
      BY <1>0, <2>6, <3>2, Announced
    <3>4. Listed(c) \/ now < End
      BY <1>0, <3>1 DEF InTime, Expected
    <3> QED
      BY <2>2, <3>3, <3>4 DEF InTime, Listed
  <2> QED
    BY <2>2, <2>5, <2>6
<1>4. CASE Foreign
  <2>1. \A b \in Casters : Queued(b) => Queued(b)'
    BY <1>0, <1>4, ForeignKept
  <2>2. /\ scan_at \in {"loop", "poll", "close"}
        /\ UNCHANGED <<scan_at, info, now, wake, trycount, unheard>>
    BY <1>0, <1>4 DEF Foreign, Over, svars, cvars, TriesInv, Places
  <2> QED
    BY <1>1, <2>1, <2>2 DEF InTime, Listed, Expected
<1>5. CASE ScanTest
  <2>1. /\ scan_at = "loop" /\ scan_at' \in {"poll", "close"}
        /\ UNCHANGED <<now, wake, trycount, queue, info, unheard>>
    BY <1>5 DEF ScanTest, cvars
  <2> QED
    BY <1>1, <2>1 DEF InTime, Listed, Queued, Expected
<1>6. CASE pull_CAST
  <2>1. /\ scan_at = "poll" /\ queue # << >> /\ queue' = Tail(queue)
        /\ UNCHANGED <<now, wake, trycount, unheard>>
    BY <1>6 DEF pull_CAST, cvars
  <2>2. PICK a : Head(queue).from = a
    OBVIOUS
  <2>3. \E e : info' = Append(info, e) /\ e.from = a
    BY <1>6, <2>2 DEF pull_CAST
  <2>4. (\A c \in Casters : Listed(c) => Listed(c)') /\ Listed(a)'
    BY <1>0, <2>3, ListedKept
  <2>5. \A b \in Casters : Queued(b) =>
          Queued(b)' \/ Head(queue) = [kind |-> "CAST", from |-> b]
    BY <1>0, <2>1, TakeKept
  <2>6. \A b \in Casters : Queued(b) => Queued(b)' \/ Listed(b)'
    <3> TAKE b \in Casters
    <3>1. Head(queue) = [kind |-> "CAST", from |-> b] => a = b
      BY <2>2
    <3> QED
      BY <2>4, <2>5, <3>1, Zenon
  <2>7. scan_at' # "done"
    BY <1>6 DEF pull_CAST, ScanBack
  <2> QED
    BY <1>1, <2>1, <2>4, <2>6, <2>7 DEF InTime, Expected
<1>7. CASE pull_CAST_no_memory
  BY <1>7 DEF pull_CAST_no_memory
<1>8. CASE pull_error \/ pull_ignored
  <2>1. /\ scan_at = "poll" /\ scan_at' \in {"loop", "close"}
        /\ UNCHANGED <<now, wake, trycount, info, unheard>>
        /\ \/ queue' = queue
           \/ /\ queue # << >> /\ queue' = Tail(queue)
              /\ Head(queue).kind # "CAST"
    BY <1>8 DEF pull_error, pull_ignored, ScanBack, cvars
  <2>2. \A b \in Casters : Queued(b) => Queued(b)'
    <3>1. CASE queue' = queue
      BY <3>1 DEF Queued
    <3>2. CASE queue' # queue
      <4>1. \A b \in Casters : Queued(b) =>
              Queued(b)' \/ Head(queue) = [kind |-> "CAST", from |-> b]
        BY <1>0, <2>1, <3>2, TakeKept
      <4>2. \A b \in Casters : Head(queue) # [kind |-> "CAST", from |-> b]
        BY <2>1, <3>2
      <4> QED
        BY <4>1, <4>2, Zenon
    <3> QED
      BY <3>1, <3>2
  <2> QED
    BY <1>1, <2>1, <2>2 DEF InTime, Listed, Expected
<1>9. CASE ScanClose
  <2>1. /\ scan_at = "close" /\ scan_at' = IF sp_try = 0 THEN "exited" ELSE "done"
        /\ UNCHANGED <<now, wake, trycount, queue, info, unheard>>
    BY <1>9 DEF ScanClose, cvars
  <2>2. sp_try # 0 => now >= End
    BY <2>1 DEF ScanInv, TimeInv
  <2>3. sp_try # 0 => \A c \in Casters \ unheard : Listed(c)
    BY <1>0, <1>1, <2>1, <2>2 DEF InTime, Expected
  <2> QED
    BY <2>1, <2>3 DEF Listed
<1>10. CASE Tick
  <2>1. /\ ~Over /\ ~Ready /\ now' = now + 1
        /\ UNCHANGED <<wake, trycount, queue, scan_at, info, unheard>>
    BY <1>10, <1>p DEF Tick, cvars, svars
  <2>2. scan_at = "poll" /\ queue = << >>
    BY <1>0, <2>1 DEF Over, Ready, TriesInv, Places
  <2>3. ASSUME NEW c \in Casters \ unheard PROVE InTime(c)'
    <3>1. InTime(c)
      BY <1>1, <2>2
    <3>2. ~Queued(c)
      BY <2>2 DEF Queued
    <3>3. CASE Listed(c)
      BY <2>1, <3>3 DEF InTime, Listed
    <3>4. CASE Expected(c)
      <4>1. ~Due(c)
        BY <2>1 DEF Ready
      <4>2. now < wake[c]
        BY <1>0, <2>1, <3>4, <4>1 DEF Due, Expected
      <4> QED
        BY <1>0, <2>1, <3>4, <4>2 DEF InTime, Expected
    <3> QED
      BY <3>1, <3>2, <3>3, <3>4 DEF InTime
  <2> QED
    BY <2>1, <2>2, <2>3
<1> QED
  BY <1>2, <1>3, <1>4, <1>5, <1>6, <1>7, <1>8, <1>9, <1>10
     DEF Next, Scan, vars, cvars, svars

\* The short datagrams can be counted.
LEMMA ShortFinite ==
  ASSUME CastInv
  PROVE  IsFiniteSet(ShortAt) /\ Cardinality(ShortAt) \in Nat
<1>1. Len(queue) \in Nat
  BY LenProperties DEF CastInv
<1>2. IsFiniteSet(1..Len(queue))
  BY <1>1, FS_Interval
<1>3. ShortAt \in SUBSET (1..Len(queue))
  BY DEF ShortAt
<1> QED
  BY <1>2, <1>3, FS_Subset, FS_CardinalityType

\* Those that are there after an arrival, too.
LEMMA ArrivedFinite ==
  ASSUME CastInv, NEW ds \in Seq(Datagrams), Arrive(ds)
  PROVE  Cardinality(ShortAt') \in Nat
<1>1. Len(queue') \in Nat
  BY ArriveKept
<1>2. IsFiniteSet(1..Len(queue'))
  BY <1>1, FS_Interval
<1>3. ShortAt' \in SUBSET (1..Len(queue'))
  BY DEF ShortAt
<1> QED
  BY <1>2, <1>3, FS_Subset, FS_CardinalityType

\* At most one short datagram arrives at a time, and no announcement is short.
LEMMA ShortArrives ==
  ASSUME CastInv, NEW ds \in Seq(Datagrams), Arrive(ds)
  PROVE  /\ (\A i \in 1..Len(ds) : ds[i].kind # "short") =>
              Cardinality(ShortAt') <= Cardinality(ShortAt)
         /\ Len(ds) = 1 => Cardinality(ShortAt') <= Cardinality(ShortAt) + 1
<1>1. /\ Len(queue) \in Nat /\ Len(queue') \in Nat /\ Len(queue) <= Len(queue')
      /\ \A i \in 1..Len(queue) : queue'[i] = queue[i]
      /\ \A i \in 1..Len(queue') : i > Len(queue) =>
           i - Len(queue) \in 1..Len(ds) /\ queue'[i] = ds[i - Len(queue)]
  BY ArriveKept
<1>2. IsFiniteSet(ShortAt) /\ Cardinality(ShortAt) \in Nat
  BY ShortFinite
<1>3. ASSUME \A i \in 1..Len(ds) : ds[i].kind # "short"
      PROVE  Cardinality(ShortAt') <= Cardinality(ShortAt)
  <2>1. ShortAt' \in SUBSET ShortAt
    BY <1>1, <1>3 DEF ShortAt
  <2> QED
    BY <1>2, <2>1, FS_Subset
<1>4. ASSUME Len(ds) = 1
      PROVE  Cardinality(ShortAt') <= Cardinality(ShortAt) + 1
  <2> DEFINE T == ShortAt \union {Len(queue) + 1}
  <2>1. ShortAt' \in SUBSET T
    <3> SUFFICES ASSUME NEW i \in 1..Len(queue'), queue'[i].kind = "short",
                        i # Len(queue) + 1
                 PROVE  i \in 1..Len(queue) /\ queue[i].kind = "short"
      BY DEF ShortAt
    <3>1. i \in 1..Len(queue)
      BY <1>1, <1>4
    <3> QED
      BY <1>1, <3>1
  <2>2. IsFiniteSet(T) /\ Cardinality(T) <= Cardinality(ShortAt) + 1
    <3>1. /\ IsFiniteSet(T)
          /\ Cardinality(T) = IF Len(queue) + 1 \in ShortAt
                              THEN Cardinality(ShortAt) ELSE Cardinality(ShortAt) + 1
      BY <1>2, FS_AddElement
    <3> HIDE DEF T
    <3> QED
      BY <1>2, <3>1
  <2>3. IsFiniteSet(ShortAt') /\ Cardinality(ShortAt') <= Cardinality(T)
    BY <2>1, <2>2, FS_Subset
  <2>4. Cardinality(ShortAt') \in Nat /\ Cardinality(T) \in Nat
    BY <2>2, <2>3, FS_CardinalityType
  <2> HIDE DEF T
  <2> QED
    BY <1>2, <2>2, <2>3, <2>4
<1> QED
  BY <1>3, <1>4

\* A short datagram that is taken is no longer there.
LEMMA ShortTaken ==
  ASSUME CastInv, queue # << >>, queue' = Tail(queue)
  PROVE  /\ Cardinality(ShortAt') \in Nat
         /\ Cardinality(ShortAt') <= Cardinality(ShortAt)
         /\ Head(queue).kind = "short" =>
              Cardinality(ShortAt') + 1 <= Cardinality(ShortAt)
<1>1. queue \in Seq(Datagrams) /\ Len(queue) \in Nat
  BY LenProperties DEF CastInv
<1>2. /\ Len(queue') = Len(queue) - 1 /\ Head(queue) = queue[1]
      /\ Len(queue) >= 1
      /\ \A i \in 1..Len(queue') : queue'[i] = queue[i + 1]
  <2>1. Head(queue) = queue[1] /\ Len(queue) >= 1
    BY <1>1
  <2>2. /\ Len(Tail(queue)) = Len(queue) - 1
        /\ \A i \in 1..Len(Tail(queue)) : Tail(queue)[i] = queue[i + 1]
    BY <1>1, HeadTailProperties
  <2> QED
    BY <2>1, <2>2
<1>3. IsFiniteSet(ShortAt) /\ Cardinality(ShortAt) \in Nat
  BY ShortFinite
<1> DEFINE T == ShortAt \ {1}
           f == [i \in ShortAt' |-> i + 1]
<1>4. f \in Injection(ShortAt', T)
  <2>1. \A i \in ShortAt' : i \in Nat /\ i + 1 \in T
    <3> SUFFICES ASSUME NEW i \in 1..Len(queue'), queue'[i].kind = "short"
                 PROVE  /\ i \in Nat /\ i + 1 \in 1..Len(queue) /\ i + 1 # 1
                        /\ queue[i + 1].kind = "short"
      BY DEF ShortAt
    <3> QED
      BY <1>1, <1>2
  <2>2. f \in [ShortAt' -> T]
    BY <2>1
  <2>3. \A i, j \in ShortAt' : f[i] = f[j] => i = j
    BY <2>1
  <2> QED
    BY <2>2, <2>3 DEF Injection, IsInjective
<1>5. /\ IsFiniteSet(T)
      /\ Cardinality(T) = IF 1 \in ShortAt THEN Cardinality(ShortAt) - 1
                          ELSE Cardinality(ShortAt)
  BY <1>3, FS_RemoveElement
<1> HIDE DEF T, f
<1>6. IsFiniteSet(ShortAt') /\ Cardinality(ShortAt') <= Cardinality(T)
  BY <1>4, <1>5, FS_Injection
<1>7. Cardinality(ShortAt') \in Nat /\ Cardinality(T) \in Nat
  BY <1>5, <1>6, FS_CardinalityType
<1>8. Head(queue).kind = "short" => 1 \in ShortAt
  BY <1>1, <1>2 DEF ShortAt
<1> QED
  BY <1>3, <1>5, <1>6, <1>7, <1>8

\* What the environment has done is counted.
LEMMA SpentStep ==
  ASSUME spent \in [Kinds -> Nat], [Next]_vars
  PROVE  /\ spent' \in [Kinds -> Nat]
         /\ spent'["recvfail"] >= spent["recvfail"]
         /\ spent'["short"] >= spent["short"]
<1>1. CASE spent' = spent
  BY <1>1 DEF Kinds
<1>2. CASE \E k \in Kinds : Spend(k)
  BY <1>2 DEF Spend, Kinds
<1>3. spent' = spent \/ \E k \in Kinds : Spend(k)
  BY DEF Next, Broadcast, push_broadcast_header, push_broadcast_fails, Foreign,
     Scan, ScanTest, pull_CAST, pull_CAST_no_memory, pull_error, pull_ignored,
     ScanClose, Tick, vars, Kinds
<1> QED
  BY <1>1, <1>2, <1>3

\* A failure is met only where a receive fails or a short datagram is taken.
LEMMA BlameStep == TriesInv /\ CastInv /\ BlameInv /\ [Next]_vars => BlameInv'
<1> SUFFICES ASSUME TriesInv, CastInv, BlameInv, [Next]_vars PROVE BlameInv'
  OBVIOUS
<1>1. /\ errors \in Nat /\ spent \in [Kinds -> Nat]
      /\ errors + Cardinality(ShortAt) <= spent["recvfail"] + spent["short"]
  BY DEF TriesInv, BlameInv
<1>2. Cardinality(ShortAt) \in Nat
  BY ShortFinite
<1>3. /\ spent' \in [Kinds -> Nat]
      /\ spent'["recvfail"] >= spent["recvfail"]
      /\ spent'["short"] >= spent["short"]
  BY <1>1, SpentStep
<1>4. /\ spent["recvfail"] \in Nat /\ spent["short"] \in Nat
      /\ spent'["recvfail"] \in Nat /\ spent'["short"] \in Nat
  BY <1>1, <1>3 DEF Kinds
<1>5. ASSUME Cardinality(ShortAt') \in Nat, errors' \in Nat,
             errors' + Cardinality(ShortAt') <= errors + Cardinality(ShortAt)
      PROVE  BlameInv'
  BY <1>1, <1>2, <1>3, <1>4, <1>5 DEF BlameInv
<1>6. CASE UNCHANGED <<queue, errors>>
  <2>1. ShortAt' = ShortAt
    BY <1>6 DEF ShortAt
  <2> QED
    BY <1>1, <1>2, <1>5, <1>6, <2>1
<1>7. ASSUME NEW c \in Casters, push_broadcast_header(c) PROVE BlameInv'
  <2> DEFINE d == [kind |-> "CAST", from |-> c]
  <2>1. /\ <<d>> \in Seq(Datagrams) /\ <<d, d>> \in Seq(Datagrams)
        /\ \A i \in 1..Len(<<d>>) : <<d>>[i].kind # "short"
        /\ \A i \in 1..Len(<<d, d>>) : <<d, d>>[i].kind # "short"
    BY Announcement
  <2>2. errors' = errors /\ (Arrive(<<d>>) \/ Arrive(<<d, d>>) \/ queue' = queue)
    BY <1>7 DEF push_broadcast_header, svars
  <2>3. CASE queue' = queue
    BY <1>6, <2>2, <2>3
  <2>4. ASSUME NEW ds \in Seq(Datagrams), Arrive(ds),
               \A i \in 1..Len(ds) : ds[i].kind # "short"
        PROVE  BlameInv'
    <3>1. Cardinality(ShortAt') <= Cardinality(ShortAt)
      BY <2>4, ShortArrives
    <3>2. Cardinality(ShortAt') \in Nat
      BY <2>4, ArrivedFinite
    <3> QED
      BY <1>1, <1>2, <1>5, <2>2, <3>1, <3>2
  <2> HIDE DEF d
  <2> QED
    BY <2>1, <2>2, <2>3, <2>4
<1>8. CASE Foreign
  <2>1. PICK k \in {"other", "short"} : Spend(k) /\ Arrive(<<[kind |-> k]>>)
    BY <1>8 DEF Foreign
  <2>2. errors' = errors
    BY <1>8 DEF Foreign, svars
  <2> DEFINE ds == <<[kind |-> k]>>
  <2>3. ds \in Seq(Datagrams) /\ Len(ds) = 1 /\ ds[1].kind = k /\ Arrive(ds)
    BY <2>1 DEF Datagrams
  <2> HIDE DEF ds
  <2>4. Cardinality(ShortAt') \in Nat
    BY <2>3, ArrivedFinite
  <2>5. CASE k = "other"
    <3>1. Cardinality(ShortAt') <= Cardinality(ShortAt)
      BY <2>3, <2>5, ShortArrives
    <3> QED
      BY <1>1, <1>2, <1>5, <2>2, <2>4, <3>1
  <2>6. CASE k = "short"
    <3>1. Cardinality(ShortAt') <= Cardinality(ShortAt) + 1
      BY <2>3, ShortArrives
    <3>2. /\ spent'["short"] = spent["short"] + 1
          /\ spent'["recvfail"] = spent["recvfail"]
      BY <1>1, <2>1, <2>6 DEF Spend, Kinds
    <3> QED
      BY <1>1, <1>2, <1>3, <1>4, <2>2, <2>4, <3>1, <3>2 DEF BlameInv
  <2> QED
    BY <2>5, <2>6
<1>9. CASE pull_CAST
  <2>1. queue # << >> /\ queue' = Tail(queue) /\ errors' = 0
    BY <1>9 DEF pull_CAST
  <2>2. Cardinality(ShortAt') \in Nat /\ Cardinality(ShortAt') <= Cardinality(ShortAt)
    BY <2>1, ShortTaken
  <2> QED
    BY <1>1, <1>2, <1>5, <2>1, <2>2
<1>10. CASE pull_CAST_no_memory
  <2>1. queue # << >> /\ queue' = Tail(queue) /\ errors' = errors
    BY <1>10 DEF pull_CAST_no_memory
  <2>2. Cardinality(ShortAt') \in Nat /\ Cardinality(ShortAt') <= Cardinality(ShortAt)
    BY <2>1, ShortTaken
  <2> QED
    BY <1>1, <1>2, <1>5, <2>1, <2>2
<1>11. CASE pull_error
  <2>1. errors' = errors + 1
    BY <1>11 DEF pull_error
  <2>2. CASE queue # << >> /\ Head(queue).kind = "short" /\ queue' = Tail(queue)
    <3>1. /\ Cardinality(ShortAt') \in Nat
          /\ Cardinality(ShortAt') + 1 <= Cardinality(ShortAt)
      BY <2>2, ShortTaken
    <3> QED
      BY <1>1, <1>2, <1>5, <2>1, <3>1
  <2>3. CASE Spend("recvfail") /\ queue' = queue
    <3>1. ShortAt' = ShortAt
      BY <2>3 DEF ShortAt
    <3>2. /\ spent'["recvfail"] = spent["recvfail"] + 1
          /\ spent'["short"] = spent["short"]
      BY <1>1, <2>3 DEF Spend, Kinds
    <3> QED
      BY <1>1, <1>2, <1>3, <1>4, <2>1, <3>1, <3>2 DEF BlameInv
  <2> QED
    BY <1>11, <2>2, <2>3 DEF pull_error
<1>12. CASE pull_ignored
  <2>1. errors' = errors
    BY <1>12 DEF pull_ignored
  <2>2. CASE queue # << >> /\ queue' = Tail(queue)
    <3>1. Cardinality(ShortAt') \in Nat /\ Cardinality(ShortAt') <= Cardinality(ShortAt)
      BY <2>2, ShortTaken
    <3> QED
      BY <1>1, <1>2, <1>5, <2>1, <3>1
  <2>3. CASE queue' = queue
    BY <1>6, <2>1, <2>3
  <2> QED
    BY <1>12, <2>2, <2>3 DEF pull_ignored
<1>13. CASE \/ \E c \in Casters : push_broadcast_fails(c)
            \/ ScanTest \/ ScanClose \/ Tick \/ UNCHANGED vars
  BY <1>6, <1>13 DEF push_broadcast_fails, ScanTest, ScanClose, Tick, vars, svars
<1> QED
  BY <1>7, <1>8, <1>9, <1>10, <1>11, <1>12, <1>13 DEF Next, Broadcast, Scan

\* The parts together are inductive.
LEMMA ScanStep == ScanInv /\ [Next]_vars => ScanInv'
  BY TriesStep, TimeStep, CastStep, FoundStep, BlameStep DEF ScanInv

-----------------------------------------------------------------------------
(***************************************************************************)
(* Theorems.                                                               *)
(***************************************************************************)
\* The tries, the time, the socket and the casters stay as ScanInv says.
THEOREM ScanSafe == Spec => []ScanInv
  BY ScanInit, ScanStep, PTL DEF Spec

\* scanpair() gives up only after sp_trycount failures with no announcement
\* between them, each a receive that failed or a short datagram that came.
THEOREM GivesUp == Spec => []GivesUpForReason
<1>1. ScanInv => GivesUpForReason
  <2> SUFFICES ASSUME ScanInv, scan_at = "exited"
               PROVE  /\ errors >= sp_trycount
                      /\ errors <= spent["recvfail"] + spent["short"]
    BY DEF GivesUpForReason
  <2>1. errors \in Nat /\ errors >= sp_trycount
    BY Constants DEF ScanInv, TriesInv
  <2>2. Cardinality(ShortAt) \in Nat
    BY ShortFinite DEF ScanInv
  <2>3. /\ spent["recvfail"] \in Nat /\ spent["short"] \in Nat
        /\ errors + Cardinality(ShortAt) <= spent["recvfail"] + spent["short"]
    BY DEF ScanInv, BlameInv, Kinds
  <2> QED
    BY <2>1, <2>2, <2>3
<1> QED
  BY <1>1, ScanSafe, PTL

\* A scan that is never late ends within its interval and one poll().
THEOREM IntervalKept == Spec => []ReturnsInTime
<1>1. ScanInv => ReturnsInTime
  <2> SUFFICES ASSUME ScanInv, world.prompt, scan_at \in {"loop", "poll"}
               PROVE  now <= (start_time + sp_interval) * TPS + spt_cast
    BY DEF ReturnsInTime
  <2>1. /\ now < End + spt_cast /\ start_time = 0 /\ now \in Nat
    BY Constants DEF ScanInv, TimeInv
  <2>2. (0 + sp_interval) * TPS = End
    BY Constants DEF End
  <2> QED
    BY <2>1, <2>2, Constants
<1> QED
  BY <1>1, ScanSafe, PTL

\* A scan that is never late and a second longer than the casters' interval
\* lists every caster of which no announcement was lost.
THEOREM EveryoneFound == Spec => []FindsEveryone
<1>1. ScanInv => FindsEveryone
  BY DEF ScanInv, FoundInv, FindsEveryone, Listed
<1> QED
  BY <1>1, ScanSafe, PTL
-----------------------------------------------------------------------------
(***************************************************************************)
(* The info string.                                                        *)
(***************************************************************************)
\* Every caster whose configuration is well-formed announces it.
LEMMA Received ==
  ASSUME NEW c \in Casters, WellFormed(Addrs[c])
  PROVE  /\ DOMAIN received[c] = {"filename", "name", "ip", "port"}
         /\ received[c]["name"] = Addrs[c].name
         /\ received[c]["ip"] = Addrs[c].ip
         /\ received[c]["port"] = Addrs[c].port
<1>1. PICK a : a = Addrs[c]
  OBVIOUS
<1>2. a \in [filename : Seq(STRING), name : Seq(STRING), ip : Seq(STRING),
             port : Ports]
  BY <1>1, DiscoveryAssumption
<1>3. /\ a.filename \in Seq(Chars) /\ a.name \in Seq(Chars)
      /\ a.ip \in Seq(Chars) /\ a.port \in Ports
  <2>1. STRING \subseteq Chars
    BY Zenon DEF Chars
  <2>2. /\ a.filename \in Seq(STRING) /\ a.name \in Seq(STRING)
        /\ a.ip \in Seq(STRING) /\ a.port \in Ports
    BY <1>2
  <2> QED
    BY <2>1, <2>2, SeqMonotonic, Zenon
<1>4. Len(a.ip) \in 1..(MAXIPV4SIZE - 1) /\ ~Contains(a.ip, ":")
  BY <1>1, DiscoveryAssumption, Zenon
<1>5. Fits(a)
  BY <1>1, <1>3, <1>4, Zenon DEF Fits, Spelled
<1>6. received[c] = a
  BY <1>1, <1>2, <1>5, FieldsRead, Zenon DEF received
<1>7. DOMAIN a = {"filename", "name", "ip", "port"}
  BY <1>2
<1> QED
  BY <1>1, <1>6, <1>7

-----------------------------------------------------------------------------
(***************************************************************************)
(* The pairs of the list.                                                  *)
(***************************************************************************)
\* A pair of the list shows what its caster announces.
Shows(e) ==
  LET a == Addrs[e.from]
  IN  WellFormed(a) => e.name = a.name /\ e.ip = a.ip /\ e.port = a.port

\* What unpack_from_infostring() may write of header.
HeaderFields == {"filename", "name", "ip", "port"}

\* header has all its fields, and the list is genuine.
PairsInv == DOMAIN header = HeaderFields /\ PairsGenuine

\* The entry that start_scanpair() fills in shows what the caster announces,
\* whatever the announcements before it left in header.
LEMMA NewPair ==
  ASSUME NEW c \in Casters, NEW old, DOMAIN old = HeaderFields,
         NEW h, h = keep(old, received[c])
  PROVE  Shows([name |-> sstrncpy(h.name, MAXNAMESIZE), ip |-> h.ip,
                port |-> h.port, from |-> c])
<1> DEFINE e == [name |-> sstrncpy(h.name, MAXNAMESIZE), ip |-> h.ip,
                 port |-> h.port, from |-> c]
<1>1. /\ e.name = sstrncpy(h.name, MAXNAMESIZE) /\ e.ip = h.ip
      /\ e.port = h.port /\ e.from = c
  OBVIOUS
<1> HIDE DEF e
<1> SUFFICES ASSUME WellFormed(Addrs[c])
             PROVE  /\ e.name = Addrs[c].name /\ e.ip = Addrs[c].ip
                    /\ e.port = Addrs[c].port
  BY <1>1, Zenon DEF Shows, e
<1>2. /\ DOMAIN received[c] = {"filename", "name", "ip", "port"}
      /\ received[c]["name"] = Addrs[c].name
      /\ received[c]["ip"] = Addrs[c].ip
      /\ received[c]["port"] = Addrs[c].port
  BY Received, Zenon
<1>3. PICK r : r = received[c]
  OBVIOUS
<1>4. h = [k \in DOMAIN old |-> IF k \in DOMAIN r THEN r[k] ELSE old[k]]
  BY <1>3, Zenon DEF keep
<1>5. h["name"] = r["name"] /\ h["ip"] = r["ip"] /\ h["port"] = r["port"]
  BY <1>2, <1>3, <1>4 DEF HeaderFields
<1>6. sstrncpy(Addrs[c].name, MAXNAMESIZE) = Addrs[c].name
  <2>1. Addrs[c].name \in Seq(STRING)
    BY DiscoveryAssumption
  <2>2. Len(Addrs[c].name) \in 1..(MAXNAMESIZE - 1)
    BY Zenon DEF WellFormed
  <2>3. MAXNAMESIZE \in Nat \ {0}
    BY InfostrAssumption
  <2>4. Len(Addrs[c].name) <= MAXNAMESIZE - 1 /\ MAXNAMESIZE - 1 \in Nat
    BY <2>2, <2>3
  <2> QED
    BY <2>1, <2>4, CutFacts, Zenon DEF sstrncpy
<1> QED
  BY <1>1, <1>2, <1>3, <1>5, <1>6

\* pull_CAST() appends such an entry, and no other step touches the list.
LEMMA PairsStep == CastInv /\ PairsInv /\ [Next]_vars => PairsInv'
<1> SUFFICES ASSUME CastInv, PairsInv, [Next]_vars PROVE PairsInv'
  OBVIOUS
<1>1. CASE info' = info /\ header' = header
  BY <1>1, Zenon DEF PairsInv, PairsGenuine
<1>2. CASE pull_CAST
  <2>1. PICK d \in Datagrams : d = Head(queue)
    BY <1>2, TakeKept, Zenon DEF pull_CAST
  <2>2. d.from \in Casters
    <3>1. d.kind = "CAST"
      BY <1>2, <2>1, Zenon DEF pull_CAST
    <3> QED
      BY <3>1 DEF Datagrams
  <2>3. PICK c \in Casters : c = d.from
    BY <2>2, Zenon
  <2>4. PICK h : h = keep(header, received[c])
    OBVIOUS
  <2>5. PICK e : e = [name |-> sstrncpy(h.name, MAXNAMESIZE), ip |-> h.ip,
                      port |-> h.port, from |-> c]
    OBVIOUS
  <2>6. info' = Append(info, e)
    BY <1>2, <2>1, <2>3, <2>4, <2>5, Zenon DEF pull_CAST
  <2>7. Shows(e)
    BY <2>4, <2>5, NewPair, Zenon DEF PairsInv
  <2>8. PICK S : info \in Seq(S)
    BY DEF CastInv
  <2>9. /\ Len(info) \in Nat /\ Len(info') = Len(info) + 1
        /\ info'[Len(info) + 1] = e
        /\ \A i \in 1..Len(info) : info'[i] = info[i]
    <3>1. info \in Seq(S \union {e}) /\ e \in S \union {e}
      BY <2>8, SeqMonotonic
    <3> QED
      BY <2>6, <3>1, AppendProperties, LenProperties
  <2>10. \A i \in 1..Len(info) : Shows(info[i])
    BY Zenon DEF PairsInv, PairsGenuine, Shows
  <2>11. \A i \in 1..Len(info') : Shows(info'[i])
    <3>1. \A i \in 1..Len(info') : i \in 1..Len(info) \/ i = Len(info) + 1
      BY <2>9
    <3> QED
      BY <2>7, <2>9, <2>10, <3>1, Zenon
  <2>12. header' = h /\ DOMAIN h = DOMAIN header
    BY <1>2, <2>1, <2>3, <2>4, Zenon DEF pull_CAST, keep
  <2> QED
    BY <2>11, <2>12, Zenon DEF PairsInv, PairsGenuine, Shows
<1>3. CASE Broadcast \/ Foreign
  BY <1>1, <1>3, Zenon DEF Broadcast, push_broadcast_header,
     push_broadcast_fails, Foreign, svars
<1>4. CASE ScanTest \/ pull_CAST_no_memory \/ pull_error \/ pull_ignored
           \/ ScanClose \/ Tick \/ UNCHANGED vars
  BY <1>1, <1>4 DEF ScanTest, pull_CAST_no_memory, pull_error, pull_ignored,
     ScanClose, Tick, vars, svars
<1> QED
  BY <1>2, <1>3, <1>4 DEF Next, Scan

\* A pair is listed as it was announced, although all announcements are read
\* into the same header: sscanf() stores every field of one whose sender's
\* configuration fits the format.
THEOREM PairsSafe == Spec => []PairsGenuine
<1>1. Init => PairsInv
  <2> SUFFICES ASSUME Init PROVE PairsInv
    OBVIOUS
  <2>1. info = << >> /\ DOMAIN header = HeaderFields
    BY DEF Init, HeaderFields
  <2>2. \A i \in 1..Len(info) : FALSE
    BY <2>1
  <2> QED
    BY <2>1, <2>2, Zenon DEF PairsInv, PairsGenuine
<1>2. ScanInv => CastInv
  BY DEF ScanInv
<1>3. PairsInv => PairsGenuine
  BY DEF PairsInv
<1> QED
  BY <1>1, <1>2, <1>3, PairsStep, ScanSafe, PTL DEF Spec
=============================================================================
