------------------------------- MODULE Logger -------------------------------
(***************************************************************************)
(* The log: a mapped file with room for `count` entries, used as a ring by *)
(* every thread of the process.  Nothing locks it, and nothing keeps       *)
(* deinitiate() from unmapping it under a thread that still logs (the      *)
(* broadcaster of a pull_file() that failed goes on).  append_log() reads  *)
(* logc.pos to test for the end, reads it again to copy the entry, and     *)
(* once more to advance it; positions count entries, not bytes.            *)
(***************************************************************************)
EXTENDS Integers, Sequences

CONSTANTS
  Threads,   \* the threads that call logging()
  Counts,    \* what initiate() may be called with
  MaxLogs    \* bound on the calls

ASSUME LoggerAssumption == Counts \subseteq Nat /\ MaxLogs \in Nat

VARIABLES
  at,        \* where each thread is in logging()
  reg,       \* what it has read: logc.logcount, then logc.pos
  entry,     \* the message it is writing
  size, pos, logcount,   \* logc
  buffer,    \* what was written where; positions from size on are outside
  state,     \* "down", "up", "failed" (initiate() ended the process),
             \* "crashed" (an entry was copied to a log that is not mapped)
  written,   \* the messages of finished calls, in order
  raced,     \* since initiate() a call of logging() has overlapped with
             \* another one or with initiate() or deinitiate(), or was made
             \* while the log was down
  calls      \* calls so far; the number of a message

vars == <<at, reg, entry, size, pos, logcount, buffer, state, written, raced,
          calls>>
lvars == <<size, pos, logcount, buffer, state>>

Idle == \A t \in Threads : at[t] = "out"

\* The process is still there.
Alive == state \in {"down", "up"}

-----------------------------------------------------------------------------
\* Mutant: a log without entries is accepted.
init_logd_empty ==
  /\ state = "down"
  /\ size' \in Counts
  /\ state' = "up"
  /\ pos' = 0 /\ logcount' = 0
  /\ buffer' = [p \in 0..MaxLogs |-> 0] /\ written' = << >>
  /\ raced' = ~Idle
  /\ UNCHANGED <<at, reg, entry, calls>>

\* initiate() maps a new file; mmap() refuses a log without entries.
init_logd ==
  /\ state = "down"
  /\ \E count \in Counts :
       /\ size' = count
       /\ state' = IF count = 0 THEN "failed" ELSE "up"
  /\ pos' = 0 /\ logcount' = 0
  /\ buffer' = [p \in 0..MaxLogs |-> 0] /\ written' = << >>
  /\ raced' = ~Idle
  /\ UNCHANGED <<at, reg, entry, calls>>

\* A thread calls logging() and makes its message.
logging(t) ==
  /\ Alive /\ at[t] = "out" /\ calls < MaxLogs
  /\ at' = [at EXCEPT ![t] = "count"]
  /\ calls' = calls + 1
  /\ entry' = [entry EXCEPT ![t] = calls + 1]
  /\ raced' = (raced \/ state = "down" \/ ~Idle)
  /\ UNCHANGED <<reg, lvars, written>>

\* logc.logcount++ is a read and a write.
LoadCount(t) ==
  /\ Alive /\ at[t] = "count" /\ at' = [at EXCEPT ![t] = "counted"]
  /\ reg' = [reg EXCEPT ![t] = logcount]
  /\ UNCHANGED <<entry, lvars, written, raced, calls>>

StoreCount(t) ==
  /\ Alive /\ at[t] = "counted" /\ at' = [at EXCEPT ![t] = "test"]
  /\ logcount' = reg[t] + 1
  /\ UNCHANGED <<reg, entry, size, pos, buffer, state, written, raced, calls>>

\* Mutant: the end is noticed one entry late.
Test_late(t) ==
  /\ Alive /\ at[t] = "test"
  /\ at' = [at EXCEPT ![t] = IF pos = size + 1 THEN "wrap" ELSE "copy"]
  /\ UNCHANGED <<reg, entry, lvars, written, raced, calls>>

\* Mutant: the end is noticed one entry early.
Test_early(t) ==
  /\ Alive /\ at[t] = "test"
  /\ at' = [at EXCEPT ![t] = IF pos >= size - 1 THEN "wrap" ELSE "copy"]
  /\ UNCHANGED <<reg, entry, lvars, written, raced, calls>>

\* append_log(): the test for the end, by equality ...
Test(t) ==
  /\ Alive /\ at[t] = "test"
  /\ at' = [at EXCEPT ![t] = IF pos = size THEN "wrap" ELSE "copy"]
  /\ UNCHANGED <<reg, entry, lvars, written, raced, calls>>

\* ... msync() and the return to the start ...
Wrap(t) ==
  /\ Alive /\ at[t] = "wrap" /\ at' = [at EXCEPT ![t] = "copy"]
  /\ pos' = 0
  /\ UNCHANGED <<reg, entry, size, logcount, buffer, state, written, raced,
                 calls>>

\* ... the copy, which ends the process when the log is not mapped ...
Copy(t) ==
  /\ Alive /\ at[t] = "copy" /\ at' = [at EXCEPT ![t] = "load"]
  /\ \/ /\ state = "up"
        /\ buffer' = [buffer EXCEPT ![pos] = entry[t]] /\ state' = state
     \/ /\ state = "down"
        /\ state' = "crashed" /\ buffer' = buffer
  /\ UNCHANGED <<reg, entry, size, pos, logcount, written, raced, calls>>

\* ... and logc.pos += sizeof(LogMsg), again a read and a write.
Load(t) ==
  /\ Alive /\ at[t] = "load" /\ at' = [at EXCEPT ![t] = "store"]
  /\ reg' = [reg EXCEPT ![t] = pos]
  /\ UNCHANGED <<entry, lvars, written, raced, calls>>

Store(t) ==
  /\ Alive /\ at[t] = "store" /\ at' = [at EXCEPT ![t] = "out"]
  /\ pos' = reg[t] + 1
  /\ written' = Append(written, entry[t])
  /\ reg' = [reg EXCEPT ![t] = 0] /\ entry' = [entry EXCEPT ![t] = 0]
  /\ UNCHANGED <<size, logcount, buffer, state, raced, calls>>

\* deinitiate() unmaps the log, whoever is in logging(); logc.pos and logc.size
\* stay.
deinit_logd ==
  /\ state = "up"
  /\ state' = "down"
  /\ raced' = (raced \/ ~Idle)
  /\ UNCHANGED <<at, reg, entry, size, pos, logcount, buffer, written, calls>>

append_log(t) == Test(t) \/ Wrap(t) \/ Copy(t) \/ Load(t) \/ Store(t)

Init ==
  /\ at = [t \in Threads |-> "out"]
  /\ reg = [t \in Threads |-> 0]
  /\ entry = [t \in Threads |-> 0]
  /\ size = 0 /\ pos = 0 /\ logcount = 0
  /\ buffer = [p \in 0..MaxLogs |-> 0]
  /\ state = "down"
  /\ written = << >>
  /\ raced = FALSE
  /\ calls = 0

Next ==
  \/ init_logd \/ deinit_logd
  \/ \E t \in Threads : logging(t) \/ LoadCount(t) \/ StoreCount(t)
                          \/ append_log(t)

Spec == Init /\ [][Next]_vars

-----------------------------------------------------------------------------
\* Every variable keeps its type.
TypeOK ==
  /\ at \in [Threads -> {"out", "count", "counted", "test", "wrap", "copy",
                         "load", "store"}]
  /\ reg \in [Threads -> Nat] /\ entry \in [Threads -> Nat]
  /\ size \in Nat /\ pos \in Nat /\ logcount \in Nat
  /\ state \in {"down", "up", "failed", "crashed"}
  /\ raced \in BOOLEAN

\* While the calls of logging() overlap neither each other nor initiate() and
\* deinitiate(), and none is made while the log is down (a pusher, a scanner, or
\* a puller whose broadcaster has ended), every entry is copied into the
\* mapping: not behind its end and not after it is gone.
InsideUnlessRaced ==
  ~raced => /\ state # "crashed"
            /\ \A t \in Threads : at[t] = "copy" => state = "up" /\ pos < size

\* Then the ring also holds the latest messages, each in its place.
RingHoldsLatest ==
  state = "up" /\ ~raced /\ Idle =>
    /\ logcount = Len(written)
    /\ \A i \in 1..Len(written) :
         i > Len(written) - size => buffer[(i - 1) % size] = written[i]

\* The inductive invariant: unless there was a race at most one thread is in
\* logging(), the log is mapped then, and where the thread is decides how far
\* the position may be.
LogInv ==
  /\ TypeOK
  /\ state = "up" => size > 0
  /\ ~raced => \A t \in Threads : at[t] # "out" => state = "up"
  /\ ~raced => state # "crashed"
  /\ ~raced => \A t, u \in Threads : at[t] # "out" /\ at[u] # "out" => t = u
  /\ ~raced /\ state = "up" => pos <= size
  /\ ~raced => \A t \in Threads :
       /\ at[t] \in {"copy", "load", "store"} => pos < size
       /\ at[t] = "store" => reg[t] = pos
=============================================================================
