------------------------------ MODULE Discovery ------------------------------
(***************************************************************************)
(* Peer discovery: processes in broadcast(), and one process that calls    *)
(* scanpair().  They are joined by UDP and by time.  Time passes in ticks, *)
(* TPS to a second; time() counts whole seconds.                           *)
(***************************************************************************)
EXTENDS Infostr, Integers, FiniteSets

CONSTANTS
  Casters,       \* the processes in broadcast()
  Addrs,         \* conf->addrs of each
  TPS,           \* ticks to a second
  bc_interval, bc_trycount,
  sp_interval, sp_trycount,
  spt_cast,      \* the time limit of one poll(), in ticks
  MaxNow,        \* bound on the clock
  MaxQueue,      \* datagrams the scanner's socket holds
  Worlds         \* prompt: no process is ever late; budget: how often the
                 \* environment may do each of Kinds

Kinds == {"lose", "duplicate", "sendfail", "recvfail", "other", "short",
          "nomem"}

\* rufshare.c checks that local_ip, of MAXIPV4SIZE bytes, holds an address.
ASSUME DiscoveryAssumption ==
  /\ Addrs \in [Casters -> [filename : Seq(STRING), name : Seq(STRING),
                            ip : Seq(STRING), port : Ports]]
  /\ \A c \in Casters : /\ Len(Addrs[c].ip) \in 1..(MAXIPV4SIZE - 1)
                         /\ ~Contains(Addrs[c].ip, ":")
  /\ {TPS, bc_interval, bc_trycount, sp_interval, sp_trycount, spt_cast,
      MaxNow, MaxQueue} \subseteq Nat \ {0}
  /\ Worlds \subseteq [prompt : BOOLEAN, budget : [Kinds -> Nat]]

VARIABLES
  world,      \* one of Worlds
  now,        \* the clock
  wake,       \* when each caster's sleep ends
  trycount,   \* its tries left
  queue,      \* datagrams in the scanner's socket
  scan_at,    \* where start_scanpair() is
  start_time, deadline,
  sp_try,     \* its tries left
  header,     \* its header, declared outside the loop
  info,       \* the pairs it has listed, with the caster each came from
  errors,     \* failed receives since the last announcement
  unheard,    \* casters with an announcement that was not sent or got lost
  spent       \* what the environment has done

cvars == <<wake, trycount>>
svars == <<scan_at, start_time, deadline, sp_try, header, info, errors>>
vars == <<world, now, cvars, queue, svars, unheard, spent>>

Spend(k) ==
  spent[k] < world.budget[k] /\ spent' = [spent EXCEPT ![k] = @ + 1]
time == now \div TPS

\* When the scan is over nothing more happens that it could see.
Over == scan_at \in {"done", "exited", "crashed"}

-----------------------------------------------------------------------------
(***************************************************************************)
(* broadcast().                                                            *)
(***************************************************************************)
Due(c) == ~Over /\ trycount[c] # 0 /\ now >= wake[c]

Sleep(c) == wake' = [wake EXCEPT ![c] = now + bc_interval * TPS]

\* The datagrams added to the socket, as far as there is room.
Arrive(ds) == queue' = cut(queue \o ds, MaxQueue)

\* A CAST packet goes out and arrives, once or twice, or is lost.
push_broadcast_header(c) ==
  /\ Due(c)
  /\ trycount' = [trycount EXCEPT ![c] = bc_trycount]
  /\ Sleep(c)
  /\ LET d == [kind |-> "CAST", from |-> c]
     IN  \/ /\ Arrive(<<d>>)
            /\ UNCHANGED spent
         \/ Arrive(<<d, d>>) /\ Spend("duplicate")
         \/ Spend("lose") /\ UNCHANGED queue
  /\ unheard' = IF queue' = queue THEN unheard \union {c} ELSE unheard
  /\ UNCHANGED <<world, now, svars>>

\* The packet is not sent.  With the last try the loop ends, for good.
push_broadcast_fails(c) ==
  /\ Due(c) /\ Spend("sendfail")
  /\ trycount' = [trycount EXCEPT ![c] = @ - 1]
  /\ Sleep(c)
  /\ unheard' = unheard \union {c}
  /\ UNCHANGED <<world, now, queue, svars>>

\* Other traffic on the port: packets of another type, or too short.
Foreign ==
  /\ ~Over
  /\ \E k \in {"other", "short"} : Spend(k) /\ Arrive(<<[kind |-> k]>>)
  /\ UNCHANGED <<world, now, cvars, svars, unheard>>

-----------------------------------------------------------------------------
(***************************************************************************)
(* scanpair().                                                             *)
(***************************************************************************)
\* Mutant: the deadline is one second early.
ScanTest_early ==
  /\ scan_at = "loop"
  /\ \/ /\ time - start_time < sp_interval - 1
        /\ scan_at' = "poll" /\ deadline' = now + spt_cast
     \/ /\ ~(time - start_time < sp_interval - 1)
        /\ scan_at' = "close" /\ UNCHANGED deadline
  /\ UNCHANGED <<world, now, cvars, queue, start_time, sp_try, header, info, errors,
                 unheard, spent>>

\* Mutant: the loop tests <=.
ScanTest_wide ==
  /\ scan_at = "loop"
  /\ \/ /\ time - start_time <= sp_interval
        /\ scan_at' = "poll" /\ deadline' = now + spt_cast
     \/ /\ time - start_time > sp_interval
        /\ scan_at' = "close" /\ UNCHANGED deadline
  /\ UNCHANGED <<world, now, cvars, queue, start_time, sp_try, header, info, errors,
                 unheard, spent>>

\* Mutant: the clock is read once, before the loop.
ScanTest_once ==
  /\ scan_at = "loop"
  /\ scan_at' = "poll" /\ deadline' = now + spt_cast
  /\ UNCHANGED <<world, now, cvars, queue, start_time, sp_try, header, info, errors,
                 unheard, spent>>

\* The test of the loop, and the call of poll().
ScanTest ==
  /\ scan_at = "loop"
  /\ \/ /\ time - start_time < sp_interval
        /\ scan_at' = "poll" /\ deadline' = now + spt_cast
     \/ /\ ~(time - start_time < sp_interval)
        /\ scan_at' = "close" /\ UNCHANGED deadline
  /\ UNCHANGED <<world, now, cvars, queue, start_time, sp_try, header, info, errors,
                 unheard, spent>>

\* Behind pull_broadcast_header(): the loop is left when the tries are used up.
ScanBack == scan_at' = IF sp_try' = 0 THEN "close" ELSE "loop"

\* The fields unpack_from_infostring() reads from each caster's announcement.
received ==
  [c \in Casters |-> sscanf(pack_into_infostring(stored(Addrs[c])))]

\* Mutant: the entry is filled before the announcement is unpacked.
pull_CAST_before_unpack ==
  /\ scan_at = "poll" /\ queue # << >> /\ Head(queue).kind = "CAST"
  /\ queue' = Tail(queue)
  /\ LET c == Head(queue).from
     IN  /\ header' = keep(header, received[c])
         /\ info' = Append(info, [name |-> header.name, ip |-> header.ip,
                                  port |-> header.port, from |-> c])
  /\ sp_try' = sp_trycount /\ errors' = 0
  /\ ScanBack
  /\ UNCHANGED <<world, now, cvars, start_time, deadline, unheard, spent>>

\* An announcement: it is read into header and added to the list.
pull_CAST ==
  /\ scan_at = "poll" /\ queue # << >> /\ Head(queue).kind = "CAST"
  /\ queue' = Tail(queue)
  /\ LET c == Head(queue).from
         h == keep(header, received[c])
     IN  /\ header' = h
         /\ info' = Append(info, [name |-> sstrncpy(h.name, MAXNAMESIZE),
                                  ip |-> h.ip, port |-> h.port, from |-> c])
  /\ sp_try' = sp_trycount /\ errors' = 0
  /\ ScanBack
  /\ UNCHANGED <<world, now, cvars, start_time, deadline, unheard, spent>>

\* realloc() has no memory: the test looks at the wrong pointer, and the entry
\* is written through a null pointer.
pull_CAST_no_memory ==
  /\ scan_at = "poll" /\ queue # << >> /\ Head(queue).kind = "CAST"
  /\ Spend("nomem")
  /\ queue' = Tail(queue)
  /\ scan_at' = "crashed"
  /\ UNCHANGED <<world, now, cvars, start_time, deadline, sp_try, header, info,
                 errors, unheard>>

\* A failure that counts: a short datagram, or poll() or recvfrom() failing.
pull_error ==
  /\ scan_at = "poll"
  /\ \/ /\ queue # << >> /\ Head(queue).kind = "short"
        /\ queue' = Tail(queue) /\ UNCHANGED spent
     \/ Spend("recvfail") /\ UNCHANGED queue
  /\ sp_try' = sp_try - 1 /\ errors' = errors + 1
  /\ ScanBack
  /\ UNCHANGED <<world, now, cvars, start_time, deadline, header, info, unheard>>

\* Mutant: these count too.
pull_ignored_counted ==
  /\ scan_at = "poll"
  /\ \/ queue # << >> /\ Head(queue).kind = "other" /\ queue' = Tail(queue)
     \/ queue = << >> /\ now >= deadline /\ UNCHANGED queue
  /\ sp_try' = sp_try - 1
  /\ ScanBack
  /\ UNCHANGED <<world, now, cvars, start_time, deadline, header, info, errors,
                 unheard, spent>>

\* One that does not: another type, or the time limit of poll().
pull_ignored ==
  /\ scan_at = "poll"
  /\ \/ queue # << >> /\ Head(queue).kind = "other" /\ queue' = Tail(queue)
     \/ queue = << >> /\ now >= deadline /\ UNCHANGED queue
  /\ sp_try' = sp_try
  /\ ScanBack
  /\ UNCHANGED <<world, now, cvars, start_time, deadline, header, info, errors,
                 unheard, spent>>

\* close_socket(), and EXPTRY0 when the tries are used up: the process exits.
ScanClose ==
  /\ scan_at = "close"
  /\ scan_at' = IF sp_try = 0 THEN "exited" ELSE "done"
  /\ UNCHANGED <<world, now, cvars, queue, start_time, deadline, sp_try, header, info,
                 errors, unheard, spent>>

Scan ==
  \/ ScanTest \/ pull_CAST \/ pull_CAST_no_memory \/ pull_error
  \/ pull_ignored \/ ScanClose

-----------------------------------------------------------------------------
\* A process has something to do at this moment.
Ready ==
  \/ \E c \in Casters : Due(c)
  \/ scan_at \in {"loop", "close"}
  \/ scan_at = "poll" /\ (queue # << >> \/ now >= deadline)

Tick ==
  /\ ~Over /\ now < MaxNow
  /\ world.prompt => ~Ready
  /\ now' = now + 1
  /\ UNCHANGED <<world, cvars, queue, svars, unheard, spent>>

\* The scan starts in any part of a second and at any time of the casters'
\* sleeps.
Init ==
  /\ world \in Worlds
  /\ now \in 0..(TPS - 1)
  /\ wake \in [Casters -> 0..(bc_interval * TPS + now)]
  /\ \A c \in Casters : wake[c] >= now
  /\ trycount = [c \in Casters |-> bc_trycount]
  /\ queue = << >>
  /\ scan_at = "loop"
  /\ start_time = time /\ deadline = now
  /\ sp_try = sp_trycount
  /\ header = [filename |-> << >>, name |-> << >>, ip |-> << >>, port |-> ""]
  /\ info = << >>
  /\ errors = 0
  /\ unheard = {}
  /\ spent = [k \in Kinds |-> 0]

Broadcast ==
  \E c \in Casters : push_broadcast_header(c) \/ push_broadcast_fails(c)

Next == Broadcast \/ Foreign \/ Scan \/ Tick

Spec == Init /\ [][Next]_vars

\* The processes run, and the clock goes on.
FairSpec == Spec /\ WF_vars(Scan) /\ WF_vars(Broadcast) /\ WF_vars(Tick)

-----------------------------------------------------------------------------
\* A pair is listed as it was announced, not put together from two
\* announcements although all are read into the same header, if the caster's
\* configuration fits the format of the info string.
PairsGenuine ==
  \A i \in 1..Len(info) :
    LET a == Addrs[info[i].from]
    IN  WellFormed(a) =>
          info[i].name = a.name /\ info[i].ip = a.ip /\ info[i].port = a.port

\* scanpair() gives up only after sp_trycount failures with no announcement
\* between them, and each of them is a receive that failed or a datagram that
\* reached the socket and is too short for a header.  Such a datagram may come
\* from anyone and does use up a try; silence and whole packets of another type
\* do not.
GivesUpForReason ==
  scan_at = "exited" =>
    /\ errors >= sp_trycount
    /\ errors <= spent["recvfail"] + spent["short"]

\* The scan ends within its interval and one time limit of poll().
ReturnsInTime ==
  world.prompt /\ scan_at \in {"loop", "poll"} =>
    now <= (start_time + sp_interval) * TPS + spt_cast

\* A scan that is longer by a second than the casters' interval lists everyone
\* whose announcements were all sent and delivered, wherever in a second it
\* starts; a second is needed since time() cuts off part of the first one.
FindsEveryone ==
  world.prompt /\ scan_at = "done" /\ sp_interval > bc_interval =>
    \A c \in Casters \ unheard : \E i \in 1..Len(info) : info[i].from = c

\* Every scan returns, or ends the process.
ScanReturns == <>Over
=============================================================================
