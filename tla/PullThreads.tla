----------------------------- MODULE PullThreads -----------------------------
(***************************************************************************)
(* One call of pull_file(): the thread that runs start_puller(), the       *)
(* broadcast thread it creates and never joins, and the thread that        *)
(* computes the CRC16 of the file.  They share, without a lock, the table  *)
(* of file descriptors of the process, conf->cast_sock, the remote address *)
(* in conf->addrs, and the log.  The packets of the transfer are the       *)
(* business of Transfer; here a transfer is one step that works or fails.  *)
(***************************************************************************)
EXTENDS Integers, FiniteSetsExt

CONSTANTS
  MaxFd,        \* the largest descriptor of the process
  bc_trycount   \* conf->bc_trycount

ASSUME ThreadsAssumption ==
  /\ MaxFd \in Nat /\ MaxFd >= 6
  /\ bc_trycount \in Nat \ {0}

VARIABLES
  main,      \* where the thread of pull_file() is
  caster,    \* where thread_broadcast() is
  crc,       \* thread_calc_file_crc16(): "none", "reading" or "done"
  fdt,       \* what each descriptor refers to
  conf,      \* the sockets of conf, and the streams of the file
  remote,    \* conf->addrs.remote_ip and remote_port
  dest,      \* the remote address as start_broadcast() read it
  trycount,  \* the tries start_broadcast() has left
  cast_on,   \* what the last CAST packet was sent on
  met,       \* where the caster was when start_puller() closed cast_sock
  peer,      \* what the pusher has done
  log,       \* whether the log is mapped
  proc       \* the process

mvars == <<main, crc, conf, remote, met>>
cvars == <<caster, dest, trycount, cast_on>>
vars == <<mvars, cvars, fdt, peer, log, proc>>

-----------------------------------------------------------------------------
(***************************************************************************)
(* Descriptors.  The system hands out the lowest free number.  An address  *)
(* is a number that grows with each assignment: none, the one the caller   *)
(* configured, the one accept() reported, the one in the SEND packet; Torn *)
(* is a string in the middle of being overwritten.                         *)
(***************************************************************************)
Fds == 0..MaxFd
NoFd == -1
Kinds == {"free", "std", "cntl", "conn", "cast", "created", "mapped", "data"}
Torn == 4

lowest == Min({f \in Fds : fdt[f] = "free"})
open(kind) == [fdt EXCEPT ![lowest] = kind]
is_open(fd) == fd \in Fds /\ fdt[fd] # "free"
close(fd) == [fdt EXCEPT ![fd] = "free"]

\* What send() may work on: a socket that has a peer.
Sendable == {"cast", "conn", "data"}

-----------------------------------------------------------------------------
(***************************************************************************)
(* The thread of pull_file().                                              *)
(***************************************************************************)
MainAt(from, to) == proc = "running" /\ main = from /\ main' = to

pull_file ==
  /\ MainAt("pull_file", "start_cntl")
  /\ caster' = "broadcast"
  /\ UNCHANGED <<crc, conf, remote, met, dest, trycount, cast_on, fdt, peer,
                 log, proc>>

start_cntl ==
  /\ remote.ip # 0 /\ remote.port # 0
  /\ MainAt("start_cntl", "accept")
  /\ fdt' = open("cntl")
  /\ conf' = [conf EXCEPT !.cntl = lowest]
  /\ UNCHANGED <<crc, remote, met, cvars, peer, log, proc>>

\* Mutant: the port is stored before the address.
accept_cntl_port_first ==
  /\ peer # "absent"
  /\ MainAt("accept", "accept_ip")
  /\ fdt' = open("conn")
  /\ conf' = [conf EXCEPT !.conn = lowest]
  /\ remote' = [remote EXCEPT !.port = 2]
  /\ UNCHANGED <<crc, met, cvars, peer, log, proc>>

\* accept_new_connection() up to host_ipstring(), which starts to write
\* remote_ip.
accept_cntl ==
  /\ peer # "absent"
  /\ MainAt("accept", "accept_ip")
  /\ fdt' = open("conn")
  /\ conf' = [conf EXCEPT !.conn = lowest]
  /\ remote' = [remote EXCEPT !.ip = Torn]
  /\ UNCHANGED <<crc, met, cvars, peer, log, proc>>

\* The string is complete, and the port follows it.
StoreIp(from, to, address) ==
  /\ MainAt(from, to)
  /\ remote' = [remote EXCEPT !.ip = address]
  /\ UNCHANGED <<crc, conf, met, cvars, fdt, peer, log, proc>>

StorePort(from, to, address) ==
  /\ MainAt(from, to)
  /\ remote' = [remote EXCEPT !.port = address]
  /\ UNCHANGED <<crc, conf, met, cvars, fdt, peer, log, proc>>

close_cast ==
  /\ is_open(conf.cast)
  /\ MainAt("close_cast", "pull_handshake")
  /\ fdt' = close(conf.cast)
  /\ met' = caster
  /\ UNCHANGED <<crc, conf, remote, cvars, peer, log, proc>>

\* The SEND packet is read from the connection, if there still is one.
pull_handshake ==
  /\ fdt[conf.conn] = "conn" /\ peer = "sent"
  /\ MainAt("pull_handshake", "send_ip")
  /\ remote' = [remote EXCEPT !.ip = Torn]
  /\ UNCHANGED <<crc, conf, met, cvars, fdt, peer, log, proc>>

\* fopen() of create_file().
create_file ==
  /\ MainAt("create_file", "created")
  /\ fdt' = open("created")
  /\ conf' = [conf EXCEPT !.created = lowest]
  /\ UNCHANGED <<crc, remote, met, cvars, peer, log, proc>>

\* Mutant: create_file() closes its stream.
create_file_ok_closes ==
  /\ MainAt("created", "mfopen")
  /\ fdt' = close(conf.created)
  /\ UNCHANGED <<crc, conf, remote, met, cvars, peer, log, proc>>

\* create_file() succeeds and leaves the stream open.
create_file_ok ==
  /\ MainAt("created", "mfopen")
  /\ UNCHANGED <<crc, conf, remote, met, cvars, fdt, peer, log, proc>>

\* create_file() refuses the file: fopen() failed, or the stream is closed,
\* whatever its number refers to by now.
create_file_fails ==
  /\ \/ MainAt("create_file", "start_data") /\ UNCHANGED fdt
     \/ MainAt("created", "start_data") /\ fdt' = close(conf.created)
  /\ UNCHANGED <<crc, conf, remote, met, cvars, peer, log, proc>>

\* mfopen() maps the file and keeps a stream of its own; when it fails the
\* file is refused as well.
mfopen ==
  /\ MainAt("mfopen", "start_data")
  /\ \/ fdt' = open("mapped") /\ conf' = [conf EXCEPT !.mapped = lowest]
     \/ UNCHANGED <<fdt, conf>>
  /\ UNCHANGED <<crc, remote, met, cvars, peer, log, proc>>

\* The handshake is answered and the data socket opened.
start_data ==
  /\ MainAt("start_data", "pull_transfer")
  /\ fdt' = open("data")
  /\ conf' = [conf EXCEPT !.data = lowest]
  /\ UNCHANGED <<crc, remote, met, cvars, peer, log, proc>>

\* A refused file is answered with ack = 0, and no FLOW packet follows.
pull_transfer ==
  /\ conf.mapped # NoFd
  /\ fdt[conf.conn] = "conn" /\ fdt[conf.data] = "data"
  /\ MainAt("pull_transfer", "pull_verification")
  /\ UNCHANGED <<crc, conf, remote, met, cvars, fdt, peer, log, proc>>

pull_verification ==
  /\ MainAt("pull_verification", "pull_SEND")
  /\ crc' = "reading"
  /\ UNCHANGED <<conf, remote, met, cvars, fdt, peer, log, proc>>

pull_SEND ==
  /\ fdt[conf.conn] = "conn"
  /\ MainAt("pull_SEND", "join")
  /\ UNCHANGED <<crc, conf, remote, met, cvars, fdt, peer, log, proc>>

\* Mutant: the thread is not joined.
join_no_wait ==
  /\ MainAt("join", "end_file_stream")
  /\ UNCHANGED <<crc, conf, remote, met, cvars, fdt, peer, log, proc>>

\* pthread_join(), and the answer.
join ==
  /\ crc = "done"
  /\ MainAt("join", "end_file_stream")
  /\ UNCHANGED <<crc, conf, remote, met, cvars, fdt, peer, log, proc>>

\* end_file_stream(), end_cntl(), end_data() and end_cntl() again.
End(from, to, fd) ==
  /\ is_open(fd)
  /\ MainAt(from, to)
  /\ fdt' = close(fd)
  /\ UNCHANGED <<crc, conf, remote, met, cvars, peer, log, proc>>

\* The application may call deinitiate() once pull_file() has returned.
deinitiate ==
  /\ MainAt("returned", "deinitiated")
  /\ log' = "unmapped"
  /\ UNCHANGED <<crc, conf, remote, met, cvars, fdt, peer, proc>>

\* The steps that do not fail: assignments, start_file_stream() whose failure
\* only refuses the file, and what follows the return.
Infallible == {"accept_ip", "accept_port", "send_ip", "send_port",
               "create_file", "created", "mfopen",
               "returned", "deinitiated", "raise"}

\* listen() or poll() fails while start_puller() waits for a connection or the
\* first SEND packet; nothing says that it ever does.
WaitFails ==
  /\ \/ MainAt("accept", "raise")
     \/ MainAt("pull_handshake", "raise")
  /\ UNCHANGED <<crc, conf, remote, met, cvars, fdt, peer, log, proc>>

\* Any other step may fail.  It must when a descriptor is not what it was, the
\* remote address is missing or the pusher has gone, for then the step above is
\* not enabled.  Waiting for a connection or the first SEND packet has no time
\* limit: only the pusher, or a descriptor that is not open, ends that wait.
\* Every failure but that of pthread_create() reaches tryexec().
MainFails ==
  /\ proc = "running" /\ main \notin Infallible
  /\ main = "accept" => peer # "absent"
  /\ main = "close_cast" => ~is_open(conf.cast)
  /\ main = "pull_handshake" =>
       peer \in {"sent", "closed"} \/ fdt[conf.conn] # "conn"
  /\ main = "join" => crc = "done"
  /\ main' = IF main = "pull_file" THEN "returned" ELSE "raise"
  /\ UNCHANGED <<crc, conf, remote, met, cvars, fdt, peer, log, proc>>

\* raise_*_error(): a message, and exit(EXIT_FAILURE).
MainExit ==
  /\ proc = "running" /\ main = "raise"
  /\ proc' = "exited"
  /\ UNCHANGED <<mvars, cvars, fdt, peer, log>>

start_puller ==
  \/ start_cntl \/ accept_cntl
  \/ StoreIp("accept_ip", "accept_port", 2)
  \/ StorePort("accept_port", "close_cast", 2)
  \/ close_cast \/ pull_handshake
  \/ StoreIp("send_ip", "send_port", 3)
  \/ StorePort("send_port", "create_file", 3)
  \/ create_file \/ create_file_ok \/ create_file_fails \/ mfopen
  \/ start_data \/ pull_transfer
  \/ pull_verification \/ pull_SEND \/ join
  \/ End("end_file_stream", "end_cntl", conf.mapped)
  \/ End("end_cntl", "end_data", conf.cntl)
  \/ End("end_data", "end_conn", conf.data)
  \/ End("end_conn", "returned", conf.conn)

Main == pull_file \/ start_puller \/ MainFails \/ MainExit

-----------------------------------------------------------------------------
(***************************************************************************)
(* thread_broadcast().                                                     *)
(***************************************************************************)
\* Every function of the library logs, so a step needs the log.
CasterAt(from, to) ==
  /\ proc = "running" /\ log = "mapped"
  /\ caster = from /\ caster' = to

\* The checks of broadcast(), which pull_file() does not make for it: a bad
\* configuration, or an address that is not valid at this moment, ends the
\* thread and nothing else.
broadcast ==
  /\ \/ remote.ip # 0 /\ remote.port # 0 /\ CasterAt("broadcast", "port")
     \/ CasterAt("broadcast", "done")
  /\ UNCHANGED <<mvars, dest, trycount, cast_on, fdt, peer, log, proc>>

\* init_udp_socket() is called: the port is passed by value ...
read_port ==
  /\ CasterAt("port", "ip")
  /\ dest' = [dest EXCEPT !.port = remote.port]
  /\ UNCHANGED <<mvars, trycount, cast_on, fdt, peer, log, proc>>

\* ... and the string by reference.
read_ip ==
  /\ CasterAt("ip", "socket")
  /\ dest' = [dest EXCEPT !.ip = remote.ip]
  /\ UNCHANGED <<mvars, trycount, cast_on, fdt, peer, log, proc>>

\* socket(), while the number is only in tmpsock.
cast_socket ==
  /\ CasterAt("socket", "store")
  /\ fdt' = open("cast")
  /\ UNCHANGED <<mvars, dest, trycount, cast_on, peer, log, proc>>

cast_store ==
  /\ CasterAt("store", "bind")
  /\ conf' = [conf EXCEPT !.cast = CHOOSE f \in Fds : fdt[f] = "cast"]
  /\ UNCHANGED <<main, crc, remote, met, dest, trycount, cast_on, fdt, peer,
                 log, proc>>

cast_bind ==
  /\ fdt[conf.cast] = "cast"
  /\ CasterAt("bind", "connect")
  /\ UNCHANGED <<mvars, dest, trycount, cast_on, fdt, peer, log, proc>>

cast_connect ==
  /\ fdt[conf.cast] \in {"cast", "data"}
  /\ CasterAt("connect", "send")
  /\ UNCHANGED <<mvars, dest, trycount, cast_on, fdt, peer, log, proc>>

\* init_udp_socket() fails: by itself, or since the socket is gone.
CasterFails ==
  /\ \E from \in {"ip", "socket", "bind", "connect"} : CasterAt(from, "raise")
  /\ UNCHANGED <<mvars, dest, trycount, cast_on, fdt, peer, log, proc>>

\* Mutant: the loop tests trycount >= 0.
push_broadcast_header_once_more ==
  /\ CasterAt("send", "send")
  /\ trycount' = trycount - 1
  /\ UNCHANGED <<mvars, dest, cast_on, fdt, peer, log, proc>>

\* Mutant: a failed send is returned at once.
push_broadcast_header_fatal ==
  /\ trycount # 0
  /\ \/ fdt[conf.cast] \in Sendable /\ CasterAt("send", "send")
     \/ CasterAt("send", "raise")
  /\ UNCHANGED <<mvars, dest, trycount, cast_on, fdt, peer, log, proc>>

\* Mutant: a failed send does not count.
push_broadcast_header_uncounted ==
  /\ trycount # 0
  /\ CasterAt("send", "send")
  /\ UNCHANGED <<mvars, dest, trycount, cast_on, fdt, peer, log, proc>>

\* One turn of the loop of start_broadcast(), and the sleep behind it.
push_broadcast_header ==
  /\ trycount # 0
  /\ CasterAt("send", "send")
  /\ \/ /\ fdt[conf.cast] \in Sendable
        /\ trycount' = bc_trycount
        /\ cast_on' = fdt[conf.cast]
     \/ trycount' = trycount - 1 /\ UNCHANGED cast_on
  /\ UNCHANGED <<mvars, dest, fdt, peer, log, proc>>

\* Mutant: the status of close_socket() is dropped.
cast_close_unchecked ==
  /\ trycount = 0
  /\ CasterAt("send", "done")
  /\ fdt' = IF is_open(conf.cast) THEN close(conf.cast) ELSE fdt
  /\ UNCHANGED <<mvars, dest, trycount, cast_on, peer, log, proc>>

\* The loop has ended: close_socket(conf->cast_sock).
cast_close ==
  /\ trycount = 0
  /\ \/ is_open(conf.cast) /\ CasterAt("send", "done")
        /\ fdt' = close(conf.cast)
     \/ ~is_open(conf.cast) /\ CasterAt("send", "raise") /\ UNCHANGED fdt
  /\ UNCHANGED <<mvars, dest, trycount, cast_on, peer, log, proc>>

\* tryexec() in broadcast() ends the process, with whatever main is doing.
CasterExit ==
  /\ proc = "running" /\ log = "mapped" /\ caster = "raise"
  /\ proc' = "exited"
  /\ UNCHANGED <<mvars, cvars, fdt, peer, log>>

\* logging() writes to the log after deinitiate() unmapped it.
CasterCrash ==
  /\ proc = "running" /\ log = "unmapped" /\ caster \notin {"none", "done"}
  /\ proc' = "crashed"
  /\ UNCHANGED <<mvars, cvars, fdt, peer, log>>

Caster ==
  \/ broadcast \/ read_port \/ read_ip \/ cast_socket \/ cast_store
  \/ cast_bind \/ cast_connect \/ CasterFails
  \/ push_broadcast_header \/ cast_close \/ CasterExit \/ CasterCrash

-----------------------------------------------------------------------------
thread_calc_file_crc16 ==
  /\ proc = "running" /\ crc = "reading"
  /\ crc' = "done"
  /\ UNCHANGED <<main, conf, remote, met, cvars, fdt, peer, log, proc>>

\* The pusher connects once the puller listens, and sends its SEND packet,
\* closes the connection, or disappears without a word.
Peer ==
  /\ proc = "running"
  /\ \/ peer = "absent" /\ main = "accept" /\ peer' = "connected"
     \/ peer = "connected" /\ peer' \in {"sent", "closed", "vanished"}
  /\ UNCHANGED <<mvars, cvars, fdt, log, proc>>

Init ==
  /\ main = "pull_file" /\ caster = "none" /\ crc = "none"
  /\ fdt = [f \in Fds |-> IF f = 0 THEN "std" ELSE "free"]
  /\ conf = [cntl |-> 0, conn |-> 0, data |-> 0, cast |-> 0,
             created |-> NoFd, mapped |-> NoFd]
  /\ remote \in {[ip |-> a, port |-> a] : a \in {0, 1}}
  /\ dest = [ip |-> 0, port |-> 0]
  /\ trycount = bc_trycount
  /\ cast_on = "none"
  /\ met = "none"
  /\ peer = "absent"
  /\ log = "mapped"
  /\ proc = "running"

Next == Main \/ WaitFails \/ deinitiate \/ Caster \/ thread_calc_file_crc16 \/ Peer

Spec == Init /\ [][Next]_vars

\* Each thread runs; the pusher and the application promise nothing, and a wait
\* need not fail.
FairSpec == Spec /\ WF_vars(Main) /\ WF_vars(Caster)
                 /\ WF_vars(thread_calc_file_crc16)

-----------------------------------------------------------------------------
\* Every variable keeps its type: try counts do not pass zero and descriptors
\* do not run out.
TypeOK ==
  /\ fdt \in [Fds -> Kinds]
  /\ \A s \in DOMAIN conf : conf[s] \in Fds \union {NoFd}
  /\ trycount \in 0..bc_trycount
  /\ cast_on \in {"none"} \union Sendable
  /\ remote.ip \in 0..Torn /\ remote.port \in 0..3
  /\ crc \in {"none", "reading", "done"}
  /\ proc \in {"running", "exited", "crashed"}

\* Where start_puller() has closed cast_sock and not yet anything of its own.
Serving == {"pull_handshake", "send_ip", "send_port", "create_file", "created",
            "mfopen", "start_data", "pull_transfer", "pull_verification",
            "pull_SEND", "join", "end_file_stream"}

\* The broadcaster had run out of tries before the pusher was accepted.
GaveUp == met = "done" /\ trycount = 0

\* Although start_puller() closes the broadcaster's socket under its feet and
\* the broadcaster goes on sending on that number and closes it again, none of
\* the descriptors of a running transfer is closed by it or written to: the
\* number was taken by the stream that create_file() leaves open.
DescriptorsIntact ==
  main \in Serving /\ ~GaveUp =>
    /\ fdt[conf.cntl] = "cntl" /\ fdt[conf.conn] = "conn"
    /\ conf.mapped # NoFd =>
         /\ fdt[conf.mapped] = "mapped"
         /\ conf.data # 0 => fdt[conf.data] = "data"
         /\ cast_on \in {"none", "cast"}

\* The connection start_puller() has accepted stays open while it serves it.
AcceptedConnectionKept == main \in Serving => fdt[conf.conn] = "conn"

\* A broadcaster that was broadcasting when its socket was closed does not end
\* the process once the file is mapped, nor after pull_file() has returned.
BroadcasterSparesTransfer ==
  [][caster # "raise" /\ caster' = "raise" /\ met = "send"
       => conf.mapped = NoFd]_vars

\* While the CRC16 thread reads, the file is mapped and the frame it stores its
\* result in exists, or the process is on its way to exit() after a failed
\* pull_SEND_header().
CrcThreadContained ==
  crc = "reading" =>
    \/ main \in {"pull_SEND", "join"} /\ conf.mapped # NoFd
    \/ main = "raise"

\* A broadcaster that reads its destination before a pusher is accepted sends to
\* the configured one, whatever happens later.  One that reads it while
\* start_puller() overwrites it may get a string half written, or an address that
\* is newer than the port, but never an older one: it reads the port first, and
\* start_puller() writes it last.
DestinationUntilAccept ==
  caster \in {"socket", "store", "bind", "connect", "send"} =>
    /\ conf.conn = 0 => dest = [ip |-> 1, port |-> 1]
    /\ dest.ip >= dest.port

\* A broadcaster that was broadcasting when its socket was closed ends.
BroadcasterEnds ==
  met = "send" ~> (caster = "done" \/ proc # "running")

\* A pull whose broadcaster was broadcasting when start_puller() closed its
\* socket comes to an end, even if the pusher vanishes before its SEND packet,
\* for which there is no time limit: the broadcaster runs out of tries, fails to
\* close its socket a second time, and ends the process.  Where the pusher was
\* accepted before the broadcaster stored its socket, or after it had given up,
\* a pusher that vanishes leaves the call waiting for ever.
PullEnds ==
  met = "send" ~> (main \in {"returned", "deinitiated"} \/ proc # "running")
=============================================================================
