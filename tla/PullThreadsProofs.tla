-------------------------- MODULE PullThreadsProofs --------------------------
(***************************************************************************)
(* The threads of pull_file(), for any table of descriptors and any number *)
(* of broadcast tries: what the threads share without a lock is used       *)
(* consistently, except for what the violated AcceptedConnectionKept       *)
(* shows.                                                                  *)
(***************************************************************************)
EXTENDS PullThreads, TLAPS

(***************************************************************************)
(* The inductive invariant.  Places of the thread of pull_file() are       *)
(* grouped by what it has opened by then.                                  *)
(***************************************************************************)
NoCntl == {"pull_file", "start_cntl"}
NoConn == NoCntl \union {"accept"}
Opening == NoConn \union {"accept_ip", "accept_port", "close_cast"}
NoCreated == Opening \union {"pull_handshake", "send_ip", "send_port",
                             "create_file"}
NoMapped == NoCreated \union {"created", "mfopen"}
NoData == NoMapped \union {"start_data"}
Transferring == {"pull_transfer", "pull_verification", "pull_SEND", "join",
                 "end_file_stream"}
Ending == {"end_cntl", "end_data", "end_conn"}
Left == {"returned", "deinitiated", "raise"}
MainPlaces == NoData \union Transferring \union Ending \union Left

NoSocket == {"none", "broadcast", "port", "ip", "socket"}
Sending == {"bind", "connect", "send"}
CasterPlaces == NoSocket \union {"store"} \union Sending \union {"done", "raise"}

Types ==
  /\ TypeOK
  /\ main \in MainPlaces /\ caster \in CasterPlaces /\ met \in CasterPlaces
  /\ conf \in [cntl : Fds, conn : Fds, data : Fds, cast : Fds,
               created : Fds \union {NoFd}, mapped : Fds \union {NoFd}]
  /\ remote \in [ip : 0..Torn, port : 0..3]
  /\ dest \in [ip : 0..Torn, port : 0..3]

\* Every kind of descriptor is opened once: never two of a kind, and none
\* before the step that opens it.
OpenedOnce ==
  /\ \A f, g \in Fds : fdt[f] = fdt[g] /\ fdt[f] # "free" => f = g
  /\ \A f \in Fds :
       /\ fdt[f] = "cntl" => main \notin NoCntl
       /\ fdt[f] = "conn" => main \notin NoConn
       /\ fdt[f] = "created" => main \notin NoCreated
       /\ fdt[f] = "mapped" => main \notin NoMapped
       /\ fdt[f] = "data" => main \notin NoData
       /\ fdt[f] = "cast" => caster \notin NoSocket

\* The descriptor kept in field s of conf is what was opened for it.
Holds(s) == conf[s] \in Fds /\ fdt[conf[s]] = s

\* Until cast_sock is closed the numbers below it are in use, and conf names it
\* once it is stored.
BeforeClose ==
  /\ fdt[0] = "std" /\ met = "none"
  /\ conf.created = NoFd /\ conf.mapped = NoFd
  /\ main \notin NoCntl => Holds("cntl")
  /\ main \notin NoConn => Holds("conn")
  /\ caster \in NoSocket \union {"store"} => conf.cast = 0
  /\ caster = "done" /\ trycount # 0 => conf.cast = 0
  /\ caster \in Sending => Holds("cast")
  /\ caster = "raise" => conf.cast = 0 \/ Holds("cast")
  /\ \A f \in Fds : fdt[f] = "cast" =>
       \A g \in 0..(f - 1) : fdt[g] \in {"std", "cntl", "conn"}

\* The broadcaster had no socket in conf when start_puller() closed cast_sock,
\* which was standard input: its socket is its own.
OwnSocket == caster \in Sending => Holds("cast")

\* The broadcaster's socket was closed while it used it: the number is the
\* lowest that is free until create_file() takes it and leaves it open, and
\* only the broadcaster closes it again.
SocketClosed ==
  /\ caster \in Sending \union {"done", "raise"}
  /\ conf.cast # conf.cntl /\ conf.cast # conf.conn
  /\ main \in NoCreated =>
       /\ fdt[conf.cast] = "free"
       /\ \A g \in 0..(conf.cast - 1) : fdt[g] \in {"std", "cntl", "conn"}
  /\ main = "created" =>
       conf.created = conf.cast /\ fdt[conf.cast] \in {"created", "free"}
  /\ caster \in Sending /\ (main \in {"created", "mfopen"} \/ conf.mapped # NoFd)
       => fdt[conf.cast] = "created"

\* What start_puller() holds after it has closed cast_sock, up to the end of
\* each stream.
StreamsHeld ==
  /\ main \in Serving \union {"end_cntl"} => Holds("cntl")
  /\ main \in Serving \union Ending => Holds("conn")
  /\ main = "created" =>
       \/ Holds("created")
       \/ met \in Sending /\ conf.created \in Fds /\ fdt[conf.created] = "free"
  /\ main \in Serving /\ conf.mapped # NoFd => Holds("mapped")
  /\ main \in Transferring \union {"end_cntl", "end_data"}
       /\ conf.mapped # NoFd => Holds("data")

AfterClose ==
  /\ met # "none" /\ caster # "none"
  /\ met \in {"done", "raise"} => caster = met
  /\ ~GaveUp =>
       /\ StreamsHeld
       /\ met \in NoSocket \union {"store"} => OwnSocket
       /\ met \in Sending => SocketClosed
       /\ main \in NoMapped \/ conf.mapped # NoFd => cast_on \in {"none", "cast"}

DescriptorInv ==
  /\ main = "pull_file" => caster = "none"
  /\ caster = "none" => main \in {"pull_file", "returned", "deinitiated"}
  /\ main \in Opening => BeforeClose
  /\ main \in Opening => cast_on \in {"none", "cast"}
  /\ main \notin Opening /\ main \notin Left => AfterClose
  /\ main \in Left /\ met # "none" => AfterClose
  /\ caster = "store" => \E f \in Fds : fdt[f] = "cast"
  /\ main \in NoMapped => conf.mapped = NoFd
  /\ main \in {"pull_verification", "pull_SEND", "join", "end_file_stream"}
       \union Ending => conf.mapped # NoFd
  /\ met = "none" => conf.mapped = NoFd

\* The address is written before the port, and the broadcaster reads them in
\* the opposite order.  Neither is written before there is a connection.
AddressInv ==
  /\ remote.ip >= remote.port
  /\ main \in NoConn => remote.port <= 1
  /\ main \in {"accept_ip", "accept_port"} => remote.port <= 1
  /\ main \in {"close_cast", "pull_handshake", "send_ip", "send_port"} =>
       remote.port = 2
  /\ main = "accept_port" => remote.ip = 2
  /\ main = "send_port" => remote.ip = 3
  /\ caster = "ip" => dest.port <= remote.port
  /\ main \in {"accept_ip", "accept_port", "close_cast", "pull_handshake",
               "send_ip", "send_port"} => conf.conn # 0
  /\ conf.conn = 0 /\ caster \in {"port", "ip"} => remote = [ip |-> 1, port |-> 1]
  /\ conf.conn = 0 => remote \in {[ip |-> a, port |-> a] : a \in {0, 1}}
  /\ conf.conn = 0 /\ caster = "ip" => dest.port = 1
  /\ DestinationUntilAccept

\* The thread exists from pull_verification() until it is joined.
CrcInv ==
  /\ crc = "reading" => main \in {"pull_SEND", "join", "raise"}
  /\ crc = "reading" => conf.mapped # NoFd

\* conf->data_sock is what the caller left there until it is opened, and the
\* broadcaster does not return to its socket() once it sends.
OrderInv ==
  /\ main \in NoData => conf.data = 0
  /\ met = "send" => caster \in {"send", "done", "raise"}

ThreadInv ==
  Types /\ OpenedOnce /\ DescriptorInv /\ AddressInv /\ CrcInv /\ OrderInv

-----------------------------------------------------------------------------
USE ThreadsAssumption

\* Seven descriptors suffice for six kinds: as long as no kind is opened twice
\* there is a number for the next one, and lowest is the least of them.
LEMMA Lowest ==
  ASSUME Types, OpenedOnce,
         NEW kind \in Kinds \ {"free"}, \A f \in Fds : fdt[f] # kind
  PROVE  /\ lowest \in Fds /\ fdt[lowest] = "free"
         /\ \A g \in Fds : fdt[g] = "free" => lowest <= g
<1>1. \E f \in 0..6 : fdt[f] = "free"
  <2> SUFFICES ASSUME \A f \in 0..6 : fdt[f] # "free" PROVE FALSE
    OBVIOUS
  <2>1. \A f \in 0..6 : f \in Fds /\ fdt[f] \in Kinds \ {"free", kind}
    BY DEF Fds, Types, TypeOK
  <2>2. \A f, g \in 0..6 : fdt[f] = fdt[g] => f = g
    BY <2>1 DEF OpenedOnce
  <2>3. \A i \in {0, 1, 2, 3, 4, 5, 6} : i \in 0..6
    OBVIOUS
  <2>4. QED
    BY <2>1, <2>2, <2>3, SMTT(60) DEF Kinds
<1>2. \E f \in 0..6 :
        fdt[f] = "free" /\ \A g \in 0..6 : fdt[g] = "free" => f <= g
  BY <1>1, SMTT(60)
<1>3. \E x \in {f \in Fds : fdt[f] = "free"} :
        \A y \in {f \in Fds : fdt[f] = "free"} : x <= y
  BY <1>2 DEF Fds
<1>4. QED
  BY <1>3 DEF lowest, Min

\* Where a descriptor is opened, none of its kind exists, so there is room.
LEMMA Room ==
  ASSUME ThreadInv,
         \/ main \in {"start_cntl", "accept", "create_file", "mfopen", "start_data"}
         \/ caster = "socket"
  PROVE  /\ lowest \in Fds /\ fdt[lowest] = "free"
         /\ \A g \in Fds : fdt[g] = "free" => lowest <= g
<1> DEFINE Absent(kind) == \A f \in Fds : fdt[f] # kind
<1>1. Types /\ OpenedOnce
  BY DEF ThreadInv
<1>2. \E kind \in Kinds \ {"free"} : Absent(kind)
  <2>1. main = "start_cntl" => Absent("cntl")
    BY <1>1 DEF OpenedOnce, NoCntl
  <2>2. main = "accept" => Absent("conn")
    BY <1>1 DEF OpenedOnce, NoConn
  <2>3. main = "create_file" => Absent("created")
    BY <1>1 DEF OpenedOnce, NoCreated
  <2>4. main = "mfopen" => Absent("mapped")
    BY <1>1 DEF OpenedOnce, NoMapped
  <2>5. main = "start_data" => Absent("data")
    BY <1>1 DEF OpenedOnce, NoData
  <2>6. caster = "socket" => Absent("cast")
    BY <1>1 DEF OpenedOnce, NoSocket
  <2>7. {"cntl", "conn", "created", "mapped", "data", "cast"}
          \subseteq Kinds \ {"free"}
    BY DEF Kinds
  <2> HIDE DEF Absent
  <2>8. QED
    BY <2>1, <2>2, <2>3, <2>4, <2>5, <2>6, <2>7
<1>3. QED
  BY <1>1, <1>2, Lowest

\* A step of the thread of pull_file() keeps every variable in its type.
LEMMA MainTypes ==
  ASSUME ThreadInv, Main \/ WaitFails \/ deinitiate
  PROVE  Types'
<1> USE DEF Types, TypeOK, mvars, cvars, MainAt, MainPlaces, Left, Ending,
            Transferring, NoData, NoMapped, NoCreated, Opening, NoConn, NoCntl
<1>1. Types
  BY DEF ThreadInv
<1>2. CASE pull_file
  BY <1>1, <1>2 DEF pull_file, CasterPlaces, NoSocket
<1>3. CASE start_cntl
  BY <1>1, <1>3, Room DEF start_cntl, open, Kinds
<1>4. CASE accept_cntl
  BY <1>1, <1>4, Room DEF accept_cntl, open, Kinds, Torn
<1>5. CASE \/ StoreIp("accept_ip", "accept_port", 2)
           \/ StorePort("accept_port", "close_cast", 2)
           \/ StoreIp("send_ip", "send_port", 3)
           \/ StorePort("send_port", "create_file", 3)
  BY <1>1, <1>5 DEF StoreIp, StorePort, Torn
<1>6. CASE close_cast
  BY <1>1, <1>6 DEF close_cast, close, is_open, Kinds
<1>7. CASE pull_handshake
  BY <1>1, <1>7 DEF pull_handshake, Torn
<1>8. CASE create_file
  BY <1>1, <1>8, Room DEF create_file, open, Kinds
<1>9. CASE create_file_ok
  BY <1>1, <1>9 DEF create_file_ok
<1>10. CASE create_file_fails
  BY <1>1, <1>10 DEF create_file_fails, close, Kinds
<1>11. CASE mfopen
  BY <1>1, <1>11, Room DEF mfopen, open, Kinds
<1>12. CASE start_data
  BY <1>1, <1>12, Room DEF start_data, open, Kinds
<1>13. CASE pull_transfer \/ pull_verification \/ pull_SEND \/ join
  BY <1>1, <1>13 DEF pull_transfer, pull_verification, pull_SEND, join
<1>14. ASSUME NEW fd, NEW from,
              NEW to \in {"end_cntl", "end_data", "end_conn", "returned"},
              End(from, to, fd)
       PROVE  Types'
  BY <1>1, <1>14 DEF End, close, Kinds
<1>15. CASE MainFails \/ WaitFails \/ MainExit
  BY <1>1, <1>15 DEF MainFails, WaitFails, MainExit
<1>16. CASE deinitiate
  BY <1>1, <1>16 DEF deinitiate
<1>17. QED
  BY <1>2, <1>3, <1>4, <1>5, <1>6, <1>7, <1>8, <1>9, <1>10, <1>11, <1>12,
     <1>13, <1>14, <1>15, <1>16 DEF Main, start_puller

\* A step of the other threads, or of the pusher, does so too.
LEMMA CasterTypes ==
  ASSUME ThreadInv, Caster \/ thread_calc_file_crc16 \/ Peer
  PROVE  Types'
<1> USE DEF Types, TypeOK, mvars, cvars, CasterAt, CasterPlaces, NoSocket,
            Sending
<1>1. Types
  BY DEF ThreadInv
<1>2. CASE broadcast \/ read_port \/ read_ip
  BY <1>1, <1>2 DEF broadcast, read_port, read_ip
<1>3. CASE cast_socket
  BY <1>1, <1>3, Room DEF cast_socket, open, Kinds
<1>4. CASE cast_store
  <2>1. \E f \in Fds : fdt[f] = "cast"
    BY <1>4 DEF ThreadInv, DescriptorInv, cast_store
  <2>2. (CHOOSE f \in Fds : fdt[f] = "cast") \in Fds
    BY <2>1
  <2>3. QED
    BY <1>1, <1>4, <2>2 DEF cast_store
<1>5. CASE cast_bind \/ cast_connect \/ CasterFails
  BY <1>1, <1>5 DEF cast_bind, cast_connect, CasterFails
<1>6. CASE push_broadcast_header
  BY <1>1, <1>6 DEF push_broadcast_header
<1>7. CASE cast_close
  BY <1>1, <1>7 DEF cast_close, close, is_open, Kinds
<1>8. CASE CasterExit \/ CasterCrash \/ thread_calc_file_crc16 \/ Peer
  BY <1>1, <1>8 DEF CasterExit, CasterCrash, thread_calc_file_crc16, Peer
<1>9. QED
  BY <1>2, <1>3, <1>4, <1>5, <1>6, <1>7, <1>8 DEF Caster

\* Opening a kind that does not exist keeps the kinds apart, and so does closing.
LEMMA OnceKept ==
  ASSUME Types, \A f, g \in Fds : fdt[f] = fdt[g] /\ fdt[f] # "free" => f = g,
         \/ fdt' = fdt
         \/ \E fd : fdt' = close(fd)
         \/ \E kind \in Kinds : fdt' = open(kind) /\ \A f \in Fds : fdt[f] # kind
  PROVE  \A f, g \in Fds : fdt'[f] = fdt'[g] /\ fdt'[f] # "free" => f = g
BY DEF Types, TypeOK, close, open

\* The thread of pull_file() opens each of its kinds at one place, which it
\* does not come back to.
LEMMA MainOpensOnce ==
  ASSUME ThreadInv, Main \/ WaitFails \/ deinitiate
  PROVE  OpenedOnce'
<1> USE DEF mvars, cvars, MainAt, Left, Ending,
            Transferring, NoData, NoMapped, NoCreated, Opening, NoConn, NoCntl
<1>1. /\ Types /\ OpenedOnce
      /\ fdt \in [Fds -> Kinds] /\ main \in MainPlaces
  BY DEF ThreadInv, Types, TypeOK
<1>2. CASE pull_file
  <2>1. caster = "none"
    BY <1>2 DEF ThreadInv, DescriptorInv, pull_file
  <2>2. QED
    BY <1>1, <1>2, <2>1 DEF pull_file, OpenedOnce, NoSocket
<1>3. CASE start_cntl
  BY <1>1, <1>3, Room, OnceKept DEF start_cntl, open, OpenedOnce, Kinds
<1>4. CASE accept_cntl
  BY <1>1, <1>4, Room, OnceKept DEF accept_cntl, open, OpenedOnce, Kinds
<1>5. CASE create_file
  BY <1>1, <1>5, Room, OnceKept DEF create_file, open, OpenedOnce, Kinds
<1>6. CASE mfopen
  BY <1>1, <1>6, Room, OnceKept DEF mfopen, open, OpenedOnce, Kinds
<1>7. CASE start_data
  BY <1>1, <1>7, Room, OnceKept DEF start_data, open, OpenedOnce, Kinds
<1>8. CASE \/ StoreIp("accept_ip", "accept_port", 2)
           \/ StorePort("accept_port", "close_cast", 2)
           \/ StoreIp("send_ip", "send_port", 3)
           \/ StorePort("send_port", "create_file", 3)
  BY <1>1, <1>8 DEF StoreIp, StorePort, OpenedOnce
<1>9. CASE close_cast
  BY <1>1, <1>9 DEF close_cast, close, OpenedOnce, Kinds
<1>10. CASE create_file_fails
  BY <1>1, <1>10 DEF create_file_fails, close, OpenedOnce, Kinds
<1>11. CASE \/ pull_handshake \/ create_file_ok \/ pull_transfer
            \/ pull_verification \/ pull_SEND \/ join
  BY <1>1, <1>11 DEF pull_handshake, create_file_ok, pull_transfer,
     pull_verification, pull_SEND, join, OpenedOnce
<1>12. CASE \/ End("end_file_stream", "end_cntl", conf.mapped)
            \/ End("end_cntl", "end_data", conf.cntl)
            \/ End("end_data", "end_conn", conf.data)
            \/ End("end_conn", "returned", conf.conn)
  BY <1>1, <1>12 DEF End, close, OpenedOnce, Kinds
<1>13. CASE MainFails \/ WaitFails \/ MainExit \/ deinitiate
  BY <1>1, <1>13 DEF MainFails, WaitFails, MainExit, deinitiate, OpenedOnce
<1>14. QED
  BY <1>2, <1>3, <1>4, <1>5, <1>6, <1>7, <1>8, <1>9, <1>10, <1>11, <1>12,
     <1>13 DEF Main, start_puller

\* The broadcaster opens one socket.
LEMMA CasterOpensOnce ==
  ASSUME ThreadInv, Caster \/ thread_calc_file_crc16 \/ Peer
  PROVE  OpenedOnce'
<1> USE DEF mvars, cvars, CasterAt, NoSocket
<1>1. /\ Types /\ OpenedOnce
      /\ fdt \in [Fds -> Kinds]
  BY DEF ThreadInv, Types, TypeOK
<1>2. CASE broadcast \/ read_port \/ read_ip \/ cast_store
  BY <1>1, <1>2 DEF broadcast, read_port, read_ip, cast_store, OpenedOnce
<1>3. CASE cast_socket
  BY <1>1, <1>3, Room, OnceKept DEF cast_socket, open, OpenedOnce, Kinds
<1>4. CASE cast_bind \/ cast_connect \/ CasterFails \/ push_broadcast_header
  BY <1>1, <1>4 DEF cast_bind, cast_connect, CasterFails,
     push_broadcast_header, OpenedOnce
<1>5. CASE cast_close
  BY <1>1, <1>5 DEF cast_close, close, OpenedOnce, Kinds
<1>6. CASE CasterExit \/ CasterCrash \/ thread_calc_file_crc16 \/ Peer
  BY <1>1, <1>6 DEF CasterExit, CasterCrash, thread_calc_file_crc16, Peer,
     OpenedOnce
<1>7. QED
  BY <1>2, <1>3, <1>4, <1>5, <1>6 DEF Caster

\* start_puller() writes the address before the port, each once for the
\* connection and once for the SEND packet; the broadcaster reads the port
\* before the address.
LEMMA AddressStep ==
  ASSUME ThreadInv, [Next]_vars
  PROVE  AddressInv'
<1> USE DEF AddressInv, DestinationUntilAccept, mvars, cvars, NoConn, NoCntl
<1>1. /\ AddressInv /\ remote \in [ip : 0..Torn, port : 0..3]
      /\ dest \in [ip : 0..Torn, port : 0..3] /\ main \in MainPlaces
      /\ conf \in [cntl : Fds, conn : Fds, data : Fds, cast : Fds,
                   created : Fds \union {NoFd}, mapped : Fds \union {NoFd}]
  BY DEF ThreadInv, Types
<1>2. CASE pull_file \/ start_cntl
  BY <1>1, <1>2 DEF pull_file, start_cntl, MainAt
<1>3. CASE accept_cntl
  <2>1. main = "accept" /\ main' = "accept_ip" /\ UNCHANGED cvars
        /\ conf' = [conf EXCEPT !.conn = lowest]
        /\ remote' = [remote EXCEPT !.ip = Torn]
    BY <1>3 DEF accept_cntl, MainAt
  <2>2. fdt[0] = "std"
    BY <2>1 DEF ThreadInv, DescriptorInv, BeforeClose, Opening
  <2>3. lowest # 0
    BY <2>1, <2>2, Room
  <2>4. conf'.conn # 0
    BY <1>1, <2>1, <2>3
  <2> QED
    BY <1>1, <2>1, <2>4 DEF Torn
<1>4. CASE \/ StoreIp("accept_ip", "accept_port", 2)
           \/ StorePort("accept_port", "close_cast", 2)
           \/ StoreIp("send_ip", "send_port", 3)
           \/ StorePort("send_port", "create_file", 3)
  BY <1>1, <1>4 DEF StoreIp, StorePort, MainAt, Torn
<1>5. CASE pull_handshake
  BY <1>1, <1>5 DEF pull_handshake, MainAt, Torn
<1>6. CASE \/ close_cast \/ create_file \/ create_file_ok
           \/ create_file_fails \/ mfopen \/ start_data \/ pull_transfer
           \/ pull_verification \/ pull_SEND \/ join
  BY <1>1, <1>6 DEF close_cast, create_file, create_file_ok,
     create_file_fails, mfopen, start_data, pull_transfer, pull_verification,
     pull_SEND, join, MainAt
<1>7. CASE \/ End("end_file_stream", "end_cntl", conf.mapped)
           \/ End("end_cntl", "end_data", conf.cntl)
           \/ End("end_data", "end_conn", conf.data)
           \/ End("end_conn", "returned", conf.conn)
  BY <1>1, <1>7 DEF End, MainAt
<1>8. CASE MainFails \/ WaitFails \/ MainExit \/ deinitiate
  BY <1>1, <1>8 DEF MainFails, WaitFails, MainExit, deinitiate, MainAt
<1>9. CASE broadcast \/ read_port \/ read_ip
  BY <1>1, <1>9 DEF broadcast, read_port, read_ip, CasterAt
<1>10. CASE cast_socket \/ cast_store \/ cast_bind \/ cast_connect
  BY <1>1, <1>10 DEF cast_socket, cast_store, cast_bind, cast_connect, CasterAt
<1>11. CASE CasterFails \/ push_broadcast_header \/ cast_close
  BY <1>1, <1>11 DEF CasterFails, push_broadcast_header, cast_close, CasterAt
<1>12. CASE CasterExit \/ CasterCrash \/ thread_calc_file_crc16 \/ Peer
  BY <1>1, <1>12 DEF CasterExit, CasterCrash, thread_calc_file_crc16, Peer
<1>13. CASE UNCHANGED vars
  BY <1>1, <1>13 DEF vars
<1>14. QED
  BY <1>2, <1>3, <1>4, <1>5, <1>6, <1>7, <1>8, <1>9, <1>10, <1>11, <1>12,
     <1>13 DEF Next, Main, start_puller, Caster

\* The CRC16 thread starts when the file is mapped, and main waits for it
\* before it goes on to unmap the file.
LEMMA CrcStep ==
  ASSUME ThreadInv, [Next]_vars
  PROVE  CrcInv'
<1> USE DEF CrcInv, mvars, cvars, MainAt
<1>1. /\ CrcInv /\ Types
      /\ main = "pull_verification" => conf.mapped # NoFd
  BY DEF ThreadInv, DescriptorInv
<1>2. CASE \/ pull_file \/ start_cntl \/ accept_cntl
           \/ StoreIp("accept_ip", "accept_port", 2)
           \/ StorePort("accept_port", "close_cast", 2)
           \/ StoreIp("send_ip", "send_port", 3)
           \/ StorePort("send_port", "create_file", 3)
  BY <1>1, <1>2 DEF pull_file, start_cntl, accept_cntl, StoreIp, StorePort, Types
<1>3. CASE close_cast \/ pull_handshake \/ create_file \/ create_file_ok
           \/ create_file_fails \/ mfopen \/ start_data
  BY <1>1, <1>3 DEF close_cast, pull_handshake, create_file, create_file_ok,
     create_file_fails, mfopen, start_data, Types
<1>4. CASE pull_transfer \/ pull_verification \/ pull_SEND \/ join
  BY <1>1, <1>4 DEF pull_transfer, pull_verification, pull_SEND, join
<1>5. CASE \/ End("end_file_stream", "end_cntl", conf.mapped)
           \/ End("end_cntl", "end_data", conf.cntl)
           \/ End("end_data", "end_conn", conf.data)
           \/ End("end_conn", "returned", conf.conn)
  BY <1>1, <1>5 DEF End
<1>6. CASE MainFails \/ WaitFails \/ MainExit \/ deinitiate
  BY <1>1, <1>6 DEF MainFails, WaitFails, MainExit, deinitiate
<1>7. CASE broadcast \/ read_port \/ read_ip \/ cast_socket \/ cast_store
           \/ cast_bind \/ cast_connect
  BY <1>1, <1>7 DEF broadcast, read_port, read_ip, cast_socket, cast_store,
     cast_bind, cast_connect, Types
<1>8. CASE CasterFails \/ push_broadcast_header \/ cast_close \/ CasterExit
           \/ CasterCrash \/ thread_calc_file_crc16 \/ Peer
  BY <1>1, <1>8 DEF CasterFails, push_broadcast_header, cast_close,
     CasterExit, CasterCrash, thread_calc_file_crc16, Peer
<1>9. CASE UNCHANGED vars
  BY <1>1, <1>9 DEF vars
<1>10. QED
  BY <1>2, <1>3, <1>4, <1>5, <1>6, <1>7, <1>8, <1>9
     DEF Next, Main, start_puller, Caster

\* Until start_puller() closes cast_sock nothing but the broadcaster closes
\* anything.
LEMMA OpeningStep ==
  ASSUME ThreadInv, pull_file \/ start_cntl \/ accept_cntl
           \/ StoreIp("accept_ip", "accept_port", 2)
           \/ StorePort("accept_port", "close_cast", 2)
  PROVE  DescriptorInv'
<1> USE DEF mvars, cvars, MainAt, DescriptorInv, BeforeClose, Holds, NoCntl,
            NoConn, Opening
<1>1. /\ DescriptorInv /\ main \in Opening /\ BeforeClose
      /\ main' \in Opening /\ main' \notin Left
      /\ main' \notin {"pull_verification", "pull_SEND", "join", "end_file_stream"}
           \union Ending
  BY DEF ThreadInv, pull_file, start_cntl, accept_cntl, StoreIp, StorePort,
     Left, Ending
<1>2. /\ caster \in CasterPlaces /\ trycount \in 0..bc_trycount
      /\ conf \in [cntl : Fds, conn : Fds, data : Fds, cast : Fds,
                    created : Fds \union {NoFd}, mapped : Fds \union {NoFd}]
      /\ fdt \in [Fds -> Kinds] /\ OpenedOnce
      /\ Types' /\ OpenedOnce'
  BY MainTypes, MainOpensOnce DEF ThreadInv, Types, TypeOK, Main, start_puller
<1>3. CASE pull_file
  BY <1>1, <1>2, <1>3 DEF pull_file, NoSocket, Sending
<1>4. CASE start_cntl
  <2>1. /\ fdt' = [fdt EXCEPT ![lowest] = "cntl"]
        /\ conf' = [conf EXCEPT !.cntl = lowest]
        /\ lowest \in Fds /\ fdt[lowest] = "free"
        /\ UNCHANGED <<cvars, met>> /\ main = "start_cntl" /\ main' = "accept"
    BY <1>4, Room DEF start_cntl, open
  <2>2. BeforeClose'
    BY <1>1, <1>2, <2>1
  <2>3. QED
    BY <1>1, <1>2, <2>1, <2>2
<1>5. CASE accept_cntl
  <2>1. /\ fdt' = [fdt EXCEPT ![lowest] = "conn"]
        /\ conf' = [conf EXCEPT !.conn = lowest]
        /\ lowest \in Fds /\ fdt[lowest] = "free"
        /\ UNCHANGED <<cvars, met>> /\ main = "accept" /\ main' = "accept_ip"
    BY <1>5, Room DEF accept_cntl, open
  <2>2. BeforeClose'
    BY <1>1, <1>2, <2>1
  <2>3. QED
    BY <1>1, <1>2, <2>1, <2>2
<1>6. CASE \/ StoreIp("accept_ip", "accept_port", 2)
           \/ StorePort("accept_port", "close_cast", 2)
  BY <1>1, <1>2, <1>6 DEF StoreIp, StorePort
<1>7. QED
  BY <1>3, <1>4, <1>5, <1>6

\* start_puller() closes cast_sock: the socket of a broadcaster that uses it,
\* standard input if it has none yet.
LEMMA CloseCastStep ==
  ASSUME ThreadInv, close_cast
  PROVE  DescriptorInv'
<1> USE DEF Holds
<1>1. /\ DescriptorInv /\ BeforeClose /\ main = "close_cast"
      /\ Holds("cntl") /\ Holds("conn") /\ cast_on \in {"none", "cast"}
      /\ caster # "none"
  BY DEF ThreadInv, DescriptorInv, BeforeClose, close_cast, MainAt, NoCntl,
     NoConn, Opening
<1>2. /\ caster \in CasterPlaces /\ trycount \in 0..bc_trycount
      /\ conf \in [cntl : Fds, conn : Fds, data : Fds, cast : Fds,
                    created : Fds \union {NoFd}, mapped : Fds \union {NoFd}]
      /\ fdt \in [Fds -> Kinds] /\ OpenedOnce
  BY DEF ThreadInv, Types, TypeOK
<1>3. /\ main' = "pull_handshake" /\ met' = caster /\ caster' = caster
      /\ fdt' = [fdt EXCEPT ![conf.cast] = "free"]
      /\ UNCHANGED <<conf, trycount, cast_on>>
  BY DEF close_cast, close, MainAt, cvars
<1>4. AfterClose'
  <2> SUFFICES ASSUME ~GaveUp' PROVE AfterClose'
    BY <1>1, <1>3 DEF AfterClose
  <2>1. caster = "done" => trycount # 0
    BY <1>3 DEF GaveUp
  <2>2. conf.cast # conf.cntl /\ conf.cast # conf.conn
    BY <1>1, <1>2, <2>1 DEF BeforeClose, CasterPlaces, NoSocket, Sending
  <2>3. StreamsHeld'
    BY <1>1, <1>2, <1>3, <2>2 DEF StreamsHeld, BeforeClose, Transferring
  <2>4. caster \in NoSocket \union {"store"} => OwnSocket'
    BY <1>3 DEF OwnSocket, NoSocket, Sending
  <2>5. caster \in Sending => SocketClosed'
    <3> SUFFICES ASSUME caster \in Sending PROVE SocketClosed'
      OBVIOUS
    <3>1. fdt[conf.cast] = "cast"
      BY <1>1 DEF BeforeClose
    <3>2. \A g \in 0..(conf.cast - 1) : fdt[g] \in {"std", "cntl", "conn"}
      BY <1>1, <1>2, <3>1 DEF BeforeClose
    <3>3. \A g \in 0..(conf.cast - 1) : g \in Fds /\ g # conf.cast
      BY <1>2 DEF Fds
    <3>4. fdt'[conf'.cast] = "free"
          /\ \A g \in 0..(conf'.cast - 1) : fdt'[g] \in {"std", "cntl", "conn"}
      BY <1>2, <1>3, <3>2, <3>3
    <3>5. QED
      BY <1>1, <1>3, <2>2, <3>4 DEF SocketClosed, BeforeClose
  <2>6. QED
    BY <1>1, <1>3, <2>3, <2>4, <2>5 DEF AfterClose
<1>5. caster = "store" => \E f \in Fds : fdt'[f] = "cast"
  BY <1>1, <1>2, <1>3 DEF DescriptorInv, BeforeClose
<1>6. QED
  BY <1>1, <1>3, <1>4, <1>5
     DEF DescriptorInv, BeforeClose, Opening, NoConn, NoCntl, Left, Ending

\* Steps of start_puller() after that which leave the descriptors alone.
LEMMA ServingStep ==
  ASSUME ThreadInv,
         \/ pull_handshake \/ StoreIp("send_ip", "send_port", 3)
         \/ StorePort("send_port", "create_file", 3) \/ create_file_ok
         \/ pull_transfer \/ pull_verification \/ pull_SEND \/ join
  PROVE  DescriptorInv'
<1>1. /\ DescriptorInv /\ main \notin Opening /\ main \notin Left
      /\ AfterClose /\ main \in Serving
      /\ main' \notin Opening /\ main' \notin Left /\ main' \in Serving
      /\ UNCHANGED <<fdt, conf, met, cvars>>
      /\ main' \in NoCreated => main \in NoCreated
      /\ main' \in NoMapped => main \in NoMapped
      /\ main' # "created" /\ main' # "pull_file"
      /\ main' = "mfopen" => main = "created"
      /\ main' \in Transferring \union {"end_cntl", "end_data"} =>
           main \in Transferring
      /\ main' \in {"pull_verification", "pull_SEND", "join", "end_file_stream"}
           \union Ending => conf.mapped # NoFd
  BY DEF ThreadInv, DescriptorInv, MainAt, pull_handshake, StoreIp, StorePort,
     create_file_ok, pull_transfer, pull_verification, pull_SEND, join,
     NoCntl, NoConn, Opening, NoCreated, NoMapped, Left, Serving,
     Transferring, Ending
<1>2. AfterClose'
  <2>1. GaveUp' = GaveUp
    BY <1>1 DEF GaveUp, cvars
  <2>2. ~GaveUp => StreamsHeld'
    BY <1>1 DEF AfterClose, StreamsHeld, Holds
  <2>3. OwnSocket => OwnSocket'
    BY <1>1 DEF OwnSocket, Holds, cvars
  <2>4. SocketClosed => SocketClosed'
    BY <1>1 DEF SocketClosed, cvars
  <2>5. QED
    BY <1>1, <2>1, <2>2, <2>3, <2>4 DEF AfterClose, cvars
<1>3. QED
  BY <1>1, <1>2 DEF DescriptorInv, AfterClose, cvars

\* The stream of create_file() takes the lowest free number, which is that of
\* the socket if the broadcaster was using it; mfopen() and start_data() take
\* others as long as the broadcaster may use that one.
LEMMA OpenStep ==
  ASSUME ThreadInv, create_file \/ mfopen \/ start_data
  PROVE  DescriptorInv'
<1> USE DEF Holds
<1>1. /\ DescriptorInv /\ AfterClose /\ main \in Serving
      /\ main' \in Serving /\ main' \notin Opening /\ main' \notin Left
      /\ main' # "pull_file" /\ main' \notin NoCreated
      /\ main' \notin {"pull_verification", "pull_SEND", "join", "end_file_stream"}
           \union Ending
      /\ UNCHANGED <<met, cvars>>
  BY DEF ThreadInv, DescriptorInv, MainAt, create_file, mfopen, start_data,
     NoCntl, NoConn, Opening, NoCreated, NoMapped, Left, Serving, Ending
<1>2. /\ caster \in CasterPlaces
      /\ conf \in [cntl : Fds, conn : Fds, data : Fds, cast : Fds,
                    created : Fds \union {NoFd}, mapped : Fds \union {NoFd}]
      /\ fdt \in [Fds -> Kinds] /\ NoFd \notin Fds
  BY DEF ThreadInv, Types, TypeOK, NoFd, Fds
<1>3. GaveUp' = GaveUp /\ UNCHANGED <<caster, trycount, cast_on>>
  BY <1>1 DEF GaveUp, cvars
<1>4. CASE create_file
  <2>1. /\ fdt' = [fdt EXCEPT ![lowest] = "created"]
        /\ conf' = [conf EXCEPT !.created = lowest]
        /\ lowest \in Fds /\ fdt[lowest] = "free"
        /\ \A g \in Fds : fdt[g] = "free" => lowest <= g
        /\ main = "create_file" /\ main' = "created"
        /\ conf.mapped = NoFd /\ main \in NoMapped /\ main \in NoCreated
        /\ main \notin Transferring /\ main' \notin Transferring
    BY <1>4, Room, <1>1 DEF create_file, open, MainAt, DescriptorInv, NoMapped,
       NoCreated, Opening, NoConn, NoCntl, Transferring
  <2>2. ~GaveUp => StreamsHeld'
    BY <1>1, <1>2, <2>1 DEF AfterClose, StreamsHeld
  <2>3. OwnSocket => OwnSocket'
    BY <1>2, <1>3, <2>1 DEF OwnSocket
  <2>4. SocketClosed => SocketClosed'
    <3> SUFFICES ASSUME SocketClosed PROVE SocketClosed'
      OBVIOUS
    <3>1. fdt[conf.cast] = "free"
          /\ \A g \in 0..(conf.cast - 1) : fdt[g] \in {"std", "cntl", "conn"}
      BY <2>1 DEF SocketClosed
    <3>2. lowest = conf.cast
      BY <1>2, <2>1, <3>1 DEF Fds
    <3>3. QED
      BY <1>1, <1>2, <1>3, <2>1, <3>2 DEF SocketClosed
  <2>5. AfterClose'
    BY <1>1, <1>2, <1>3, <2>1, <2>2, <2>3, <2>4 DEF AfterClose
  <2>6. caster = "store" => \E f \in Fds : fdt'[f] = "cast"
    BY <1>1, <1>2, <2>1 DEF DescriptorInv
  <2>7. QED
    BY <1>1, <1>2, <1>3, <2>1, <2>5, <2>6 DEF DescriptorInv, AfterClose
<1>5. CASE mfopen
  <2>1. /\ main = "mfopen" /\ main' = "start_data"
        /\ conf.mapped = NoFd /\ main \in NoMapped /\ main' \notin NoMapped
        /\ main \notin Transferring /\ main' \notin Transferring
        /\ lowest \in Fds /\ fdt[lowest] = "free"
    BY <1>5, Room, <1>1 DEF mfopen, MainAt, DescriptorInv, NoMapped,
       NoCreated, Opening, NoConn, NoCntl, Transferring
  <2>2. \/ /\ fdt' = [fdt EXCEPT ![lowest] = "mapped"]
           /\ conf' = [conf EXCEPT !.mapped = lowest]
        \/ UNCHANGED <<fdt, conf>>
    BY <1>5 DEF mfopen, open
  <2>3. ~GaveUp => StreamsHeld'
    BY <1>1, <1>2, <2>1, <2>2 DEF AfterClose, StreamsHeld
  <2>4. OwnSocket => OwnSocket'
    BY <1>2, <1>3, <2>1, <2>2 DEF OwnSocket
  <2>5. SocketClosed => SocketClosed'
    BY <1>1, <1>2, <1>3, <2>1, <2>2 DEF SocketClosed
  <2>6. AfterClose'
    BY <1>1, <1>2, <1>3, <2>1, <2>3, <2>4, <2>5 DEF AfterClose
  <2>7. caster = "store" => \E f \in Fds : fdt'[f] = "cast"
    BY <1>1, <1>2, <2>1, <2>2 DEF DescriptorInv
  <2>8. QED
    BY <1>1, <1>2, <1>3, <2>1, <2>6, <2>7 DEF DescriptorInv, AfterClose
<1>6. CASE start_data
  <2>1. /\ main = "start_data" /\ main' = "pull_transfer"
        /\ main' \notin NoMapped
        /\ lowest \in Fds /\ fdt[lowest] = "free"
        /\ fdt' = [fdt EXCEPT ![lowest] = "data"]
        /\ conf' = [conf EXCEPT !.data = lowest]
    BY <1>6, Room DEF start_data, open, MainAt, NoMapped, NoCreated, Opening,
       NoConn, NoCntl
  <2>2. ~GaveUp => StreamsHeld'
    BY <1>1, <1>2, <2>1 DEF AfterClose, StreamsHeld
  <2>3. OwnSocket => OwnSocket'
    BY <1>2, <1>3, <2>1 DEF OwnSocket
  <2>4. SocketClosed => SocketClosed'
    BY <1>1, <1>2, <1>3, <2>1 DEF SocketClosed
  <2>5. AfterClose'
    BY <1>1, <1>2, <1>3, <2>1, <2>2, <2>3, <2>4 DEF AfterClose
  <2>6. caster = "store" => \E f \in Fds : fdt'[f] = "cast"
    BY <1>1, <1>2, <2>1 DEF DescriptorInv
  <2>7. QED
    BY <1>1, <1>2, <1>3, <2>1, <2>5, <2>6 DEF DescriptorInv, AfterClose
<1>7. QED
  BY <1>4, <1>5, <1>6

\* create_file() refuses the file: the number it closes is its stream's, or
\* free since the broadcaster closed it.
LEMMA RefuseStep ==
  ASSUME ThreadInv, create_file_fails
  PROVE  DescriptorInv'
<1> USE DEF Holds
<1>1. /\ DescriptorInv /\ AfterClose /\ main \in {"create_file", "created"}
      /\ main \in Serving /\ main' = "start_data"
      /\ conf.mapped = NoFd /\ main \in NoMapped
      /\ UNCHANGED <<met, cvars, conf>>
  BY DEF ThreadInv, DescriptorInv, MainAt, create_file_fails, Serving,
     NoCntl, NoConn, Opening, NoCreated, NoMapped, Left
<1>2. /\ caster \in CasterPlaces
      /\ conf \in [cntl : Fds, conn : Fds, data : Fds, cast : Fds,
                    created : Fds \union {NoFd}, mapped : Fds \union {NoFd}]
      /\ fdt \in [Fds -> Kinds]
  BY DEF ThreadInv, Types, TypeOK
<1>3. GaveUp' = GaveUp /\ UNCHANGED <<caster, trycount, cast_on>>
  BY <1>1 DEF GaveUp, cvars
<1>4. \/ fdt' = fdt
      \/ fdt' = [fdt EXCEPT ![conf.created] = "free"] /\ main = "created"
  BY DEF create_file_fails, MainAt, close
<1>5. ~GaveUp => \A f \in Fds : fdt[f] # "created" => fdt'[f] = fdt[f]
  BY <1>1, <1>2, <1>4 DEF AfterClose, StreamsHeld
<1>6. ~GaveUp => StreamsHeld'
  BY <1>1, <1>2, <1>5 DEF AfterClose, StreamsHeld, Transferring, Serving, Ending
<1>7. ~GaveUp /\ OwnSocket => OwnSocket'
  BY <1>1, <1>2, <1>3, <1>5 DEF OwnSocket
<1>8. SocketClosed => SocketClosed'
  BY <1>1, <1>3 DEF SocketClosed, NoCreated, Opening, NoConn, NoCntl
<1>9. AfterClose'
  BY <1>1, <1>3, <1>6, <1>7, <1>8 DEF AfterClose, NoMapped, NoCreated,
     Opening, NoConn, NoCntl
<1>10. caster = "store" => \E f \in Fds : fdt'[f] = "cast"
  <2>1. caster = "store" => ~GaveUp
    BY <1>1 DEF AfterClose, GaveUp
  <2>2. QED
    BY <1>1, <1>5, <2>1 DEF DescriptorInv
<1>11. QED
  BY <1>1, <1>3, <1>9, <1>10
     DEF DescriptorInv, AfterClose, Opening, NoConn, NoCntl, Ending

\* The streams are closed in an order in which each is still what it was.
LEMMA EndStep ==
  ASSUME ThreadInv,
         \/ End("end_file_stream", "end_cntl", conf.mapped)
         \/ End("end_cntl", "end_data", conf.cntl)
         \/ End("end_data", "end_conn", conf.data)
         \/ End("end_conn", "returned", conf.conn)
  PROVE  DescriptorInv'
<1> USE DEF Holds
<1>1. PICK s \in {"mapped", "cntl", "data", "conn"} :
        /\ fdt' = [fdt EXCEPT ![conf[s]] = "free"]
        /\ s = "mapped" => main = "end_file_stream" /\ main' = "end_cntl"
        /\ s = "cntl" => main = "end_cntl" /\ main' = "end_data"
        /\ s = "data" => main = "end_data" /\ main' = "end_conn"
        /\ s = "conn" => main = "end_conn" /\ main' = "returned"
        /\ conf[s] \in Fds
  BY DEF End, close, MainAt, is_open
<1>2. /\ DescriptorInv /\ AfterClose /\ conf.mapped # NoFd
      /\ main \notin NoMapped
      /\ UNCHANGED <<met, cvars, conf>>
  BY <1>1 DEF ThreadInv, DescriptorInv, End, NoCntl, NoConn, Opening,
     NoCreated, NoMapped, Left, Ending
<1>3. /\ conf \in [cntl : Fds, conn : Fds, data : Fds, cast : Fds,
                    created : Fds \union {NoFd}, mapped : Fds \union {NoFd}]
      /\ fdt \in [Fds -> Kinds]
  BY DEF ThreadInv, Types, TypeOK
<1>4. GaveUp' = GaveUp /\ UNCHANGED <<caster, trycount, cast_on>>
  BY <1>2 DEF GaveUp, cvars
<1>5. ~GaveUp => fdt[conf[s]] = s
  BY <1>1, <1>2 DEF AfterClose, StreamsHeld, Serving, Ending, Transferring
<1>6. ~GaveUp => \A f \in Fds : fdt[f] # s => fdt'[f] = fdt[f]
  BY <1>1, <1>3, <1>5
<1>7. ~GaveUp => StreamsHeld'
  BY <1>1, <1>2, <1>3, <1>6
     DEF AfterClose, StreamsHeld, Serving, Ending, Transferring
<1>8. ~GaveUp /\ OwnSocket => OwnSocket'
  BY <1>1, <1>2, <1>3, <1>4, <1>6 DEF OwnSocket
<1>9. ~GaveUp /\ SocketClosed => SocketClosed'
  BY <1>1, <1>2, <1>3, <1>4, <1>6
     DEF SocketClosed, NoCreated, Opening, NoConn, NoCntl
<1>10. AfterClose'
  BY <1>1, <1>2, <1>4, <1>7, <1>8, <1>9 DEF AfterClose
<1>11. caster = "store" => \E f \in Fds : fdt'[f] = "cast"
  <2>1. caster = "store" => ~GaveUp
    BY <1>2 DEF AfterClose, GaveUp
  <2>2. QED
    BY <1>1, <1>2, <1>6, <2>1 DEF DescriptorInv
<1>12. QED
  BY <1>1, <1>2, <1>4, <1>10, <1>11
     DEF DescriptorInv, AfterClose, NoMapped, NoCreated, Opening, NoConn, NoCntl

\* A failure, an exit and the return leave the descriptors as they are.
LEMMA LeaveStep ==
  ASSUME ThreadInv, MainFails \/ WaitFails \/ MainExit \/ deinitiate
  PROVE  DescriptorInv'
<1>1. DescriptorInv /\ UNCHANGED <<fdt, conf, met, cvars>>
  BY DEF ThreadInv, MainFails, WaitFails, MainExit, deinitiate, mvars
<1>2. CASE MainExit
  BY <1>1, <1>2 DEF MainExit, mvars, DescriptorInv, BeforeClose, AfterClose,
     StreamsHeld, OwnSocket, SocketClosed, Holds, GaveUp, cvars
<1>3. CASE MainFails \/ WaitFails \/ deinitiate
  <2>1. /\ main' \in Left /\ main' \notin Opening
        /\ main' \notin NoMapped
        /\ main' \notin {"pull_verification", "pull_SEND", "join",
                         "end_file_stream"} \union Ending
        /\ main = "pull_file" => main' = "returned"
        /\ main = "returned" => main' = "deinitiated"
        /\ main # "deinitiated"
    BY <1>3 DEF MainFails, WaitFails, deinitiate, MainAt, Left, NoMapped, NoCreated,
       Opening, NoConn, NoCntl, Ending, Infallible
  <2>2. met # "none" => AfterClose
    BY <1>1 DEF DescriptorInv, BeforeClose
  <2>3. AfterClose => AfterClose'
    <3>1. GaveUp' = GaveUp
      BY <1>1 DEF GaveUp, cvars
    <3>2. StreamsHeld'
      BY <2>1 DEF StreamsHeld, Serving, Transferring, Left, Ending
    <3>3. OwnSocket => OwnSocket'
      BY <1>1 DEF OwnSocket, Holds, cvars
    <3>4. SocketClosed => SocketClosed'
      BY <1>1, <2>1 DEF SocketClosed, cvars, Left, NoMapped
    <3>5. QED
      BY <1>1, <2>1, <3>1, <3>2, <3>3, <3>4 DEF AfterClose, cvars
  <2>4. QED
    BY <1>1, <2>1, <2>2, <2>3 DEF DescriptorInv, cvars, Left, Opening, NoConn,
       NoCntl
<1>4. QED
  BY <1>2, <1>3

\* A step of the broadcaster keeps the descriptors in order if it keeps what
\* holds before start_puller() closes its socket and what holds after that.
LEMMA CasterFrame ==
  ASSUME DescriptorInv, UNCHANGED <<main, met>>, caster # "none",
         caster' # "none", conf'.mapped = conf.mapped,
         caster' = "store" => \E f \in Fds : fdt'[f] = "cast",
         main \in Opening /\ BeforeClose =>
           BeforeClose' /\ cast_on' \in {"none", "cast"},
         AfterClose /\ main \notin Opening => AfterClose'
  PROVE  DescriptorInv'
BY DEF DescriptorInv, Left, Opening, NoConn, NoCntl

\* The broadcaster starts, reads the address and opens its socket.
LEMMA CasterStartStep ==
  ASSUME ThreadInv, broadcast \/ read_port \/ read_ip \/ cast_socket \/ cast_store
  PROVE  DescriptorInv'
<1> USE DEF Holds
<1>1. /\ DescriptorInv /\ caster \in {"broadcast", "port", "ip", "socket", "store"}
      /\ caster' \in {"port", "ip", "socket", "store", "bind", "done"}
      /\ UNCHANGED <<main, met, trycount, cast_on>>
      /\ caster \in CasterPlaces
      /\ conf \in [cntl : Fds, conn : Fds, data : Fds, cast : Fds,
                    created : Fds \union {NoFd}, mapped : Fds \union {NoFd}]
      /\ fdt \in [Fds -> Kinds] /\ OpenedOnce
  BY DEF ThreadInv, Types, TypeOK, CasterAt, mvars, broadcast, read_port,
     read_ip, cast_socket, cast_store
<1>2. GaveUp' = GaveUp /\ (AfterClose => ~GaveUp /\ met \notin Sending)
  BY <1>1 DEF GaveUp, AfterClose, SocketClosed, Sending
<1>3. CASE broadcast \/ read_port \/ read_ip
  <2>1. /\ caster \in NoSocket /\ caster' \in NoSocket \union {"done"}
        /\ UNCHANGED <<fdt, conf>>
    BY <1>3 DEF CasterAt, mvars, broadcast, read_port, read_ip, NoSocket
  <2>2. BeforeClose => BeforeClose'
    BY <1>1, <2>1 DEF BeforeClose, NoSocket, Sending
  <2>3. AfterClose => AfterClose'
    BY <1>1, <1>2, <2>1 DEF AfterClose, StreamsHeld, OwnSocket, SocketClosed,
       NoSocket, Sending
  <2>4. QED
    BY <1>1, <2>1, <2>2, <2>3, CasterFrame DEF DescriptorInv, NoSocket
<1>4. CASE cast_socket
  <2>1. /\ caster = "socket" /\ caster' = "store" /\ conf' = conf
        /\ fdt' = [fdt EXCEPT ![lowest] = "cast"]
        /\ lowest \in Fds /\ fdt[lowest] = "free"
        /\ \A g \in Fds : fdt[g] = "free" => lowest <= g
    BY <1>4, Room DEF CasterAt, mvars, cast_socket, open
  <2>2. main \in Opening /\ BeforeClose => BeforeClose'
    <3> SUFFICES ASSUME main \in Opening, BeforeClose PROVE BeforeClose'
      OBVIOUS
    <3>1. \A f \in Fds : fdt[f] \in {"free", "std", "cntl", "conn"}
      BY <1>1, <2>1 DEF OpenedOnce, Kinds, NoCreated, NoMapped, NoData, NoSocket
    <3>2. \A g \in 0..(lowest - 1) : g \in Fds /\ g # lowest /\ ~(lowest <= g)
      BY <2>1 DEF Fds
    <3>3. \A g \in 0..(lowest - 1) : fdt'[g] \in {"std", "cntl", "conn"}
      BY <1>1, <2>1, <3>1, <3>2
    <3>4. \A f \in Fds : fdt'[f] = "cast" => f = lowest
      BY <1>1, <2>1, <3>1
    <3>5. QED
      BY <1>1, <2>1, <3>3, <3>4 DEF BeforeClose, NoSocket, Sending
  <2>3. AfterClose => AfterClose'
    <3>1. AfterClose => StreamsHeld'
      BY <1>1, <1>2, <2>1 DEF AfterClose, StreamsHeld
    <3>2. OwnSocket'
      BY <2>1 DEF OwnSocket, Sending
    <3>3. QED
      BY <1>1, <1>2, <2>1, <3>1, <3>2 DEF AfterClose
  <2>4. fdt'[lowest] = "cast"
    BY <1>1, <2>1
  <2>5. QED
    BY <1>1, <2>1, <2>2, <2>3, <2>4, CasterFrame DEF DescriptorInv
<1>5. CASE cast_store
  <2>1. /\ caster = "store" /\ caster' = "bind" /\ fdt' = fdt
        /\ conf' = [conf EXCEPT !.cast = CHOOSE f \in Fds : fdt[f] = "cast"]
        /\ \E f \in Fds : fdt[f] = "cast"
    BY <1>1, <1>5 DEF CasterAt, cast_store, DescriptorInv
  <2>2. PICK fd \in Fds : fd = (CHOOSE f \in Fds : fdt[f] = "cast") /\ fdt[fd] = "cast"
    BY <2>1
  <2>3. conf' = [conf EXCEPT !.cast = fd]
    BY <2>1, <2>2
  <2>4. BeforeClose => BeforeClose'
    BY <1>1, <2>1, <2>2, <2>3 DEF BeforeClose, NoSocket, Sending
  <2>5. AfterClose => AfterClose'
    BY <1>1, <1>2, <2>1, <2>2, <2>3 DEF AfterClose, StreamsHeld, OwnSocket,
       SocketClosed, NoSocket, Sending
  <2>6. QED
    BY <1>1, <2>1, <2>3, <2>4, <2>5, CasterFrame DEF DescriptorInv
<1>6. QED
  BY <1>3, <1>4, <1>5

\* The broadcaster uses its socket, or the number that was its socket's, and
\* closes it.
LEMMA CasterSendStep ==
  ASSUME ThreadInv,
         \/ cast_bind \/ cast_connect \/ CasterFails
         \/ push_broadcast_header \/ cast_close
  PROVE  DescriptorInv'
<1> USE DEF Holds
<1>1. /\ DescriptorInv /\ caster \in {"ip", "socket"} \union Sending
      /\ caster' \in {"connect", "send", "done", "raise"}
      /\ UNCHANGED <<main, met, conf>>
      /\ conf \in [cntl : Fds, conn : Fds, data : Fds, cast : Fds,
                    created : Fds \union {NoFd}, mapped : Fds \union {NoFd}]
      /\ fdt \in [Fds -> Kinds]
  BY DEF ThreadInv, Types, TypeOK, CasterAt, mvars, cast_bind, cast_connect,
     CasterFails, push_broadcast_header, cast_close, Sending
<1>2. AfterClose => ~GaveUp /\ met # "done" /\ met # "raise"
  BY <1>1 DEF GaveUp, AfterClose, Sending
<1>3. AfterClose => ~GaveUp'
  BY <1>1, <1>2 DEF GaveUp
<1>4. CASE cast_bind \/ cast_connect \/ CasterFails
  <2>1. /\ UNCHANGED <<fdt, cast_on, trycount>>
        /\ caster' \in Sending => caster \in Sending
        /\ caster' \in Sending \union {"raise"}
    BY <1>4 DEF CasterAt, cast_bind, cast_connect, CasterFails, Sending
  <2>2. BeforeClose => BeforeClose'
    BY <1>1, <2>1 DEF BeforeClose, NoSocket, Sending
  <2>3. AfterClose => AfterClose'
    BY <1>1, <1>2, <1>3, <2>1 DEF AfterClose, StreamsHeld, OwnSocket,
       SocketClosed, Sending
  <2>4. QED
    BY <1>1, <2>1, <2>2, <2>3, CasterFrame DEF DescriptorInv, Sending
<1>5. CASE push_broadcast_header
  <2>1. /\ caster = "send" /\ caster' = "send" /\ fdt' = fdt
        /\ \/ fdt[conf.cast] \in {"cast", "conn", "data"} /\ cast_on' = fdt[conf.cast]
           \/ cast_on' = cast_on
    BY <1>5 DEF CasterAt, push_broadcast_header, Sendable
  <2>2. main \in Opening /\ BeforeClose =>
          BeforeClose' /\ cast_on' \in {"none", "cast"}
    BY <1>1, <2>1 DEF DescriptorInv, BeforeClose, NoSocket, Sending
  <2>3. AfterClose /\ main \notin Opening => AfterClose'
    <3> SUFFICES ASSUME AfterClose, main \notin Opening PROVE AfterClose'
      OBVIOUS
    <3>1. StreamsHeld'
      BY <1>1, <1>2, <2>1 DEF AfterClose, StreamsHeld
    <3>2. met \in NoSocket \union {"store"} \/ met \in Sending
      BY <1>2 DEF ThreadInv, Types, CasterPlaces
    <3>3. CASE met \in NoSocket \union {"store"}
      BY <1>1, <1>2, <1>3, <2>1, <3>1, <3>3 DEF AfterClose, OwnSocket, Sending,
         NoSocket
    <3>4. CASE met \in Sending
      <4>1. SocketClosed /\ SocketClosed'
        BY <1>1, <1>2, <2>1, <3>4 DEF AfterClose, SocketClosed
      <4>2. main \in NoMapped \/ conf.mapped # NoFd =>
              fdt[conf.cast] \in {"free", "created"}
        BY <2>1, <4>1 DEF SocketClosed, Sending, NoMapped
      <4>3. QED
        BY <1>1, <1>2, <1>3, <2>1, <3>1, <3>4, <4>1, <4>2
           DEF AfterClose, Sending, NoSocket
    <3>5. QED
      BY <3>2, <3>3, <3>4
  <2>4. QED
    BY <1>1, <2>1, <2>2, <2>3, CasterFrame
<1>6. CASE cast_close
  <2>1. /\ caster = "send" /\ caster' \in {"done", "raise"} /\ trycount = 0
        /\ fdt' = [fdt EXCEPT ![conf.cast] = "free"] \/ fdt' = fdt
        /\ fdt[conf.cast] # "free" =>
             caster' = "done" /\ fdt' = [fdt EXCEPT ![conf.cast] = "free"]
        /\ UNCHANGED <<trycount, cast_on>>
    BY <1>1, <1>6 DEF CasterAt, cast_close, close, is_open
  <2>2. main \in Opening /\ BeforeClose =>
          BeforeClose' /\ cast_on' \in {"none", "cast"}
    <3> SUFFICES ASSUME main \in Opening, BeforeClose PROVE BeforeClose'
      BY <1>1, <2>1 DEF DescriptorInv
    <3>1. fdt[conf.cast] = "cast" /\ caster' = "done"
      BY <2>1 DEF BeforeClose, Sending
    <3>2. \A f \in Fds : fdt[f] # "cast" => fdt'[f] = fdt[f]
      BY <1>1, <2>1, <3>1
    <3>3. \A f \in Fds : fdt'[f] # "cast"
      BY <1>1, <2>1, <3>1 DEF ThreadInv, OpenedOnce
    <3>4. 0 \in Fds
      BY DEF Fds
    <3>5. QED
      BY <1>1, <2>1, <3>1, <3>2, <3>3, <3>4 DEF BeforeClose, NoSocket, Sending
  <2>3. AfterClose /\ main \notin Opening => AfterClose'
    <3> SUFFICES ASSUME AfterClose, main \notin Opening PROVE AfterClose'
      OBVIOUS
    <3>1. met \in NoSocket \union {"store"} \/ met \in Sending
      BY <1>2 DEF ThreadInv, Types, CasterPlaces
    <3>2. CASE met \in NoSocket \union {"store"}
      <4>1. fdt[conf.cast] = "cast"
        BY <1>2, <2>1, <3>2 DEF AfterClose, OwnSocket, Sending
      <4>2. StreamsHeld'
        BY <1>1, <1>2, <2>1, <4>1 DEF AfterClose, StreamsHeld
      <4>3. QED
        BY <1>1, <1>2, <1>3, <2>1, <3>2, <4>2 DEF AfterClose, OwnSocket,
           Sending, NoSocket
    <3>3. CASE met \in Sending
      <4>1. SocketClosed
        BY <1>2, <3>3 DEF AfterClose
      <4>2. SocketClosed'
        BY <1>1, <2>1, <4>1 DEF SocketClosed, Sending
      <4>3. conf.mapped # NoFd => fdt[conf.cast] = "created"
        BY <2>1, <4>1 DEF SocketClosed, Sending
      <4>4. StreamsHeld'
        BY <1>1, <1>2, <2>1, <3>3, <4>1, <4>3
           DEF AfterClose, StreamsHeld, SocketClosed
      <4>5. QED
        BY <1>1, <1>2, <1>3, <2>1, <3>3, <4>2, <4>4 DEF AfterClose,
           Sending, NoSocket
    <3>4. QED
      BY <3>1, <3>2, <3>3
  <2>4. QED
    BY <1>1, <2>1, <2>2, <2>3, CasterFrame
<1>7. QED
  BY <1>4, <1>5, <1>6

\* Only start_data() sets the number of the data socket, and the broadcaster
\* leaves its loop for good.
LEMMA OrderStep ==
  ASSUME ThreadInv, [Next]_vars
  PROVE  OrderInv'
<1> USE DEF OrderInv, mvars, cvars, MainAt, NoData, NoMapped, NoCreated, Opening,
            NoConn, NoCntl
<1>1. OrderInv /\ Types /\ (main = "pull_file" => met = "none")
  BY DEF ThreadInv, DescriptorInv, BeforeClose
<1>2. CASE \/ pull_file \/ start_cntl \/ accept_cntl
           \/ StoreIp("accept_ip", "accept_port", 2)
           \/ StorePort("accept_port", "close_cast", 2)
           \/ StoreIp("send_ip", "send_port", 3)
           \/ StorePort("send_port", "create_file", 3)
  BY <1>1, <1>2 DEF pull_file, start_cntl, accept_cntl, StoreIp, StorePort, Types
<1>3. CASE close_cast \/ pull_handshake \/ create_file \/ create_file_ok
           \/ create_file_fails \/ mfopen \/ start_data
  BY <1>1, <1>3 DEF close_cast, pull_handshake, create_file, create_file_ok,
     create_file_fails, mfopen, start_data, Types
<1>4. CASE pull_transfer \/ pull_verification \/ pull_SEND \/ join
  BY <1>1, <1>4 DEF pull_transfer, pull_verification, pull_SEND, join
<1>5. CASE \/ End("end_file_stream", "end_cntl", conf.mapped)
           \/ End("end_cntl", "end_data", conf.cntl)
           \/ End("end_data", "end_conn", conf.data)
           \/ End("end_conn", "returned", conf.conn)
  BY <1>1, <1>5 DEF End
<1>6. CASE MainFails \/ WaitFails \/ MainExit \/ deinitiate
  BY <1>1, <1>6 DEF MainFails, WaitFails, MainExit, deinitiate
<1>7. CASE broadcast \/ read_port \/ read_ip \/ cast_socket \/ cast_store
           \/ cast_bind \/ cast_connect
  BY <1>1, <1>7 DEF broadcast, read_port, read_ip, cast_socket, cast_store,
     cast_bind, cast_connect, CasterAt, Types
<1>8. CASE CasterFails \/ push_broadcast_header \/ cast_close \/ CasterExit
           \/ CasterCrash \/ thread_calc_file_crc16 \/ Peer
  BY <1>1, <1>8 DEF CasterFails, push_broadcast_header, cast_close,
     CasterExit, CasterCrash, thread_calc_file_crc16, Peer, CasterAt
<1>9. CASE UNCHANGED vars
  BY <1>1, <1>9 DEF vars
<1>10. QED
  BY <1>2, <1>3, <1>4, <1>5, <1>6, <1>7, <1>8, <1>9
     DEF Next, Main, start_puller, Caster

\* ThreadInv is inductive.
LEMMA ThreadStep ==
  ASSUME ThreadInv, [Next]_vars
  PROVE  ThreadInv'
<1>1. CASE Main \/ WaitFails \/ deinitiate
  <2>1. DescriptorInv'
    BY <1>1, OpeningStep, CloseCastStep, ServingStep, OpenStep, RefuseStep,
       EndStep, LeaveStep DEF Main, start_puller
  <2>2. QED
    BY <1>1, <2>1, MainTypes, MainOpensOnce, AddressStep, CrcStep, OrderStep DEF ThreadInv
<1>2. CASE Caster \/ thread_calc_file_crc16 \/ Peer
  <2>1. ASSUME CasterExit \/ CasterCrash \/ thread_calc_file_crc16 \/ Peer
        PROVE  DescriptorInv'
    <3>1. DescriptorInv /\ UNCHANGED <<main, caster, met, fdt, conf, trycount, cast_on>>
      BY <2>1 DEF ThreadInv, CasterExit, CasterCrash, thread_calc_file_crc16,
         Peer, mvars, cvars
    <3>2. QED
      BY <3>1 DEF DescriptorInv, BeforeClose, AfterClose, StreamsHeld,
         OwnSocket, SocketClosed, Holds, GaveUp
  <2>2. DescriptorInv'
    BY <1>2, <2>1, CasterStartStep, CasterSendStep DEF Caster
  <2>3. QED
    BY <1>2, <2>2, CasterTypes, CasterOpensOnce, AddressStep, CrcStep, OrderStep
       DEF ThreadInv
<1>3. CASE UNCHANGED vars
  BY <1>3 DEF vars, mvars, cvars, ThreadInv, Types, TypeOK, OpenedOnce,
     DescriptorInv, BeforeClose, AfterClose, StreamsHeld, OwnSocket,
     SocketClosed, Holds, GaveUp, AddressInv, DestinationUntilAccept, CrcInv,
     OrderInv
<1>4. QED
  BY <1>1, <1>2, <1>3 DEF Next

\* A call of pull_file() begins with standard input and nothing else open.
LEMMA ThreadInit == Init => ThreadInv
<1> SUFFICES ASSUME Init PROVE ThreadInv
  OBVIOUS
<1>1. /\ main = "pull_file" /\ caster = "none" /\ crc = "none"
      /\ met = "none" /\ cast_on = "none" /\ proc = "running"
      /\ trycount = bc_trycount
      /\ dest = [ip |-> 0, port |-> 0]
      /\ conf = [cntl |-> 0, conn |-> 0, data |-> 0, cast |-> 0,
                 created |-> NoFd, mapped |-> NoFd]
      /\ fdt = [f \in Fds |-> IF f = 0 THEN "std" ELSE "free"]
      /\ 0 \in Fds
  BY DEF Init, Fds
<1>2. PICK a \in {0, 1} : remote = [ip |-> a, port |-> a]
  BY DEF Init
<1>3. Types
  BY <1>1, <1>2 DEF Types, TypeOK, Kinds, Torn, MainPlaces, NoData, NoMapped,
     NoCreated, Opening, NoConn, NoCntl, CasterPlaces, NoSocket
<1>4. OpenedOnce
  BY <1>1 DEF OpenedOnce
<1>5. DescriptorInv
  BY <1>1 DEF DescriptorInv, BeforeClose, Opening, NoConn, NoCntl, NoSocket,
     Sending, Left, Ending
<1>6. AddressInv /\ CrcInv /\ OrderInv
  BY <1>1, <1>2 DEF AddressInv, DestinationUntilAccept, CrcInv, OrderInv
<1>7. QED
  BY <1>3, <1>4, <1>5, <1>6 DEF ThreadInv

\* ThreadInv is an invariant of a call of pull_file().
THEOREM ThreadSafe == Spec => []ThreadInv
BY ThreadInit, ThreadStep, PTL DEF Spec

\* The variables keep their types: in particular there is always a descriptor
\* for what a thread opens and the try count of start_broadcast() stays in its
\* range.
THEOREM ThreadTypes == Spec => []TypeOK
<1>1. ThreadInv => TypeOK
  BY DEF ThreadInv, Types
<1>2. QED
  BY <1>1, ThreadSafe, PTL

\* The socket start_puller() closes while the broadcaster uses it does not make
\* the broadcaster write to, or close, a descriptor of the transfer: its number
\* goes to the stream create_file() leaves open.
THEOREM DescriptorsSafe == Spec => []DescriptorsIntact
<1>1. ThreadInv => DescriptorsIntact
  <2> SUFFICES ASSUME ThreadInv, main \in Serving, ~GaveUp
               PROVE  /\ fdt[conf.cntl] = "cntl" /\ fdt[conf.conn] = "conn"
                      /\ conf.mapped # NoFd =>
                           /\ fdt[conf.mapped] = "mapped"
                           /\ conf.data # 0 => fdt[conf.data] = "data"
                           /\ cast_on \in {"none", "cast"}
    BY DEF DescriptorsIntact
  <2>1. /\ main \notin Opening /\ main \notin Left
        /\ main \in NoMapped \/ main = "start_data" \/ main \in Transferring
    BY DEF Serving, Opening, NoConn, NoCntl, Left, NoMapped, NoCreated, Transferring
  <2>2. /\ AfterClose /\ StreamsHeld /\ (main \in NoMapped => conf.mapped = NoFd)
        /\ main = "start_data" => conf.data = 0
    BY <2>1 DEF NoData, OrderInv, ThreadInv, DescriptorInv, AfterClose
  <2>3. QED
    BY <2>1, <2>2 DEF AfterClose, StreamsHeld, Holds
<1>2. QED
  BY <1>1, ThreadSafe, PTL

\* While the CRC16 thread reads the mapped file, main is between creating and
\* joining it, or about to end the process.
THEOREM CrcThreadSafe == Spec => []CrcThreadContained
<1>1. ThreadInv => CrcThreadContained
  BY DEF ThreadInv, CrcInv, CrcThreadContained
<1>2. QED
  BY <1>1, ThreadSafe, PTL

\* start_broadcast() sends to the configured address if it reads it before a
\* pusher is accepted; reading without a lock while start_puller() writes, it may
\* pair a newer or half-written address with an older port, never the reverse.
THEOREM DestinationSafe == Spec => []DestinationUntilAccept
<1>1. ThreadInv => DestinationUntilAccept
  BY DEF ThreadInv, AddressInv
<1>2. QED
  BY <1>1, ThreadSafe, PTL

\* The broadcaster ends the process by failing to close its socket only if the
\* file was not mapped: afterwards its number is the stream of create_file().
LEMMA RaiseStep ==
  ASSUME ThreadInv, [Next]_vars, caster # "raise", caster' = "raise",
         met = "send"
  PROVE  conf.mapped = NoFd
<1>1. CASE CasterFails \/ cast_close
  <2> SUFFICES ASSUME conf.mapped # NoFd PROVE FALSE
    OBVIOUS
  <2>1. AfterClose /\ ~GaveUp
    BY DEF ThreadInv, DescriptorInv, BeforeClose, GaveUp
  <2>2. SocketClosed
    BY <2>1 DEF AfterClose, Sending
  <2>3. caster \in Sending
    BY <1>1, <2>2 DEF SocketClosed, CasterFails, cast_close, CasterAt, Sending
  <2>4. fdt[conf.cast] = "created" /\ conf.cast \in Fds
    BY <2>2, <2>3 DEF SocketClosed, ThreadInv, Types
  <2>5. CASE cast_close
    BY <2>4, <2>5 DEF cast_close, CasterAt, is_open
  <2>6. CASE CasterFails
    BY <2>6 DEF CasterFails, CasterAt, ThreadInv, OrderInv
  <2>7. QED
    BY <1>1, <2>5, <2>6
<1>2. caster' = caster \/ caster' # "raise" \/ CasterFails \/ cast_close
  <2>1. CASE Main \/ WaitFails \/ deinitiate \/ thread_calc_file_crc16 \/ Peer \/ UNCHANGED vars
    BY <2>1 DEF Main, start_puller, pull_file, start_cntl, accept_cntl, StoreIp,
       StorePort, close_cast, pull_handshake, create_file, create_file_ok,
       create_file_fails, mfopen, start_data, pull_transfer,
       pull_verification, pull_SEND, join, End, MainFails, WaitFails, MainExit,
       deinitiate, thread_calc_file_crc16, Peer, vars, cvars
  <2>2. CASE Caster
    BY <2>2 DEF Caster, broadcast, read_port, read_ip, cast_socket, cast_store,
       cast_bind, cast_connect, push_broadcast_header, CasterExit,
       CasterCrash, CasterAt, cvars
  <2>3. QED
    BY <2>1, <2>2 DEF Next
<1>3. QED
  BY <1>1, <1>2

\* A broadcaster that was broadcasting when its socket was closed never ends
\* the process once the file is mapped.
THEOREM BroadcasterSpares == Spec => BroadcasterSparesTransfer
<1>1. ThreadInv /\ [Next]_vars =>
        [caster # "raise" /\ caster' = "raise" /\ met = "send"
           => conf.mapped = NoFd]_vars
  BY RaiseStep
<1>2. QED
  BY <1>1, ThreadSafe, PTL DEF Spec, BroadcasterSparesTransfer
=============================================================================
