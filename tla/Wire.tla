-------------------------------- MODULE Wire --------------------------------
(***************************************************************************)
(* Control packets as bytes: how pack_* and convert_* of protocol.h carry  *)
(* integers between hosts of either byte order, how the info string of     *)
(* CAST and SEND packets carries names and an address, and how             *)
(* pull_*_header() cuts packets out of a TCP stream that may deliver them  *)
(* in pieces.  A structure is the sequence of its fields, a byte has Byte  *)
(* values, and the characters of the info string stand for themselves.     *)
(***************************************************************************)
EXTENDS Infostr

CONSTANTS
  Byte,      \* how many values a byte has (256)
  Plans,     \* the sequences of packets that may be sent
  Headers    \* what the receiver's structure may hold before

CAST == 0
FLOW == 1
SEND == 2
RECV == 3

\* The sizes of the fields, in the order of the structures.
Widths(type) ==
  CASE type = CAST -> <<1, 1, 2>>
    [] type = FLOW -> <<1, 1, 2, 4, 4>>
    [] type = SEND -> <<1, 1, 2, 4, 2, 2>>
    [] type = RECV -> <<1, 1, 2, 4>>

\* No structure is padded, and its fields start at the same places in all four.
Offsets == <<0, 1, 2, 4, 8, 10>>

HasInfo(type) == type \in {CAST, SEND}

\* The weights of the bytes of an integer, the last one first, and of the byte
\* that would come next.
Weights ==
  <<1, Byte, Byte * Byte, Byte * Byte * Byte, Byte * Byte * Byte * Byte>>

Unsigned(w) == 0..(Weights[w + 1] - 1)

\* The fields of a packet fit; only RECV uses the second.
Fields(f) ==
  /\ f \in Seq(Nat) /\ f[1] \in {CAST, FLOW, SEND, RECV}
  /\ Len(f) = Len(Widths(f[1]))
  /\ \A k \in 1..Len(f) : f[k] \in Unsigned(Widths(f[1])[k])
  /\ f[1] # RECV => f[2] = 0

\* The end of a C string.
NUL == "zero"

Config == [filename : Seq(STRING \ {NUL}), name : Seq(STRING \ {NUL}),
           ip : Seq(STRING \ {NUL}), port : STRING \ {NUL}]

\* The receiver's structure is not initialised: its names are empty, or what an
\* earlier packet left there.
Leftover(h) ==
  /\ h \in Config /\ ~Contains(h.filename, ":") /\ ~Contains(h.name, "@")
  /\ Len(h.filename) \in 0..(MAXFILENAMESIZE - 1)
  /\ Len(h.name) \in 0..(MAXNAMESIZE - 1)

\* rufshare.c checks that the names are not empty and the address is valid.
ASSUME WireAssumption ==
  /\ Byte \in Nat /\ Byte > 3 /\ Ports \subseteq STRING \ {NUL}
  /\ \A plan \in Plans :
       /\ plan \in Seq([fields : Seq(Nat), info : Config])
       /\ \A i \in 1..Len(plan) :
            LET a == plan[i].info
            IN  /\ Fields(plan[i].fields)
                /\ a.filename # << >> /\ a.name # << >> /\ a.port \in Ports
                /\ Len(a.ip) \in 1..(MAXIPV4SIZE - 1) /\ ~Contains(a.ip, ":")
  /\ \A h \in Headers : Leftover(h)

-----------------------------------------------------------------------------
(***************************************************************************)
(* Integers in the memory of a host, and the conversions.                  *)
(***************************************************************************)
Hosts == {"little", "big"}

bytes(v, w) == [i \in 1..w |-> (v \div Weights[w - i + 1]) % Byte]
value(bs) == CHOOSE v \in Unsigned(Len(bs)) : bytes(v, Len(bs)) = bs

inorder(host, bs) == IF host = "big" THEN bs ELSE Reverse(bs)
store(host, v, w) == inorder(host, bytes(v, w))
load(host, bs) == value(inorder(host, bs))

\* The integer whose bytes in the memory of the host are those of v in network
\* order, and back: the same function.
hton(host, v, w) == load(host, bytes(v, w))
htons(host, v) == hton(host, v, 2)
htonl(host, v) == hton(host, v, 4)
ntohs(host, v) == value(store(host, v, 2))
ntohl(host, v) == value(store(host, v, 4))

pack_RUFShare_CastPacket(h, crc) == <<CAST, 0, htons(h, crc)>>
pack_RUFShare_FlowPacket(h, chunk_size, sequence, crc) ==
  <<FLOW, 0, htons(h, chunk_size), htonl(h, sequence), htonl(h, crc)>>
pack_RUFShare_SendPacket(h, chunk_size, chunk_count, partial, crc) ==
  <<SEND, 0, htons(h, chunk_size), htonl(h, chunk_count),
    htons(h, partial), htons(h, crc)>>
pack_RUFShare_RecvPacket(h, ack, crc, sequence) ==
  <<RECV, ack, htons(h, crc), htonl(h, sequence)>>

convert_CastPacket_byteorder(h, p) == <<p[1], 0, ntohs(h, p[3])>>
convert_FlowPacket_byteorder(h, p) ==
  <<p[1], 0, ntohs(h, p[3]), ntohl(h, p[4]), ntohl(h, p[5])>>

\* Mutant: the chunk count is converted as a 16-bit integer.
convert_SendPacket_byteorder_short(h, p) ==
  <<p[1], 0, ntohs(h, p[3]), ntohs(h, p[4] % Byte^2), ntohs(h, p[5]),
    ntohs(h, p[6])>>

convert_SendPacket_byteorder(h, p) ==
  <<p[1], 0, ntohs(h, p[3]), ntohl(h, p[4]), ntohs(h, p[5]), ntohs(h, p[6])>>
convert_RecvPacket_byteorder(h, p) ==
  <<p[1], p[2], ntohs(h, p[3]), ntohl(h, p[4])>>

\* The fields as the sender means them, packed and converted.
pack(h, f) ==
  CASE f[1] = CAST -> pack_RUFShare_CastPacket(h, f[3])
    [] f[1] = FLOW -> pack_RUFShare_FlowPacket(h, f[3], f[4], f[5])
    [] f[1] = SEND -> pack_RUFShare_SendPacket(h, f[3], f[4], f[5], f[6])
    [] f[1] = RECV -> pack_RUFShare_RecvPacket(h, f[2], f[3], f[4])

convert(h, p) ==
  CASE p[1] = CAST -> convert_CastPacket_byteorder(h, p)
    [] p[1] = FLOW -> convert_FlowPacket_byteorder(h, p)
    [] p[1] = SEND -> convert_SendPacket_byteorder(h, p)
    [] p[1] = RECV -> convert_RecvPacket_byteorder(h, p)

\* A structure in memory, and a structure read from memory.
sizeof(type) ==
  LET n == Len(Widths(type)) IN Offsets[n] + Widths(type)[n]

within(type, i, k) == k - Offsets[i] \in 1..Widths(type)[i]

image(h, p) ==
  [k \in 1..sizeof(p[1]) |->
     LET i == CHOOSE i \in 1..Len(p) : within(p[1], i, k)
     IN  store(h, p[i], Widths(p[1])[i])[k - Offsets[i]]]

structure(h, type, bs) ==
  [i \in 1..Len(Widths(type)) |->
     load(h, SubSeq(bs, Offsets[i] + 1, Offsets[i] + Widths(type)[i]))]

\* The buffer of the info string: the rest of it is zero.
infobuf(i) ==
  LET s == pack_into_infostring(stored(i))
  IN  s \o [k \in 1..(INFOSTRSIZE - Len(s)) |-> NUL]

\* What one send() hands to TCP.
frame(h, p) ==
  image(h, pack(h, p.fields))
    \o IF HasInfo(p.fields[1]) THEN infobuf(p.info) ELSE << >>

-----------------------------------------------------------------------------
VARIABLES
  from, to,   \* the byte orders of the two hosts
  whole,      \* whether TCP delivers packets in one piece
  plan,       \* the packets to send
  pushed,     \* how many have been
  flight,     \* bytes not yet delivered
  buffer,     \* bytes in the receiver's socket
  packet,     \* the structure being pulled
  infostr,    \* the string being pulled
  header,     \* the receiver's structure for the info
  got,        \* the packets pulled
  at          \* what the receiver pulls next

vars == <<from, to, whole, plan, pushed, flight, buffer, packet, infostr,
          header, got, at>>
rvars == <<from, to, whole, plan>>
pvars == <<packet, infostr, header, got>>

Init ==
  /\ from \in Hosts /\ to \in Hosts /\ whole \in BOOLEAN
  /\ plan \in Plans /\ pushed = 0
  /\ flight = << >> /\ buffer = << >>
  /\ packet = << >> /\ infostr = << >> /\ header \in Headers
  /\ got = << >>
  /\ at = "type"

\* push_*_header(): one send() of the structure and the info string.
push_header ==
  /\ pushed < Len(plan) /\ pushed' = pushed + 1
  /\ flight' = Append(flight, frame(from, plan[pushed + 1]))
  /\ UNCHANGED <<rvars, buffer, pvars, at>>

\* TCP delivers a packet, or a part of one.
Deliver ==
  /\ flight # << >>
  /\ \E n \in 1..Len(Head(flight)) :
       /\ whole => n = Len(Head(flight))
       /\ buffer' = buffer \o SubSeq(Head(flight), 1, n)
       /\ flight' = IF n = Len(Head(flight)) THEN Tail(flight)
                    ELSE <<SubSeq(Head(flight), n + 1, Len(Head(flight)))>>
                           \o Tail(flight)
  /\ UNCHANGED <<rvars, pushed, pvars, at>>

\* The type the receiver waits for is that of the next packet: the two sides
\* are in step.
expected == plan[Len(got) + 1].fields[1]

\* poll() and the peek at the type.
pull_type ==
  /\ at = "type" /\ buffer # << >>
  /\ at' = IF buffer[1] = expected THEN "packet" ELSE "BADTYPE"
  /\ UNCHANGED <<rvars, pushed, flight, buffer, pvars>>

\* Mutant: the size of the packet is that of a SEND packet.
pull_packet_wrong_size ==
  /\ at = "packet"
  /\ at' = IF Len(buffer) < sizeof(SEND) THEN "LOWSIZE" ELSE "type"
  /\ UNCHANGED <<rvars, pushed, flight, buffer, pvars>>

\* recv() takes what is there; less than the packet is an error.
pull_packet ==
  /\ at = "packet"
  /\ LET n == sizeof(expected)
     IN  \/ /\ Len(buffer) >= n
            /\ buffer' = SubSeq(buffer, n + 1, Len(buffer))
            /\ packet' = structure(to, expected, buffer)
            /\ at' = IF HasInfo(expected) THEN "info" ELSE "convert"
         \/ /\ Len(buffer) < n
            /\ buffer' = << >> /\ at' = "LOWSIZE" /\ UNCHANGED packet
  /\ UNCHANGED <<rvars, pushed, flight, infostr, header, got>>

\* So it does for the info string behind it, for which it waits.
pull_info ==
  /\ at = "info" /\ buffer # << >>
  /\ \/ /\ Len(buffer) >= INFOSTRSIZE /\ at' = "convert"
        /\ infostr' = scan(SubSeq(buffer, 1, INFOSTRSIZE), NUL, INFOSTRSIZE)
        /\ buffer' = SubSeq(buffer, INFOSTRSIZE + 1, Len(buffer))
     \/ /\ Len(buffer) < INFOSTRSIZE /\ at' = "LOWSIZE"
        /\ buffer' = << >> /\ UNCHANGED infostr
  /\ UNCHANGED <<rvars, pushed, flight, packet, header, got>>

\* The fields are handed to the caller.
pull_convert ==
  /\ at = "convert" /\ at' = "type"
  /\ header' = IF HasInfo(expected)
                 THEN unpack_from_infostring(infostr, header) ELSE header
  /\ got' = Append(got, [fields |-> convert(to, packet), info |-> header'])
  /\ packet' = << >> /\ infostr' = << >>
  /\ UNCHANGED <<rvars, pushed, flight, buffer>>

Next ==
  \/ push_header \/ Deliver
  \/ pull_type \/ pull_packet \/ pull_info \/ pull_convert

Spec == Init /\ [][Next]_vars

-----------------------------------------------------------------------------
\* Whatever the byte orders of the hosts and the pieces TCP delivers, a packet
\* that is pulled carries the fields of the next one that was pushed: a short
\* read is an error and never shifts the stream.
InFrame ==
  /\ Len(got) <= pushed /\ at # "BADTYPE"
  /\ \A i \in 1..Len(got) : got[i].fields = plan[i].fields

\* If TCP delivers packets in one piece none is refused, and when the stream is
\* empty all have been pulled, with their info strings.
WholePacketsPulled ==
  whole => /\ at # "LOWSIZE"
           /\ flight = << >> /\ buffer = << >> /\ at # "convert" =>
                Len(got) = pushed /\ at = "type"

\* The packets with an info string that have been pulled.
Infos == {i \in 1..Len(got) : HasInfo(plan[i].fields[1])}

\* unpack_from_infostring() gives back exactly what was packed, whatever the
\* structure held before, for exactly the well-formed configurations: nothing
\* that is checked by rufshare.c keeps a caller from the others.
RoundTrip ==
  \A i \in Infos : got[i].info = plan[i].info <=> WellFormed(plan[i].info)

\* A colon inside the file name moves the border of the two names and the address
\* is still read, whatever the lengths and the separators, provided that what
\* then stands in the place of the name fits its field and has no at sign. The
\* address is not promised otherwise: a leading colon ends sscanf() at once, a
\* name field over 31 characters ends it before the address, and an at sign in
\* it makes what follows the address.
AddressSurvives ==
  \A i \in Infos :
    Separable(plan[i].info) =>
      got[i].info.ip = plan[i].info.ip /\ got[i].info.port = plan[i].info.port
=============================================================================
