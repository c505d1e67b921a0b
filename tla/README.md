# Verification of rufshare

rufshare sends one file from a *pusher* to a *puller* on a local network: the
control packets over TCP, the contents over UDP. This directory holds TLA+
modules translated from the C source, the TLC configurations that check them on
small instances, and TLAPS proofs that every safety property of the passing runs
holds for every instance. Paths below are relative to the repository.

## 1. Inventory

| Component | Source | State | Operations | Correct when |
|---|---|---|---|---|
| Pusher | `source/pusher.c` | `conf` (seq, chsize, pchsize, chcount, mapped file, sockets), a local `trycount` | `start_pusher` = open, connect, `push_handshake`, `push_transfer`, `push_verification`, close | it reports success only for a file that arrived and was verified; it always returns |
| Puller | `source/puller.c` | its own `conf`, `trycount`, the file it creates, a CRC16 thread | `start_puller` = listen, accept, `pull_handshake`, `pull_transfer`, `pull_verification`, close | it accepts only chunks with the announced CRC32, never spoils an accepted one, and returns once a pusher came |
| Control packets | `source/cntl.c`, `include/protocol/protocol.h` | the TCP stream | `push_*_header`, `pull_*_header` (poll, peek at the type, read) | every packet is read where it is expected |
| Chunk data | `source/data.c` | the UDP socket, mapped-file position | `push_chunk_data`, `pull_chunk_data` | segments land where they were taken from, or the CRC32 tells |
| Chunk arithmetic | `include/utils/calc.h` | none | chunk count, partial size, file size, segment size | the puller rebuilds the size; the segments cover the file |
| Mapped files | `source/mfile.c` | `MFILE` (mapping, size, position) | open, close, seek, read, write, create | no access outside the mapping |
| Network streams | `source/net_stream.c` | file descriptors | connect, listen/accept, bind, poll, send, receive | waits end, except where the code asks for `FOREVER_TIMEOUT` |
| Public interface | `source/rufshare.c`, `include/tryexec.h` | `InitConfig`, the threads | `initiate`, `deinitiate`, `push_file`, `pull_file`, `broadcast`, `scanpair` | a failure of one thread does not spoil the work of another |
| Broadcast | `source/broadcast.c` | a UDP socket whose number is in `conf` | send CAST packets until the tries are used up | it ends once its socket has been closed, and harms nobody |
| Scanpair | `source/scanpair.c` | array of discovered pairs | collect CAST packets under a deadline and a try count | it returns in time, lists who announced itself, and each as announced |
| Logger | `source/logging/logd.c`, `include/logging/logd.h` | a mapped ring of entries | `init_logd`, `logging` with `append_log`, `deinit_logd` | writes stay inside the ring, which holds the latest entries |
| Utilities | `include/utils/` | none | file name, info string, string copy | the info string parses back |
| CRC library | `library/`, `include/libcrc/` | none | `crc_16`, `crc_32` | external |

How they interact. `push_file` and `pull_file` run in different processes.
Each side runs the same sequence of phases; they share nothing but one TCP
connection and one UDP port. In `pull_file` a second thread broadcasts the
puller's address and shares `conf` with `start_puller`; `pull_verification`
starts a third thread for the CRC16. All threads append to the log.

What is hard here:

- *Two state machines without sequence checks.* The pusher reads `RECV` packets
  and never looks at their sequence number; the puller's `trycount` and the
  pusher's are counted separately. Whether one answer can be taken for another
  depends on every path of both sides.
- *Unnumbered segments.* Loss, duplication and reordering leave segments in the
  socket that the next attempt, or the next chunk, reads.
- *Timeouts that may race a late answer*, and two waits without a time limit
  (accept and the first `SEND`).
- *Failure of either side at any point*, with the other one in any wait.
- *Integer widths.* Chunk sizes have 16 bits, sequence numbers 32, file sizes 64,
  and positions are computed in 32.
- *Threads of the puller* that share `conf`, a socket and the logger.

`PROJECT.json` lists each hazard with its line and the properties that cover it.

## 2. Modules

| Module | Content |
|---|---|
| `Calc` | the arithmetic of `calc.h` and the position of a chunk, with the integer widths as constants |
| `MFile` | the mapped file as operators on a sequence of bytes |
| `Transfer` | pusher, puller, TCP, UDP, the environment (extends `Calc`, `MFile`) |
| `TransferProps` | types, safety, action and liveness properties, refinement mapping |
| `Delivery` | abstract specification: chunks accepted and confirmed one at a time, then a verdict |
| `TransferInv` | the inductive invariant `IInv`, and `Paced`, `WritesAhead`, `Agreement`, `Placed` and `OnCourse`, which are inductive relative to it |
| `TransferProofs` | types, the proof that `IInv` is inductive and the safety theorems; the refinement of `Delivery`, the contents of accepted chunks, agreement of the two calls |
| `TransferCourse` | which files arrive: a transfer that nothing disturbs, and one whose segments are damaged |
| `Chunking` | the walk of the pusher over a file, without a network |
| `ChunkingProofs` | its invariant `ChunkInv` and its theorems |
| `PullThreads` | one `pull_file`: its threads, its descriptors and what they share |
| `PullThreadsProofs` | its invariant `ThreadInv` and its theorems |
| `Infostr` | the info string: `snprintf` and `sscanf` as operators on sequences of characters |
| `InfostrProofs` | lemmas about these operators, for strings of any length |
| `Discovery` | broadcasters and a scanner on a clock, joined by UDP (extends `Infostr`) |
| `DiscoveryProofs` | its invariants `ScanInv` and `PairsInv` and its theorems |
| `Logger` | the log ring, one action per access to the shared context |
| `LoggerProofs` | the invariants `LogInv` and `RingInv` and the theorems about the log |
| `Wire` | packets as bytes: layout, byte order, info string, partial reads (extends `Infostr`) |
| `WireProofs` | its invariant `WireInv` and its theorems |
| `MC...` | instances for TLC |

### How `Transfer` corresponds to the code

The variables `push_*` are the state of `start_pusher`, `pull_*` that of
`start_puller`: `push_seq` is `conf->seq`, `push_try` the `trycount` of the
transfer loop, `push_pos` and `push_rsize` the position of the mapping and the
rest of the chunk in `push_chunk_data`. `push_pc` and `pull_pc` name the place
in the code, and `push_stat` and `pull_stat` what was returned. `toPuller` and
`toPusher` are the two directions of the TCP connection, `udp` the segments that
were sent and not yet read.

An action reaches from one blocking call to the next: one for each control
packet sent, each read, each segment. A failing path is an action of its own:
`PushHeaderError` and `PullHeaderError` (end of stream, unexpected type),
`PushTimeout` and `PullTimeout` (poll expires), `PushReset` and `PullReset` (the
peer has gone and a socket call fails). `PushFault` and `PullFault` stand for
every other failing call, and for a process that is killed. When a process ends
its sockets are closed, and the peer reads what was sent and then the end of the
stream.

The retries are the ones of the code. `PushFlowAck` repeats a refused `FLOW`
packet, `PushChunkAck` a refused chunk (`push_chunk_data` starts again with a new
`mfseek`), and `PullChunkEnd` waits for the segments of the same chunk again,
with no second `FLOW` packet. A puller that misses a segment does not answer: it
returns `TIMEOUT`.

`conf` of the pusher is a function of the file's length and `ChSize`; the puller
has its own copy, `pull_conf`, taken from the `SEND` packet. The file created by
`create_file` is a sequence of zeros of the length `calc_file_size` gives, or the
empty sequence when the name cannot be created or the file system is too small
(`Avail`); an empty sequence stands for an unopened `MFILE`, since `mmap`
refuses length zero. The puller then answers 0 and, as the code does, goes on to
`start_data` and waits for a `FLOW` packet.

Abstracted: a packet is a record of the fields the other side uses. Byte order
and the info string are left to `Wire`, which shows that the receiver gets the
fields that were sent; the unused CRC of `RECV` and the names of files are left
out. CRCs are constant operators about which nothing is assumed.

### How the other modules correspond to the code

`PullThreads`. `main` is the thread of `pull_file` and `start_puller`, `caster`
is `thread_broadcast`, `crc` is `thread_calc_file_crc16`. `fdt` is the descriptor
table of the process: the system hands out the lowest free number, and closing a
number closes whatever it refers to at that moment. `conf` holds the numbers
that the code keeps. An action ends wherever another thread can see the
difference: writing `remote_ip` takes two steps (`Torn` in between), reading the
remote address for `init_udp_socket` takes two, the number of the broadcast
socket is opened and stored in separate steps. A transfer is one step that works
or fails, since `Transfer` says what happens in it. A failing step of
`start_puller`, and of `start_broadcast`, reaches `tryexec`, which ends the
process and all threads. `Peer` may vanish after it has connected. Descriptor 0
is taken before the call starts, and a zeroed `InitConfig` names it as
`cast_sock`: a pusher that is accepted before the broadcaster has stored its
socket makes `start_puller` close that descriptor.

`Discovery`. Time passes in ticks, `TPS` to the second, and `time()` cuts the
rest off. A caster whose sleep is over (`Due`) sends or fails to, and sleeps
again. `ScanTest` is the test of the loop and the start of `poll`; the actions
`pull_*` are the ways `pull_broadcast_header` ends. `header` outlives a turn of
the loop as it does in the code. A behaviour happens in one of `Worlds`, which
says whether the processes are prompt (the clock then goes on only when nobody
has anything to do) and how often the environment does each of its things. A
`realloc` without memory (`pull_CAST_no_memory`) crashes the process, since the
code tests the wrong pointer.

`Infostr`. A string is a sequence of characters and a port one character. `sscanf`
gives the fields that are read, from left to right until a conversion finds
nothing or a literal does not match; the others keep what they held (`keep`).

`Logger`. `logc.logcount++`, the test, the return to the start, the copy and
`logc.pos += sizeof(LogMsg)` (a read and a write) are separate actions, and
positions count entries. `raced` records that since `initiate` a call has
overlapped with another one or with `initiate` or `deinitiate`, or was made while
the log was down: in C a data race or an access to memory that is gone. Nothing
in the code keeps `deinitiate` from unmapping the log under a thread in `logging`;
a copy to a log that is not mapped ends the process (`"crashed"`).

`Wire`. `bytes` gives the bytes of an integer, the most significant first, and
`value` the integer that has them; a host stores them in its own order
(`inorder`). `image` lays the fields of a structure out in memory at their
`Offsets`, which need no padding, and `structure` reads them back. A `frame` is
what one `send` hands over: the structure and, for `CAST` and `SEND`, the info
string in its zeroed buffer. `Deliver` hands over a packet whole or in pieces. The
receiver peeks at the type, reads the structure and the info string, and
converts and unpacks them into a structure that has held other values. `CAST`
packets are included although `push_CAST_header` and `pull_CAST_header` are never called: the functions are
the same, and `scanpair` converts its packets the same way.

### Environment

In `Transfer`, `Network` loses, duplicates, reorders and damages segments still in the queue,
and `Fault` ends a process. `Budget` gives how often each may happen. `Patient`
says whether a timeout is longer than any delay of the peer. When it is FALSE
every wait with a time limit may expire whenever nothing has arrived, which
includes every race between a timeout and a late answer. When it is TRUE a wait
expires only if nothing will come any more (`Starved`). The runs that ask what a
well-timed transfer does set it.

## 3. Runs

Constants of `MCTransfer`, unless the row says otherwise: chunk size 2, segment
size 1, bytes 0 and 1, `U16` = 16, `U32` = 6, `U64` = 1024, two tries on each
side.

| Run | Checks | Result |
|---|---|---|
| `hostile` | `TypeOK`, `IInv`, the safety properties and `AcceptedChunksStable`, on six files with chunk size 3 and segment size 2, two of every network disturbance, weak checksums, timeouts at any time | holds, about 700,000 states |
| `delivery` | `ImplementsDelivery`, `PusherTerminates`, `PullerTerminates`; four files, one refused for lack of space, one of every disturbance and one fault, 2 and 3 tries | holds, about 13,000 states |
| `repair` | `DamageRepaired`, `CleanTransferOutcome`, `OutcomesAgree`; seven files with chunk size 4, segment size 2 and `U32` = 8, exact checksums, patient timeouts, 3 tries, two damaged and two swapped segments, one lost and one duplicated | holds, about 125,000 states |
| `chunking` | `SizeRebuilt`, `CoversFile`, `RefusesMultiples`, `ChunkInsideFile`, `WalkEnds`; file sizes 1 to 127 (half the range of a `size_t`, since `st_size` is signed), chunk sizes 1 to 7, widths 8, 16 and 256, segment thresholds 1, 2, 3 and 5 | holds, about 26,000 states |
| `pull` | `TypeOK`, `DescriptorsIntact`, `CrcThreadContained`, `DestinationUntilAccept`, `BroadcasterSparesTransfer`, `BroadcasterEnds`, `PullEnds`; eight descriptors, three tries | holds, about 74,000 states |
| `discovery` | `PairsGenuine`, `GivesUpForReason`, `ReturnsInTime`, `FindsEveryone`, `ScanReturns`; two casters, half seconds; prompt processes with one of every disturbance (a short datagram and a failing receive use up both tries), and processes that are late at will with two failing receives | holds, about 1.4 million states |
| `logger` | `InsideUnlessRaced`, `RingHoldsLatest`, `LogInv`; two threads, six calls, logs of none, one and two entries, `initiate` and `deinitiate` at any moment | holds, about 4 million states |
| `wire` | `InFrame`, `WholePacketsPulled`, `RoundTrip`, `AddressSurvives`; two packets of any type, or a `SEND` packet with any file name of up to 3 and most names of up to 4 characters out of a letter and both separators; both byte orders on each side | holds, about 3.5 million states |
| `multiple` | `CleanTransferSucceeds`, a multiple of the chunk size, without any disturbance | violated, see findings |
| `failcrc` | `PullSuccessVerified` | violated |
| `loss` | `LossRepaired` | violated |
| `connection` | `AcceptedConnectionKept` | violated |

Why the bounds are enough. The code tells files apart by their number of
chunks, by an empty or non-empty last chunk, and by positions that wrap. The
files of `MCTransfer` have every combination: empty, one partial chunk,
two and three chunks, a multiple of the chunk size, exactly `U32` bytes (in
`hostile`, an empty last chunk whose position wraps to zero, so that `mfseek`
succeeds) and more than `U32` bytes. A chunk of two segments is the smallest in
which a segment can be lost, swapped or left over; in `hostile` the two have
different lengths, so a segment read in the wrong place is too short (`LOWSIZE`)
or cut, and in `repair` a full chunk has two equal segments and the last chunk of
one file a short one. Two disturbances are one more
than it takes to leave a segment to the next attempt and spoil that one too.
Two tries give a first attempt, a repetition and giving up. The weak checksum
is the sum of the bytes, so swapped bytes pass it: the safety properties do not
depend on CRCs without collisions. The strong checksum separates all files of
the instance and is used where a property says that damage is noticed.

In `pull` the call never has more than seven descriptors open, one of them not
its own, so the table of eight never fills up; three tries let the broadcaster
fail, recover and give up on a number that has been used again in between. In
`discovery` the scan lasts two seconds and the casters sleep for one, so that
each announces itself at least once in every scan, whatever part of a second it
starts in; two tries are used up by two failing receives. The clock stops at
`MaxNow`, behind the end of every scan. In `logger` six calls go twice around a
log of two entries, or once and once more after it has come up again; a third
thread would add nothing but more races, and the theorems hold for any number. In `wire` a byte has four values and the integers differ in
all their bytes, so that a swap or a cut shows; the fields of the info string
hold two and three characters, so that names reach one beyond their field. In `chunking` the files reach
beyond `U32` bytes and beyond `U32` chunks; a walk that never ends is followed
for one turn of the sequence number.

Fairness. `WF_vars(Pusher)` and `WF_vars(Puller)`: each process is scheduled, and
a wait ends because every `poll` has a finite time limit. The exceptions are
the two calls with `FOREVER_TIMEOUT`: no timeout action exists for accept and
for the first `SEND`, and therefore `PullerTerminates` speaks of a puller to
which a pusher has connected. It also takes the puller's time limits to be
positive, which `push_file` checks and `pull_file` does not
(`source/rufshare.c:71`). The network and the faults have no fairness.
In `PullThreads` each of the three threads runs (`WF` of `Main`, `Caster` and
`thread_calc_file_crc16`), and the pusher and the application promise nothing.
That a wait of `start_puller` fails (`WaitFails`) is possible and not promised.
In `Discovery` the processes run and the clock goes on. In `Chunking` the loop
goes on.

Deadlock is checked in the runs of `Transfer` that check safety. There
`Terminated` is the only way to stop: both have returned, or the puller still
waits for a pusher that never came. The other runs stop when the call they model
has returned or the bounds are used up; where it matters a liveness property
(`PusherTerminates`, `PullerTerminates`, `WalkEnds`, `PullEnds`, `ScanReturns`)
says that they stop at the right place.

### What the properties say

- `SuccessVerified`: when `push_file` reports success, the puller has accepted
  every chunk, its file has the length and the CRC16 of the source, and it will
  not write again.
- `PullSuccessComplete`: the puller's success comes after the last chunk and a
  verdict. (Which verdict, it does not say: see `failcrc`.)
- `NeverDesynchronised`: the statuses for an unexpected packet type, a `FLOW`
  packet out of order, and a `FLOW` packet refused too often are unreachable.
- `RepliesInOrder`: the missing check of the sequence number in `RECV` packets
  is harmless.
- `RetryLockstep`: the two try counts differ by the NACKs on the way.
- `SegmentsHaveASocket`: no segment is sent before the puller has bound its UDP
  port, although the handshake is answered before it does.
- `AcceptedChunksMatch`, `AcceptedChunksStable`: an accepted chunk keeps its
  contents and its CRC32 whatever arrives later (files up to 2^32 bytes).
- `CleanTransferOutcome`: an undisturbed transfer delivers a file exactly if it is
  `Deliverable`. Below 2^32 bytes its last chunk must not be empty; from 2^32 on the
  position of an empty last chunk wraps into the file, and `mfseek` accepts it. And
  every byte must be `Carried` by a chunk at its 32-bit position or be zero: the
  end of a file beyond 2^32 bytes is never sent, and stays what `create_file` made
  it.
- `DamageRepaired`: a deliverable file arrives although segments are damaged, or
  swapped where they have equal length, fewer times than either side has tries
  (`Tolerable`). The short last segment of a chunk must stay the last: one swap
  with the segment before it ends both calls with `LOWSIZE`.
- `OutcomesAgree`: when timeouts are long enough and checksums exact, the two
  calls agree on success whatever UDP does, although either may give up first and
  the last answer is never acknowledged (files up to 2^32 bytes; beyond, see
  `failcrc`).
- `ImplementsDelivery`: with accepted chunks = the puller's sequence number less
  one and confirmed chunks = the pusher's less one, every step of `Transfer` is a
  step of `Delivery` or leaves it unchanged.
- `CoversFile`: the positions sent, not just their number. A walk that ends
  normally has sent every byte exactly if the chunks can be counted in 32 bits
  and the last byte lies in a chunk that starts below 2^32; beyond, positions have
  wrapped and the tail was never read. Below 2^32 bytes no byte is sent twice.
- `RefusesMultiples`: `mfseek` ends the walk with `EMFSEEK` exactly for the files
  below 2^32 bytes that are a multiple of the chunk size (finding 1), and by then
  every byte has been sent. Larger multiples pass, since the position has wrapped.
- `WalkEnds`, `ChunkInsideFile`, `SizeRebuilt`: the loop of `push_transfer` ends for
  every file but one of 2^32 bytes or more with the chunk count 2^32 - 1, whose
  sequence number wraps before the test can fail; its checksums stay inside the
  file even where the position or the sequence number has wrapped; from 2^32
  chunks on the puller rebuilds a wrong size.
- `DescriptorsIntact`: `start_puller` closes the broadcaster's socket, the
  broadcaster goes on using the number and closes it again, and still no
  descriptor of a transfer is closed or written to. It holds by luck: the number
  is taken by the stream that `create_file` never closes. A repair of that leak
  alone (the mutant of this property) makes the broadcaster send CAST packets
  over the mapped file's or the data socket's descriptor and close it.
- `BroadcasterSparesTransfer`: for the same reason the second close does not end
  the process in the middle of a transfer.
- `PullEnds`: a pusher that vanishes before its `SEND` packet does not block the
  call for ever although it waits without a limit: the broadcaster's second
  `close` fails, and `tryexec` ends the process. The condition is that the
  broadcaster was sending when its socket was closed.
- `DestinationUntilAccept`: what the broadcaster reads before a pusher is accepted
  is the configured destination. Afterwards the race is real: it may read a
  half-written address, or the pusher's address with the configured port. Only the
  opposite mixture, an old address with a newer port, cannot happen.
- `CrcThreadContained`: no path unmaps the file or returns while the CRC16 thread
  reads. It writes to a frame that is gone only when the process is on its way to
  `exit`, which does happen after a failed `pull_SEND_header`.
- `PairsGenuine`, `RoundTrip`: which configurations survive the info string. Those
  with a colon in the file name, an at sign in the name, or names that are too long
  do not, and nothing in `rufshare.c` refuses them; a listed pair may then carry
  fields of the one before it.
- `AddressSurvives`: a colon inside the file name moves the border of the two
  names, and the address and the port are still read if what then stands in the
  place of the name has no at sign and at most 31 characters (`Separable`). A
  leading colon, an at sign there, or more characters can lose the address too.
- `FindsEveryone`, `ReturnsInTime`: a scan lists everyone who announced itself
  without loss if it is a second longer than their interval, and it is late by
  one `poll` at most.
- `GivesUpForReason`: a scan ends early only after `sp_trycount` failures with no
  announcement between them, and each of them is a receive that failed or a
  datagram too short for a header. Such a datagram may come from anyone, so
  foreign traffic can end a scan; silence and whole packets of another type do not.
- `InsideUnlessRaced`, `RingHoldsLatest`: the ring is exact, and nothing is written
  outside the mapping or after it is gone, as long as calls of `logging` overlap
  neither each other nor `initiate` and `deinitiate`. When they do, a position may
  pass the end by one entry and never equal it again, or the process crashes; the
  puller logs from up to three threads, and its broadcaster may outlive the call.
- `InFrame`, `WholePacketsPulled`: a partial read ends the call and never shifts
  the stream; byte orders do not matter.

## 4. Findings

1. *A file whose size is a multiple of the chunk size cannot be sent*
   (`multiple`). `calc_chunk_count` always adds a partial chunk; when it is empty
   it starts at the end of the file, `mfseek` refuses that position
   (`source/mfile.c:56`), and both sides fail with `EMFSEEK` after all bytes have
   been accepted. (The one exception is a file of exactly 2^32 bytes.)
2. *The puller reports success after a failed verification* (`failcrc`). The
   `FAILCRC` set in `pull_verification` is overwritten by the status of sending
   the answer.
3. *A lost segment is not sent again* (`loss`). The puller returns `TIMEOUT` from
   `pull_chunk_data` instead of sending the NACK that would trigger a repetition.
4. *The puller closes the connection it has accepted* (`connection`). A
   broadcaster that has run out of tries closes its socket and leaves the number
   in `conf->cast_sock`. The next `accept` gets that number, and
   `source/puller.c:163` closes it.

In the first three the pusher reports a failure: `SuccessVerified` holds.

The models also contain these, without a run of their own:

- *Positions wrap beyond 4 GiB.* `source/pusher.c:44` and `source/puller.c:78`
  multiply in 32 bits. Both sides agree on the wrong position, so every chunk
  CRC32 matches; the end of the file is never sent, and the CRC16 of the file
  does not match unless those bytes are zero (`CleanTransferOutcome`, `failcrc`).
- *A swapped short segment is not tolerated.* It is read where a full one is due,
  and `LOWSIZE` ends both calls without another try (`DamageRepaired`).
- *A duplicated segment is not tolerated.* The surplus segment stays in the
  socket, and every later attempt starts with it; both calls fail
  (`OutcomesAgree`).
- *The broadcaster outlives the call.* `pull_file` never joins the thread; after
  `deinitiate` it writes to an unmapped log (`CasterCrash` of `PullThreads`).
- *A failing `realloc` is not noticed.* `source/scanpair.c:121` tests the pointer
  to the pointer (`pull_CAST_no_memory` of `Discovery`).
- *A wildcard address is announced.* The info string carries `local_ip`, which is
  `0.0.0.0` in the project's own test, and the scanner lists it.

## 5. Proofs

The theorems hold for every value of the constants that satisfies the assumptions
of the modules, all of which TLC evaluates in the runs:

- `CalcAssumption` and `SegmentAssumption` (widths and segment sizes are positive),
  `TransferAssumption`
  (bytes are numbers, the chunk size fits 16 bits and is not zero, try counts are
  not zero) and `FileSizeAssumption` (a `size_t` holds the file's size, and 32 bits
  its number of chunks and one more);
- `ChunkingAssumption`: the widths grow, 32 bits hold at least four values, and a
  file's size fits a signed `off_t`.
  Without the sign bit `SizeRebuilt` is false: for 2^64 - 1 bytes in chunks of one
  byte the count is cut and the 64-bit product still comes out right;
- `ThreadsAssumption`: the descriptor table has room for the call (seven
  descriptors), and the broadcaster has a try;
- `DiscoveryAssumption` and `InfostrAssumption`: times and tries are positive,
  a field has room for a character, the buffers have the sizes the formats ask for, and the address is one
  `check_ipv4_format` lets through (not empty, not too long, no colon). About file
  names and names nothing is assumed;
- `WireAssumption`: a byte has more than three values (the types of packets fit
  it), the fields fit their widths, the pad is zero as `pack_*` makes it, the names
  are not empty, the address is valid, and the names in the receiver's
  structure, which the code does not initialise, are empty or what an earlier
  packet left there (other leftovers could make a configuration that the format
  cannot carry come back by chance). The packets, their number and order, the byte
  orders and the pieces TCP delivers are arbitrary;
- `LoggerAssumption`: entry counts are numbers.

Nothing is assumed about the CRCs, the network, the timing, or the number of
disturbances and faults, except where a theorem says so.

| Module | Theorem | States |
|---|---|---|
| `TransferProofs` | `TypeCorrect` | `TypeOK` |
| | `StaysInStep` | the inductive invariant `IInv` |
| | `PushSuccess` | `SuccessVerified` |
| | `PullSuccess` | `PullSuccessComplete` |
| | `NoDesync` | `NeverDesynchronised` |
| | `AnswersInOrder` | `RepliesInOrder` |
| | `TriesInLockstep` | `RetryLockstep` |
| | `SocketBound` | `SegmentsHaveASocket` |
| | `KeepsPace` | `Paced` |
| | `Delivers` | `ImplementsDelivery` |
| | `NeverBehind` | `WritesAhead` |
| | `ChunksStable` | `AcceptedChunksStable` |
| | `ChunksMatch` | `AcceptedChunksMatch` |
| | `CallsAgree` | `OutcomesAgree`, given `Patient` and `[]ChecksumsTell` |
| `TransferCourse` | `BytesPlaced` | `Placed` |
| | `CleanOutcome` | `CleanTransferOutcome`, given `Patient` |
| | `DamageIsRepaired` | `DamageRepaired`, given `Patient` and `[]ChecksumsTell` |
| `ChunkingProofs` | `WalkSafe` | the inductive invariant `ChunkInv` |
| | `SizeSurvives` | `SizeRebuilt` |
| | `InsideFile` | `ChunkInsideFile` |
| | `WholeFile` | `CoversFile` |
| | `MultiplesRefused` | `RefusesMultiples` |
| `PullThreadsProofs` | `ThreadSafe` | the inductive invariant `ThreadInv` |
| | `ThreadTypes` | `TypeOK` |
| | `DescriptorsSafe` | `DescriptorsIntact` |
| | `CrcThreadSafe` | `CrcThreadContained` |
| | `DestinationSafe` | `DestinationUntilAccept` |
| | `BroadcasterSpares` | `BroadcasterSparesTransfer` |
| `DiscoveryProofs` | `ScanSafe` | the inductive invariant `ScanInv` |
| | `GivesUp` | `GivesUpForReason` |
| | `IntervalKept` | `ReturnsInTime` |
| | `EveryoneFound` | `FindsEveryone` |
| | `PairsSafe` | `PairsGenuine` |
| `LoggerProofs` | `LogSafe` | the inductive invariant `LogInv` |
| | `WritesInside` | `InsideUnlessRaced` |
| | `LatestHeld` | `RingHoldsLatest` |
| `WireProofs` | `WireSafe` | the inductive invariant `WireInv` |
| | `WireFramed` | `InFrame` |
| | `WireWhole` | `WholePacketsPulled` |
| | `WireRoundTrip` | `RoundTrip` |
| | `WireAddress` | `AddressSurvives` |

### Transfer

`TypeOK` is proved from a slightly stronger `TypeInv`. None of the safety
properties is inductive: each speaks of one moment, and what makes it true is
the whole exchange. `IInv` therefore says, for each place of the pusher, where
the puller can be and which packets are on the way. During a chunk this is a
relation between the two sequence numbers, the two try counts and the queue of
answers (`ChunkPhase`): so many NACKs are queued as the puller has counted tries
more than the pusher, and an ACK, if any, is the last one. The condition is kept
when either side has ended, since the other still reads what was sent. The
proof has one lemma per action (`...InStep`); the lemmas `AppendAnswers`,
`TailAppend` and `AnswerPhase` describe what sending and reading an answer does
to the queue. The network actions only change `udp`, of which `IInv` asks nothing
but its type: the control protocol does not depend on what UDP does.

*Refinement.* `IInv` forgets the pusher's sequence number once the pusher has
returned, and the puller may then still accept a chunk: `Delivery` asks that all
chunks before it are confirmed. `Paced` says that they are, whether or not the
pusher runs. With it each action is one lemma: an ACK read is `Confirm`
(`AckConfirms`), a chunk with the right CRC32 is `Accept`, the verdict is `Judge`,
a return is a return, and everything else is invisible.

*Contents.* A segment may be damaged, swapped, left over or cut, so nothing is
known of what is written; `WritesAhead` says where: never before the start of the
chunk being received, since every attempt seeks there and each segment is written
behind the one before it. As chunks do not overlap below 2^32 bytes (`Position`,
`FullChunk`), no write touches an accepted chunk (`WriteBehind`, `ChunksKept`), and
the CRC32 that was compared when the chunk was accepted remains right.

*Agreement.* `CallsAgree` needs two things of the world: the timeouts are longer
than any delay of the peer, and no wrong chunk passes its CRC32. The second is a
condition on the behaviour (`ChecksumsTell`), not on the checksum, which a real
32-bit CRC could not meet for all files. From it and `AcceptedChunksMatch` follows
that the file is whole when it is judged (`ByteInChunk`, `WholeFromChunks`), so the
verdict is a match. `Agreement` adds that the pusher is then still waiting for the
answer, reads it, and that neither side has anything left that can fail.

*Course.* `CleanOutcome` has two directions. That a file which arrives is
deliverable follows from `Placed`, which holds whatever UDP does: a side never
leaves its chunk, so a byte that no chunk carries is still zero when the file is
compared, and the puller enters the last chunk only where `mfseek` lets it. That
a deliverable file arrives needs `OnCourse`, which describes the whole of such a
transfer. The segments on the way are those the puller waits for: segment j is
that many segment sizes behind its position, and what has not been sent yet
begins behind the last of them (`Flowing`). Control packets alternate
(`Alternating`); a chunk that was accepted is right, except where the chunk under
way is writing over it, which happens only when positions have wrapped
(`Settled`); nobody gives up (`Lasting`). No step of a patient transfer
leaves this course: a timeout would need a wait that nothing will end.

*Damage.* `DamageIsRepaired` uses the same `OnCourse`; what makes it more than the
undisturbed case is `Accounted`. Every try the puller has used up goes back to an
act of damage, and if the attempt under way is damaged already, to one act more
than tries: so as long as there were fewer acts than tries a refused chunk is
always sent again. Swapping keeps `Flowing` because it is tolerated only where all
segments of a chunk have the same length. `ChecksumsTell` is needed in one place: a
chunk that is accepted is right.

### Chunking

`ChunkInv` says where the walk is (`PlaceInv`: within a chunk the position is as far
from its start as bytes are sent, and the sequence number is that of a chunk or the
next one, except in the one endless walk) and which bytes are in `sent`
(`SentInv`). When a chunk begins, everything before it is sent as long as the chunk
before it started below 2^32; from there on the last byte before it is not
(`Reached`), and so the tail of such a file is missing at the end (`Ended`).
`CoversFile` follows with the chunk of the last byte (`LastByte`, `EndCounted`,
`EndCut`); `Refused` shows that only an empty last chunk below 2^32 starts at the end
of the file. `SizeRebuilt` and `ChunkInsideFile` then are facts about
quotients and remainders (`Rebuilt` and the lemmas before it).

### Threads of `pull_file`

`start_puller` closes the broadcaster's socket, and the broadcaster uses the number
again. `ThreadInv` says why no harm is done. Before the close, every number
below the socket's is taken by something that stays open (`BeforeClose`); so after
it the number is the lowest free one until `create_file` takes it (`SocketClosed`),
for a stream that nobody uses or closes. When the broadcaster had not stored its
socket yet, what is closed is descriptor 0 and the socket stays its own
(`OwnSocket`). `StreamsHeld` says that `conf` names what was opened; `OpenedOnce` that
there is at most one descriptor of each kind, so that a table of seven never
fills up. After `GaveUp` the numbers mean nothing, which is the finding
of run `connection`, and the theorems, like the properties, say nothing there.

### Discovery

`ScanInv` is a conjunction: tries left and failures since the last announcement
add up (`TriesInv`); each failure goes back to a failing receive or a short
datagram that was sent, those still in the queue not counted (`BlameInv`); a prompt scan never polls beyond its end by more than the time
limit (`TimeInv`); and a caster of which nothing was lost is listed, or in the
socket's queue while there is time to read it, or due to announce itself before
the end (`FoundInv`). `PairsGenuine` is inductive with the fact that `header` has all
fields; its content is the step: the lemmas from `Joined` to `NewPair` show for
strings of any length that what `snprintf` writes of a configuration that fits is
split by `sscanf` into the same fields, so that nothing of the last header remains.

### Log

`InsideUnlessRaced` is not inductive: that the position is inside when an entry is
copied follows from where the thread came from. `LogInv` adds that without a race
at most one thread is in `logging`, that the log is mapped then, and how far the
position may be at each place.
`RingInv` adds what has been written by then: the position is the place of the
next message, modulo the size, and the entries before it are the latest ones,
with the one entry in the middle of being replaced accounted for (`Progress`).

### Control packets as bytes

`InFrame` says nothing about what is on the way, and the receiver does not know
where a packet begins: it is right only if it has always taken exactly as many
bytes as the sender gave. `WireInv` therefore says that there is one stream `T`, in
which packet i begins at `s[i]`, and two positions in it: `r`, up to which the
receiver has read, and `d`, up to which TCP has delivered. The buffer is the
stream from `r` to `d` (`InBuffer`), and the frames in flight are the rest of it, the
first of them cut off at `d` (`InFlight`). The place of the receiver in its code
determines `r`: at the start of packet g, behind its structure, or behind its info
string, where g is one more than the packets pulled (`At`). Streams are never
defined by recursion: `s` and `T` are quantified, and each `send` extends them by one
frame (`Extended`, `Sent`). After a short read nothing is claimed of the stream, and
nothing is pulled any more. If TCP delivers whole packets, `d` is always the start
of a packet, so a packet that has begun to arrive is complete (`Whole`), and a
stream that has run dry leaves the receiver between two packets.

What a packet carries is a matter of the operators. `Surjective` and `Injective`
show that integers of one, two and four bytes and their byte sequences correspond
one to one, so that `value` is defined; `NetworkOrder` that converting twice gives
the number back whatever the two hosts are; `Layout`, `Disjoint` and `Image` that
the fields of a structure are found again where they were laid out. `InfoBuffer`
shows that the string ends at the first zero of its buffer, and `Recovered` and
`AddressRecovered`, on the lemmas of `InfostrProofs`, what `sscanf` makes of it.
`RoundTrip` is an equivalence: for the other direction it is enough that what was
unpacked is always well formed (`StillHolds`), so an ill-formed configuration
cannot come back.

### Only model-checked

- Termination (`PusherTerminates`, `PullerTerminates`, `WalkEnds`, `BroadcasterEnds`,
  `PullEnds`, `ScanReturns`): liveness under fairness is outside what these provers
  handle.
- That the violated properties of section 4 are violated.

Every invariant and every action property of the passing runs is stated by a
theorem.

## 6. Not modelled

- `Transfer` and `PullThreads` are separate: the first has the packets of one
  transfer, the second its threads and descriptors. What a broken descriptor does
  to the packets is the failing step of `PullThreads`, and `PullFault` in
  `Transfer`.
- A second call of `pull_file` or `push_file` in the same process; `conf` must
  then be cleared by the caller (`BADCONF` otherwise).
- What happens to the log after a race: `Logger` follows the interleavings of
  single reads and writes, and its properties end where calls have overlapped.
  `initiate` and `deinitiate` are one step each.
- Several pushers: the puller accepts one connection, and a second pusher stays
  in the listen queue.
- The argument checks of the public functions; they appear as assumptions on the
  constants, and in `broadcast` of `PullThreads` as a thread that ends at once.
  `ISVALID_SEND_HEADER` compares unsigned numbers with zero and is always true.
- Socket options. `SO_RCVLOWAT`, the only one set besides reuse and broadcast,
  does not change what a UDP socket delivers. The other setters of
  `net_stream.c` are never called.
- `extract_file_name` (it fills a name that is never sent),
  `make_random_filename` (never called), `check_ipv4_format` (one call of
  `inet_pton`), texts of error messages.
- The CRC library: external, constant operators in the model.

## 7. Plan

Done: the transfer core, the threads of `pull_file`, discovery, the info string,
the packets as bytes, the log and the wrap of sequence numbers, and theorems about
all of them. What could follow:

1. `Transfer` and `PullThreads` in one module, so that a descriptor that was closed
   too early shows in the packets.
2. The log after a race: which entries are still whole, and that the position
   comes back into the ring when the overlapping calls have ended.
3. A second `pull_file` in the same process, with the broadcaster of the first one
   still running.
