------------------------------- MODULE Infostr -------------------------------
(***************************************************************************)
(* The info string of CAST and SEND packets: "filename:name@ip:port",      *)
(* written by snprintf() and taken apart by sscanf().  A string is a       *)
(* sequence of characters; a port is one character of Ports, which stands  *)
(* for its digits.                                                         *)
(***************************************************************************)
EXTENDS Naturals, Sequences, SequencesExt

CONSTANTS
  MAXFILENAMESIZE, MAXNAMESIZE, MAXIPV4SIZE,  \* sizes with the final zero
  INFOSTRSIZE,
  Ports       \* what %hu prints and reads

\* The buffer has room for the longest string (310 characters of 320).
ASSUME InfostrAssumption ==
  /\ {MAXFILENAMESIZE, MAXNAMESIZE, MAXIPV4SIZE, INFOSTRSIZE}
       \subseteq Nat \ {0, 1}
  /\ INFOSTRSIZE >= MAXFILENAMESIZE + MAXNAMESIZE + MAXIPV4SIZE + 2

-----------------------------------------------------------------------------
\* The first n characters, or all of them.
cut(s, n) == SubSeq(s, 1, IF Len(s) < n THEN Len(s) ELSE n)

sstrncpy(src, dsize) == cut(src, dsize - 1)

\* "%.255s:%.31s@%.15s:%hu"
pack_into_infostring(i) ==
  cut(cut(i.filename, MAXFILENAMESIZE - 1) \o <<":">>
        \o cut(i.name, MAXNAMESIZE - 1) \o <<"@">>
        \o cut(i.ip, MAXIPV4SIZE - 1) \o <<":", i.port>>,
      INFOSTRSIZE - 1)

\* What %<width>[^stop] reads from the front of s.
scan(s, stop, width) ==
  LET length == CHOOSE n \in 0..Len(s) :
                  /\ \A k \in 1..n : s[k] # stop
                  /\ n < Len(s) => s[n + 1] = stop
  IN  cut(SubSeq(s, 1, length), width)

\* The literal follows the field in s.
follows(s, field, literal) ==
  Len(field) < Len(s) /\ s[Len(field) + 1] = literal

rest(s, field) == SubSeq(s, Len(field) + 2, Len(s))

\* Mutant: a colon ends the name too.
sscanf_colon(s) ==
  LET f == scan(s, ":", MAXFILENAMESIZE - 1)
      n == scan(rest(s, f), ":", MAXNAMESIZE - 1)
  IN  [filename |-> f, name |-> n]

\* "%255[^:]:%31[^@]@%15[^:]:%hu": the fields that are read.  The conversions
\* are done from left to right until one finds nothing or a literal does not
\* match.
sscanf(s) ==
  LET f == scan(s, ":", MAXFILENAMESIZE - 1)
      s1 == rest(s, f)
      n == scan(s1, "@", MAXNAMESIZE - 1)
      s2 == rest(s1, n)
      a == scan(s2, ":", MAXIPV4SIZE - 1)
      s3 == rest(s2, a)
      hasname == f # << >> /\ follows(s, f, ":") /\ n # << >>
      hasip == hasname /\ follows(s1, n, "@") /\ a # << >>
      hasport == hasip /\ follows(s2, a, ":") /\ s3 # << >> /\ s3[1] \in Ports
      all == [filename |-> f, name |-> n, ip |-> a,
              port |-> IF hasport THEN s3[1] ELSE ""]
      reads == [filename |-> f # << >>, name |-> hasname, ip |-> hasip,
                port |-> hasport]
  IN  Restrict(all, {k \in DOMAIN all : reads[k]})

\* The fields that are read are stored in header; the others keep what they
\* held.
keep(header, fields) ==
  [k \in DOMAIN header |->
     IF k \in DOMAIN fields THEN fields[k] ELSE header[k]]

unpack_from_infostring(s, header) == keep(header, sscanf(s))

\* Mutant: the name loses its last character.
stored_short(i) ==
  [i EXCEPT !.filename = sstrncpy(@, MAXFILENAMESIZE),
            !.name = sstrncpy(@, Len(@)),
            !.ip = sstrncpy(@, MAXIPV4SIZE)]

\* The copy of conf->addrs that the sender packs.
stored(i) ==
  [i EXCEPT !.filename = sstrncpy(@, MAXFILENAMESIZE),
            !.name = sstrncpy(@, MAXNAMESIZE),
            !.ip = sstrncpy(@, MAXIPV4SIZE)]

\* The sender's configuration fits the format: a file name without a colon and
\* a name without an at sign, neither empty nor longer than its field.
WellFormed(i) ==
  /\ ~Contains(i.filename, ":") /\ ~Contains(i.name, "@")
  /\ Len(i.filename) \in 1..(MAXFILENAMESIZE - 1)
  /\ Len(i.name) \in 1..(MAXNAMESIZE - 1)

\* The address can still be found behind the names: the file name does not start
\* with a colon, and what is read as the name (the rest of the file name behind
\* its first colon, the colon that follows it and the name) has no at sign and
\* fits the field.
Separable(i) ==
  LET f == cut(i.filename, MAXFILENAMESIZE - 1)
      n == cut(i.name, MAXNAMESIZE - 1)
  IN  /\ f[1] # ":" /\ ~Contains(n, "@")
      /\ \A k \in 1..Len(f) : f[k] = ":" =>
           /\ Len(f) - k + 1 + Len(n) < MAXNAMESIZE
           /\ \A j \in k..Len(f) : f[j] # "@"
=============================================================================
