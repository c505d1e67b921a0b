----------------------------- MODULE InfostrProofs -----------------------------
(***************************************************************************)
(* What sscanf() finds in the strings that snprintf() writes.              *)
(***************************************************************************)
EXTENDS Infostr, TLAPS, SequenceTheorems, WellFoundedInduction

\* cut() keeps a prefix.
LEMMA CutFacts ==
  ASSUME NEW S, NEW s \in Seq(S), NEW n \in Nat
  PROVE  /\ cut(s, n) \in Seq(S)
         /\ Len(cut(s, n)) = IF Len(s) < n THEN Len(s) ELSE n
         /\ \A i \in 1..Len(cut(s, n)) : cut(s, n)[i] = s[i]
         /\ Len(s) <= n => cut(s, n) = s
<1> DEFINE m == IF Len(s) < n THEN Len(s) ELSE n
<1>1. m \in 0..Len(s) /\ Len(s) \in Nat
  BY LenProperties
<1>2. \A i \in 1..m : s[i] \in S
  BY <1>1, ElementOfSeq
<1>3. cut(s, n) = SubSeq(s, 1, m)
  BY DEF cut
<1> HIDE DEF m
<1>4. /\ SubSeq(s, 1, m) \in Seq(S)
      /\ Len(SubSeq(s, 1, m)) = m
      /\ \A i \in 1..m : SubSeq(s, 1, m)[i] = s[i]
  BY <1>1, <1>2, SubSeqProperties
<1>5. Len(s) <= n => cut(s, n) = s
  <2> SUFFICES ASSUME Len(s) <= n PROVE SubSeq(s, 1, m) = s
    BY <1>3
  <2>1. m = Len(s)
    BY <1>1 DEF m
  <2> QED
    BY <2>1, SubSeqFull
<1> QED
  BY <1>3, <1>4, <1>5 DEF m

\* Its length is at most the length that is asked for.
LEMMA CutShort ==
  ASSUME NEW S, NEW s \in Seq(S), NEW n \in Nat
  PROVE  \E f \in Seq(S) : f = cut(s, n) /\ Len(f) <= n
<1>1. PICK f : f = cut(s, n)
  OBVIOUS
<1>2. /\ f \in Seq(S) /\ Len(s) \in Nat
      /\ Len(f) = IF Len(s) < n THEN Len(s) ELSE n
  BY <1>1, CutFacts, LenProperties
<1>3. Len(f) <= n
  BY <1>2
<1> QED
  BY <1>1, <1>2, <1>3, Zenon

\* The string s is f, the character stop and t, one behind the other.
Join(S, s, f, stop, t) ==
  /\ s \in Seq(S) /\ Len(s) = Len(f) + 1 + Len(t)
  /\ s[Len(f) + 1] = stop
  /\ \A i \in 1..Len(f) : s[i] = f[i]
  /\ \A i \in 1..Len(t) : s[Len(f) + 1 + i] = t[i]

\* Concatenation joins the parts.
LEMMA Joined ==
  ASSUME NEW S, NEW f \in Seq(S), NEW t \in Seq(S), NEW stop \in S
  PROVE  Join(S, (f \o <<stop>>) \o t, f, stop, t)
<1>1. /\ <<stop>> \in Seq(S) /\ Len(<<stop>>) = 1 /\ <<stop>>[1] = stop
      /\ Len(f) \in Nat /\ Len(t) \in Nat
  BY LenProperties
<1>2. /\ f \o <<stop>> \in Seq(S) /\ Len(f \o <<stop>>) = Len(f) + 1
      /\ \A i \in 1..(Len(f) + 1) : (f \o <<stop>>)[i] =
           IF i <= Len(f) THEN f[i] ELSE <<stop>>[i - Len(f)]
  BY <1>1, ConcatProperties
<1> DEFINE g == f \o <<stop>>
           s == g \o t
<1>3. /\ g \in Seq(S) /\ Len(g) = Len(f) + 1 /\ g[Len(f) + 1] = stop
      /\ \A i \in 1..Len(f) : g[i] = f[i]
  BY <1>1, <1>2
<1> HIDE DEF g
<1>4. /\ s \in Seq(S) /\ Len(s) = Len(g) + Len(t)
      /\ \A i \in 1..(Len(g) + Len(t)) :
           s[i] = IF i <= Len(g) THEN g[i] ELSE t[i - Len(g)]
  BY <1>3, ConcatProperties
<1> HIDE DEF s
<1>5. /\ Len(s) = Len(f) + 1 + Len(t) /\ s[Len(f) + 1] = stop
      /\ \A i \in 1..Len(f) : s[i] = f[i]
      /\ \A i \in 1..Len(t) : s[Len(f) + 1 + i] = t[i]
  <2>1. Len(s) = Len(f) + 1 + Len(t)
    BY <1>1, <1>3, <1>4
  <2>2. \A i \in 1..(Len(f) + 1) : s[i] = g[i]
    BY <1>1, <1>3, <1>4
  <2>3. ASSUME NEW i \in 1..Len(t) PROVE s[Len(f) + 1 + i] = t[i]
    <3> DEFINE k == Len(f) + 1 + i
    <3>1. /\ k \in 1..(Len(g) + Len(t)) /\ ~(k <= Len(g)) /\ k - Len(g) = i
      BY <1>1, <1>3
    <3>2. s[k] = t[k - Len(g)]
      <4> HIDE DEF k
      <4> QED
        BY <1>4, <3>1
    <3> QED
      BY <3>1, <3>2
  <2>4. /\ Len(f) + 1 \in 1..(Len(f) + 1)
        /\ \A i \in 1..Len(f) : i \in 1..(Len(f) + 1)
    BY <1>1
  <2> QED
    BY <1>3, <2>1, <2>2, <2>3, <2>4, Zenon
<1>6. Join(S, s, f, stop, t)
  BY <1>4, <1>5, Zenon DEF Join
<1> QED
  BY <1>6, Zenon DEF g, s

\* A field of at most width characters, none of them stop, is in front of s.
Field(S, s, f, stop, t, width) ==
  /\ f \in Seq(S) /\ t \in Seq(S) /\ stop \in S /\ width \in Nat
  /\ ~Contains(f, stop) /\ Len(f) <= width
  /\ Join(S, s, f, stop, t)

\* The conversion %<width>[^stop] and the literal stop split s into f and t.
Reads(s, f, stop, t, width) ==
  /\ scan(s, stop, width) = f
  /\ follows(s, f, stop)
  /\ rest(s, f) = t

\* %[^stop] reads a field that holds no stop, and the rest stays.
LEMMA ScanField ==
  ASSUME NEW S, NEW s, NEW f, NEW stop, NEW t, NEW width,
         Field(S, s, f, stop, t, width)
  PROVE  Reads(s, f, stop, t, width)
<1>0. /\ f \in Seq(S) /\ t \in Seq(S) /\ stop \in S /\ ~Contains(f, stop)
      /\ width \in Nat /\ Len(f) <= width /\ Join(S, s, f, stop, t)
  BY Zenon DEF Field
<1>1. Len(f) \in Nat /\ Len(t) \in Nat
  BY <1>0, LenProperties
<1>6. /\ s \in Seq(S) /\ Len(s) = Len(f) + 1 + Len(t) /\ Len(s) \in Nat
      /\ s[Len(f) + 1] = stop
      /\ \A i \in 1..Len(f) : s[i] = f[i]
      /\ \A i \in 1..Len(t) : s[Len(f) + 1 + i] = t[i]
  BY <1>0, <1>1 DEF Join
<1>7. \A i \in 1..Len(f) : s[i] # stop
  BY <1>0, <1>6 DEF Contains
<1> DEFINE P(n) == /\ \A k \in 1..n : s[k] # stop
                   /\ n < Len(s) => s[n + 1] = stop
           length == CHOOSE n \in 0..Len(s) : P(n)
<1>8. Len(f) \in 0..Len(s) /\ P(Len(f))
  BY <1>1, <1>6, <1>7
<1>9. ASSUME NEW n \in 0..Len(s), P(n) PROVE n = Len(f)
  <2>1. ~(n > Len(f))
    <3> SUFFICES ASSUME n > Len(f) PROVE FALSE
      OBVIOUS
    <3>1. Len(f) + 1 \in 1..n
      BY <1>1, <1>6
    <3> QED
      BY <1>6, <1>9, <3>1
  <2>2. ~(n < Len(f))
    <3> SUFFICES ASSUME n < Len(f) PROVE FALSE
      OBVIOUS
    <3>1. n + 1 \in 1..Len(f) /\ n < Len(s)
      BY <1>1, <1>6
    <3> QED
      BY <1>7, <1>9, <3>1
  <2> QED
    BY <1>1, <1>6, <2>1, <2>2
<1>10. length = Len(f)
  <2>1. length \in 0..Len(s) /\ P(length)
    <3> HIDE DEF P
    <3> QED
      BY <1>8
  <2> QED
    BY <1>9, <2>1
<1>11. scan(s, stop, width) = cut(SubSeq(s, 1, length), width)
  BY DEF scan
<1> HIDE DEF length
<1>12. SubSeq(s, 1, Len(f)) = f
  <2>1. \A i \in 1..Len(f) : s[i] \in S
    BY <1>0, <1>6, ElementOfSeq
  <2>2. /\ SubSeq(s, 1, Len(f)) \in Seq(S)
        /\ Len(SubSeq(s, 1, Len(f))) = Len(f)
        /\ \A i \in 1..Len(f) : SubSeq(s, 1, Len(f))[i] = s[i]
    BY <1>1, <2>1, SubSeqProperties
  <2> QED
    BY <1>0, <1>6, <2>2, SeqEqual
<1>13. rest(s, f) = t
  <2> DEFINE m == Len(f) + 2
             u == SubSeq(s, m, Len(s))
  <2>1. \A i \in m..Len(s) : s[i] \in S
    BY <1>1, <1>6, ElementOfSeq
  <2>2. /\ u \in Seq(S)
        /\ Len(u) = IF m <= Len(s) THEN Len(s) - m + 1 ELSE 0
        /\ \A i \in 1..(Len(s) - m + 1) : u[i] = s[m + i - 1]
    BY <1>1, <1>6, <2>1, SubSeqProperties
  <2>3. Len(u) = Len(t)
    <3> HIDE DEF u
    <3> QED
      BY <1>1, <1>6, <2>2
  <2>4. \A i \in 1..Len(u) : u[i] = t[i]
    <3> HIDE DEF u
    <3>1. \A i \in 1..Len(t) : i \in 1..(Len(s) - m + 1) /\ m + i - 1 = Len(f) + 1 + i
      BY <1>1, <1>6
    <3> QED
      BY <1>6, <2>2, <2>3, <3>1
  <2> QED
    BY <1>0, <2>2, <2>3, <2>4, SeqEqual DEF rest
<1>14. follows(s, f, stop)
  BY <1>1, <1>6 DEF follows
<1>15. cut(f, width) = f
  BY <1>0, CutFacts
<1> QED
  BY <1>10, <1>11, <1>12, <1>13, <1>14, <1>15 DEF Reads

\* The characters of a string.
Chars == STRING \union Ports \union {":", "@"}

-----------------------------------------------------------------------------
(***************************************************************************)
(* What is read of any string.                                             *)
(***************************************************************************)
\* The first place of a character in a string.
LEMMA FirstPlace ==
  ASSUME NEW S, NEW s \in Seq(S), NEW c, Contains(s, c)
  PROVE  \E k \in 1..Len(s) : s[k] = c /\ \A j \in 1..(k - 1) : s[j] # c
<1> DEFINE T == {k \in 1..Len(s) : s[k] = c}
           R == OpToRel(<, Nat)
<1>1. Len(s) \in Nat /\ T \subseteq Nat /\ T # {}
  BY LenProperties DEF Contains
<1>2. PICK k \in T : \A j \in T : ~(<<j, k>> \in R)
  <2> HIDE DEF T, R
  <2> QED
    BY <1>1, NatLessThanWellFounded, WFMin DEF R
<1>3. \A j \in T : ~(j < k)
  <2>1. k \in Nat /\ \A j \in T : j \in Nat
    BY <1>1
  <2> HIDE DEF T
  <2> QED
    BY <1>2, <2>1 DEF OpToRel
<1>4. k \in 1..Len(s) /\ s[k] = c
  BY <1>2
<1>5. ASSUME NEW j \in 1..(k - 1) PROVE s[j] # c
  <2>1. j \in 1..Len(s) /\ j < k
    BY <1>1, <1>4
  <2> QED
    BY <1>3, <2>1
<1> QED
  BY <1>4, <1>5

\* %<width>[^stop] reads at most width characters, and no stop.
LEMMA ScanResult ==
  ASSUME NEW S, NEW s \in Seq(S), NEW stop, NEW width \in Nat
  PROVE  /\ scan(s, stop, width) \in Seq(S)
         /\ Len(scan(s, stop, width)) <= width
         /\ ~Contains(scan(s, stop, width), stop)
<1> DEFINE P(n) == /\ \A k \in 1..n : s[k] # stop
                   /\ n < Len(s) => s[n + 1] = stop
           length == CHOOSE n \in 0..Len(s) : P(n)
           f == SubSeq(s, 1, length)
<1>1. Len(s) \in Nat
  BY LenProperties
<1>2. \E n \in 0..Len(s) : P(n)
  <2>1. CASE Contains(s, stop)
    <3>1. PICK k \in 1..Len(s) : s[k] = stop /\ \A j \in 1..(k - 1) : s[j] # stop
      BY <2>1, FirstPlace
    <3>2. k - 1 \in 0..Len(s) /\ (k - 1) + 1 = k
      BY <1>1
    <3> QED
      BY <3>1, <3>2
  <2>2. CASE ~Contains(s, stop)
    <3>1. Len(s) \in 0..Len(s) /\ ~(Len(s) < Len(s))
      BY <1>1
    <3> QED
      BY <2>2, <3>1 DEF Contains
  <2> QED
    BY <2>1, <2>2
<1>3. length \in 0..Len(s) /\ P(length)
  <2> HIDE DEF P
  <2> QED
    BY <1>2
<1>4. scan(s, stop, width) = cut(f, width)
  BY DEF scan
<1> HIDE DEF length
<1>5. /\ f \in Seq(S) /\ Len(f) = length /\ \A i \in 1..length : f[i] = s[i]
  <2>1. \A i \in 1..length : s[i] \in S
    BY <1>1, <1>3, ElementOfSeq
  <2> QED
    BY <1>1, <1>3, <2>1, SubSeqProperties
<1> HIDE DEF f
<1>6. PICK g : g = cut(f, width)
  OBVIOUS
<1>7. /\ g \in Seq(S) /\ Len(g) = (IF Len(f) < width THEN Len(f) ELSE width)
      /\ \A i \in 1..Len(g) : g[i] = f[i]
  BY <1>5, <1>6, CutFacts
<1>8. Len(g) <= width /\ Len(g) <= length /\ Len(g) \in Nat
  BY <1>1, <1>3, <1>5, <1>7
<1>9. ~Contains(g, stop)
  <2> SUFFICES ASSUME NEW i \in 1..Len(g) PROVE g[i] # stop
    BY DEF Contains
  <2>1. i \in 1..length
    BY <1>1, <1>3, <1>8
  <2> QED
    BY <1>3, <1>5, <1>7, <2>1
<1> QED
  BY <1>4, <1>6, <1>7, <1>8, <1>9

-----------------------------------------------------------------------------
(***************************************************************************)
(* What is read of a string that was written.                              *)
(***************************************************************************)
\* The string with the given parts, and its end.
Address(i, p) == (i \o <<":">>) \o <<p>>
Line(f, n, i, p) == (f \o <<":">>) \o ((n \o <<"@">>) \o Address(i, p))

\* The separators and a port as characters and as strings.
LEMMA Separators ==
  ASSUME NEW p \in Ports
  PROVE  /\ ":" \in Chars /\ "@" \in Chars /\ p \in Chars
         /\ <<":">> \in Seq(Chars) /\ <<"@">> \in Seq(Chars)
         /\ <<p>> \in Seq(Chars)
<1>1. ":" \in Chars /\ "@" \in Chars /\ p \in Chars
  BY DEF Chars
<1>2. \A c \in Chars : <<c>> \in Seq(Chars)
  OBVIOUS
<1> QED
  BY <1>1, <1>2, Zenon

\* The sizes of the fields.
LEMMA FieldSizes ==
  /\ MAXFILENAMESIZE \in Nat \ {0} /\ MAXNAMESIZE \in Nat \ {0}
  /\ MAXIPV4SIZE \in Nat \ {0} /\ INFOSTRSIZE \in Nat \ {0}
  /\ MAXFILENAMESIZE - 1 \in Nat /\ MAXNAMESIZE - 1 \in Nat
  /\ MAXIPV4SIZE - 1 \in Nat /\ INFOSTRSIZE - 1 \in Nat
  /\ 1 <= MAXFILENAMESIZE - 1
  /\ INFOSTRSIZE >= MAXFILENAMESIZE + MAXNAMESIZE + MAXIPV4SIZE + 2
<1>1. /\ MAXFILENAMESIZE \in Nat \ {0} /\ MAXNAMESIZE \in Nat \ {0}
      /\ MAXIPV4SIZE \in Nat \ {0} /\ INFOSTRSIZE \in Nat \ {0}
      /\ MAXFILENAMESIZE # 1
      /\ INFOSTRSIZE >= MAXFILENAMESIZE + MAXNAMESIZE + MAXIPV4SIZE + 2
  BY InfostrAssumption
<1> QED
  BY <1>1

\* The strings of a configuration.
Spelled(a) ==
  /\ a.filename \in Seq(Chars) /\ a.name \in Seq(Chars) /\ a.ip \in Seq(Chars)
  /\ a.port \in Ports

\* The format cuts every field to its size, and the buffer has room for all.
LEMMA Packed ==
  ASSUME NEW a, Spelled(a)
  PROVE  LET s == Line(cut(a.filename, MAXFILENAMESIZE - 1),
                       cut(a.name, MAXNAMESIZE - 1),
                       cut(a.ip, MAXIPV4SIZE - 1), a.port)
         IN  /\ pack_into_infostring(a) = s
             /\ s \in Seq(Chars) /\ Len(s) <= INFOSTRSIZE - 1
<1>1. PICK x \in Seq(Chars) : x = <<":">>
  BY Separators, Zenon DEF Spelled
<1>2. PICK y \in Seq(Chars) : y = <<"@">>
  BY Separators, Zenon DEF Spelled
<1>3. PICK p \in Seq(Chars) : p = <<a.port>>
  BY Separators, Zenon DEF Spelled
<1>4. Len(x) = 1 /\ Len(y) = 1 /\ Len(p) = 1 /\ <<":", a.port>> = x \o p
  BY <1>1, <1>2, <1>3
<1>5. PICK f \in Seq(Chars) :
        f = cut(a.filename, MAXFILENAMESIZE - 1) /\ Len(f) <= MAXFILENAMESIZE - 1
  BY FieldSizes, CutShort, Zenon DEF Spelled
<1>6. PICK n \in Seq(Chars) :
        n = cut(a.name, MAXNAMESIZE - 1) /\ Len(n) <= MAXNAMESIZE - 1
  BY FieldSizes, CutShort, Zenon DEF Spelled
<1>7. PICK i \in Seq(Chars) :
        i = cut(a.ip, MAXIPV4SIZE - 1) /\ Len(i) <= MAXIPV4SIZE - 1
  BY FieldSizes, CutShort, Zenon DEF Spelled
<1> DEFINE ip  == (i \o x) \o p
           nip == (n \o y) \o ip
           all == (f \o x) \o nip
<1>8. /\ ip \in Seq(Chars) /\ nip \in Seq(Chars) /\ all \in Seq(Chars)
      /\ ((f \o x) \o n) \o y \in Seq(Chars)
  BY SMTT(30)
<1>9. Len(all) = Len(f) + Len(x) + Len(n) + Len(y) + Len(i) + Len(x) + Len(p)
  BY SMTT(30)
<1>10. ((((f \o x) \o n) \o y) \o i) \o (x \o p) = all
  <2>1. PICK s \in Seq(Chars) : s = ((f \o x) \o n) \o y
    BY <1>8, Zenon
  <2>2. (s \o i) \o (x \o p) = s \o ip
    BY SMTT(30)
  <2>3. PICK t \in Seq(Chars) : t = ip
    BY <1>8, Zenon
  <2>4. PICK u \in Seq(Chars) : u = f \o x
    <3>1. f \o x \in Seq(Chars)
      BY ConcatProperties
    <3> QED
      BY <3>1, Zenon
  <2>5. ((u \o n) \o y) \o t = u \o ((n \o y) \o t)
    BY SMTT(30)
  <2> QED
    BY <2>1, <2>2, <2>3, <2>4, <2>5, Zenon
<1>11. Len(all) <= INFOSTRSIZE - 1
  <2> HIDE DEF all
  <2>1. Len(f) \in Nat /\ Len(n) \in Nat /\ Len(i) \in Nat
    BY LenProperties
  <2> QED
    BY <1>4, <1>5, <1>6, <1>7, <1>9, <2>1, FieldSizes
<1>12. cut(all, INFOSTRSIZE - 1) = all
  <2> HIDE DEF all
  <2> QED
    BY <1>8, <1>11, FieldSizes, CutFacts, Zenon
<1>13. pack_into_infostring(a) =
         cut(((((f \o x) \o n) \o y) \o i) \o (x \o p), INFOSTRSIZE - 1)
  BY <1>1, <1>2, <1>4, <1>5, <1>6, <1>7, Zenon DEF pack_into_infostring
<1>14. all = Line(f, n, i, a.port)
  BY <1>1, <1>2, <1>3, Zenon DEF Line, Address
<1> HIDE DEF all
<1> QED
  BY <1>5, <1>6, <1>7, <1>8, <1>10, <1>11, <1>12, <1>13, <1>14, Zenon

\* The sender packs a copy of its configuration, which is cut in the same way.
LEMMA PackedCopy ==
  ASSUME NEW a, Spelled(a),
         NEW N, a \in [filename : N, name : N, ip : N, port : Ports]
  PROVE  LET s == Line(cut(a.filename, MAXFILENAMESIZE - 1),
                       cut(a.name, MAXNAMESIZE - 1),
                       cut(a.ip, MAXIPV4SIZE - 1), a.port)
         IN  /\ pack_into_infostring(stored(a)) = s
             /\ s \in Seq(Chars) /\ Len(s) <= INFOSTRSIZE - 1
<1>1. /\ a.filename \in Seq(Chars) /\ a.name \in Seq(Chars)
      /\ a.ip \in Seq(Chars) /\ a.port \in Ports
  BY Zenon DEF Spelled
<1>2. ASSUME NEW s \in Seq(Chars), NEW n \in Nat
      PROVE  cut(s, n) \in Seq(Chars) /\ cut(cut(s, n), n) = cut(s, n)
  <2>1. PICK t : t = cut(s, n)
    OBVIOUS
  <2>2. /\ t \in Seq(Chars) /\ Len(s) \in Nat
        /\ Len(t) = IF Len(s) < n THEN Len(s) ELSE n
    BY <2>1, CutFacts, LenProperties
  <2>3. Len(t) <= n
    BY <2>2
  <2> QED
    BY <2>1, <2>2, <2>3, CutFacts, Zenon
<1>3. PICK b : b = stored(a)
  OBVIOUS
<1>4. /\ b.filename = cut(a.filename, MAXFILENAMESIZE - 1)
      /\ b.name = cut(a.name, MAXNAMESIZE - 1)
      /\ b.ip = cut(a.ip, MAXIPV4SIZE - 1) /\ b.port = a.port
  BY <1>3 DEF stored, sstrncpy
<1>5. /\ b.filename \in Seq(Chars) /\ b.name \in Seq(Chars) /\ b.ip \in Seq(Chars)
      /\ cut(b.filename, MAXFILENAMESIZE - 1) = b.filename
      /\ cut(b.name, MAXNAMESIZE - 1) = b.name
      /\ cut(b.ip, MAXIPV4SIZE - 1) = b.ip
  BY <1>1, <1>2, <1>4, FieldSizes, Zenon
<1>6. Spelled(b)
  BY <1>1, <1>4, <1>5, Zenon DEF Spelled
<1> QED
  BY <1>3, <1>4, <1>5, <1>6, Packed, Zenon

\* The parts of such a string.
Parts(f, n, i, p) ==
  /\ f \in Seq(Chars) /\ n \in Seq(Chars) /\ i \in Seq(Chars) /\ p \in Ports
  /\ Len(f) \in 1..(MAXFILENAMESIZE - 1) /\ ~Contains(f, ":")
  /\ Len(n) \in 1..(MAXNAMESIZE - 1) /\ ~Contains(n, "@")
  /\ Len(i) \in 1..(MAXIPV4SIZE - 1) /\ ~Contains(i, ":")

\* unpack_from_infostring() finds parts that fit where they are.
LEMMA PartsRead ==
  ASSUME NEW f, NEW n, NEW i, NEW p, Parts(f, n, i, p)
  PROVE  sscanf(Line(f, n, i, p)) =
           [filename |-> f, name |-> n, ip |-> i, port |-> p]
<1>1. /\ f \in Seq(Chars) /\ n \in Seq(Chars) /\ i \in Seq(Chars) /\ p \in Ports
      /\ ~Contains(f, ":") /\ ~Contains(n, "@") /\ ~Contains(i, ":")
      /\ Len(f) \in 1..(MAXFILENAMESIZE - 1)
      /\ Len(n) \in 1..(MAXNAMESIZE - 1) /\ Len(i) \in 1..(MAXIPV4SIZE - 1)
  BY Zenon DEF Parts
<1>2. /\ Len(f) <= MAXFILENAMESIZE - 1 /\ Len(n) <= MAXNAMESIZE - 1
      /\ Len(i) <= MAXIPV4SIZE - 1
      /\ f # << >> /\ n # << >> /\ i # << >>
  BY <1>1, FieldSizes
<1> DEFINE address == Address(i, p)
           named == (n \o <<"@">>) \o address
           s == Line(f, n, i, p)
<1>3. address \in Seq(Chars) /\ Join(Chars, address, i, ":", <<p>>)
  <2>1. Join(Chars, address, i, ":", <<p>>)
    BY <1>1, Separators, Joined, Zenon DEF Address
  <2> QED
    BY <2>1, Zenon DEF Join
<1> HIDE DEF address
<1>4. named \in Seq(Chars) /\ Join(Chars, named, n, "@", address)
  <2>1. Join(Chars, named, n, "@", address)
    BY <1>1, <1>3, Separators, Joined, Zenon
  <2> QED
    BY <2>1, Zenon DEF Join
<1>5. s = (f \o <<":">>) \o named
  BY Zenon DEF Line, address
<1> HIDE DEF named
<1>6. Join(Chars, s, f, ":", named)
  BY <1>1, <1>4, <1>5, Separators, Joined, Zenon
<1> HIDE DEF s
<1>7. Reads(s, f, ":", named, MAXFILENAMESIZE - 1)
  <2>1. Field(Chars, s, f, ":", named, MAXFILENAMESIZE - 1)
    BY <1>1, <1>2, <1>4, <1>6, Separators, FieldSizes, Zenon DEF Field
  <2> QED
    BY <2>1, ScanField, Zenon
<1>8. Reads(named, n, "@", address, MAXNAMESIZE - 1)
  <2>1. Field(Chars, named, n, "@", address, MAXNAMESIZE - 1)
    BY <1>1, <1>2, <1>3, <1>4, Separators, FieldSizes, Zenon DEF Field
  <2> QED
    BY <2>1, ScanField, Zenon
<1>9. Reads(address, i, ":", <<p>>, MAXIPV4SIZE - 1)
  <2>1. Field(Chars, address, i, ":", <<p>>, MAXIPV4SIZE - 1)
    BY <1>1, <1>2, <1>3, Separators, FieldSizes, Zenon DEF Field
  <2> QED
    BY <2>1, ScanField, Zenon
<1>10. <<p>> # << >> /\ <<p>>[1] = p /\ p \in Ports
  BY <1>1
<1> DEFINE all == [filename |-> f, name |-> n, ip |-> i, port |-> p]
           reads == [filename |-> TRUE, name |-> TRUE, ip |-> TRUE,
                     port |-> TRUE]
<1>11. sscanf(s) = Restrict(all, {k \in DOMAIN all : reads[k]})
  BY <1>2, <1>7, <1>8, <1>9, <1>10 DEF sscanf, Reads
<1>12. {k \in DOMAIN all : reads[k]} = DOMAIN all
  OBVIOUS
<1>13. sscanf(s) = [k \in DOMAIN all |-> all[k]]
  BY <1>11, <1>12, Zenon DEF Restrict
<1>14. [k \in DOMAIN all |-> all[k]] = all
  OBVIOUS
<1> QED
  BY <1>13, <1>14 DEF s

\* A configuration that fits the format.
Fits(a) ==
  /\ Spelled(a) /\ WellFormed(a)
  /\ Len(a.ip) \in 1..(MAXIPV4SIZE - 1) /\ ~Contains(a.ip, ":")

\* unpack_from_infostring() gives back a configuration that fits.
LEMMA FieldsRead ==
  ASSUME NEW a, Fits(a),
         NEW N, a \in [filename : N, name : N, ip : N, port : Ports]
  PROVE  sscanf(pack_into_infostring(stored(a))) = a
<1>1. /\ Spelled(a) /\ Parts(a.filename, a.name, a.ip, a.port)
  BY Zenon DEF Fits, WellFormed, Spelled, Parts
<1>2. /\ a.filename \in Seq(Chars) /\ Len(a.filename) <= MAXFILENAMESIZE - 1
      /\ a.name \in Seq(Chars) /\ Len(a.name) <= MAXNAMESIZE - 1
      /\ a.ip \in Seq(Chars) /\ Len(a.ip) <= MAXIPV4SIZE - 1
  BY <1>1, FieldSizes DEF Parts
<1>3. /\ cut(a.filename, MAXFILENAMESIZE - 1) = a.filename
      /\ cut(a.name, MAXNAMESIZE - 1) = a.name
      /\ cut(a.ip, MAXIPV4SIZE - 1) = a.ip
  BY <1>2, FieldSizes, CutFacts, Zenon
<1>4. pack_into_infostring(stored(a)) = Line(a.filename, a.name, a.ip, a.port)
  BY <1>1, <1>3, PackedCopy, Zenon
<1>5. sscanf(pack_into_infostring(stored(a))) =
        [filename |-> a.filename, name |-> a.name, ip |-> a.ip, port |-> a.port]
  BY <1>1, <1>4, PartsRead, Zenon
<1>6. [filename |-> a.filename, name |-> a.name, ip |-> a.ip, port |-> a.port] = a
  OBVIOUS
<1> QED
  BY <1>5, <1>6, Zenon
=============================================================================
