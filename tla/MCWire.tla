------------------------------- MODULE MCWire -------------------------------
(***************************************************************************)
(* Bytes of four values, in integers that differ in each of their bytes.   *)
(* Two packets of any types; or one SEND packet with any file name of up   *)
(* to three and most names of up to four characters, a letter and both     *)
(* separators, in fields of two and three characters. The receiver's       *)
(* structure holds no file name and the name of an earlier packet.         *)
(***************************************************************************)
EXTENDS Wire

MCInfo(f, n) == [filename |-> f, name |-> n, ip |-> <<"a">>, port |-> "1"]
MCPlain == MCInfo(<<"x">>, <<"x", "y">>)

MCFields == {<<CAST, 0, 11>>, <<FLOW, 0, 11, 27, 54>>,
             <<SEND, 0, 11, 27, 6, 14>>, <<RECV, 0, 11, 27>>, <<RECV, 1, 6, 54>>}
MCPackets == {[fields |-> f, info |-> MCPlain] : f \in MCFields}

MCNames(n) == SeqOf({"x", ":", "@"}, n) \ {<< >>}
MCLongNames == {Append(n, "x") : n \in {m \in MCNames(3) : Len(m) = 3}}
MCAnyInfo == {[fields |-> <<SEND, 0, 11, 27, 6, 14>>, info |-> MCInfo(f, n)] :
                f \in MCNames(3), n \in MCNames(3) \union MCLongNames}

MCPlans == {<<p, q>> : p, q \in MCPackets} \union {<<p>> : p \in MCAnyInfo}

MCHeaders == {[filename |-> << >>, name |-> <<"z">>, ip |-> <<"c">>,
               port |-> "2"]}
=============================================================================
