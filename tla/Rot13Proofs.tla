----------------------------- MODULE Rot13Proofs -----------------------------
(***************************************************************************)
(* Proofs, for any peers, bytes and MAX_LINE, that what a peer gets from   *)
(* the rot13 server is the reply to what it sent, computed byte by byte,   *)
(* and no more of it than it paid for.  First come the types and what      *)
(* readcb() leaves; then the byte-by-byte reply, as a recursive function,  *)
(* and what one readcb() does to it; then where a connection can be; and   *)
(* last the replies, of which the other layers are the premises.           *)
(***************************************************************************)
EXTENDS Rot13Props, SeqLemmas, WellFoundedInduction

\* A bounded set of numbers has a maximum.
LEMMA MaxIsMember ==
    ASSUME NEW n \in Nat, NEW I \in SUBSET (1..n), I # {}
    PROVE  Max(I) \in I /\ \A j \in I : Max(I) >= j
<1> DEFINE R == {ss \in Nat \X Nat : ss[1] < ss[2]}
           T == {n - i : i \in I}
<1>1. \A x, y \in Nat : x < y => <<x, y>> \in R
  OBVIOUS
<1>2. T \subseteq Nat /\ T # {}
  <2>1. \A i \in I : i \in 1..n
    OBVIOUS
  <2>2. \A i \in I : n - i \in Nat
    BY <2>1, SMT
  <2>3. PICK i \in I : TRUE
    OBVIOUS
  <2>4. n - i \in T
    BY <2>3, Zenon
  <2>5. T \subseteq Nat
    BY <2>2, Zenon
  <2> QED BY <2>4, <2>5, Zenon
<1>3. \E x \in T : \A y \in T : <<y, x>> \notin R
  <2>1. IsWellFoundedOn(R, Nat)
    BY NatLessThanWellFounded DEF OpToRel
  <2> HIDE DEF R, T
  <2> QED BY <1>2, <2>1, WFMin
<1>4. PICK i \in I : \A y \in T : <<y, n - i>> \notin R
  BY <1>3
<1>5. \A j \in I : i >= j
  <2> SUFFICES ASSUME NEW j \in I, j > i PROVE FALSE
    OBVIOUS
  <2>1. n - j \in T /\ n - j \in Nat /\ n - i \in Nat /\ n - j < n - i
    OBVIOUS
  <2> QED BY <2>1, <1>1, <1>4
<1> QED BY <1>5 DEF Max

LEMMA MinOfTwo ==
    ASSUME NEW a \in Int, NEW b \in Int
    PROVE  Min({a, b}) \in Int /\ Min({a, b}) <= a /\ Min({a, b}) <= b
<1>1. \E x \in {a, b} : \A y \in {a, b} : x <= y
  OBVIOUS
<1>2. Min({a, b}) \in {a, b} /\ \A y \in {a, b} : Min({a, b}) <= y
  BY <1>1, Zenon DEF Min
<1> QED BY <1>2

NoLf(s) == \A i \in 1..Len(s) : s[i] # LF

\* LastLf() is the last line end of the buffer, or 0.
LEMMA LastLfInside ==
    ASSUME NEW s \in Seq(Byte)
    PROVE  /\ LastLf(s) \in 0..Len(s)
           /\ LastLf(s) # 0 => s[LastLf(s)] = LF
           /\ \A i \in 1..Len(s) : i > LastLf(s) => s[i] # LF
<1> DEFINE I == {i \in 1..Len(s) : s[i] = LF}
<1>1. LastLf(s) = IF I # {} THEN Max(I) ELSE 0
  BY DEF LastLf, SelectLastInSeq
<1>2. I \in SUBSET (1..Len(s)) /\ Len(s) \in Nat
  OBVIOUS
<1>3. \A i \in 1..Len(s) : s[i] = LF <=> i \in I
  OBVIOUS
<1> HIDE DEF I
<1>4. I # {} => Max(I) \in I /\ \A j \in I : Max(I) >= j
  BY <1>2, MaxIsMember
<1>5. CASE I = {}
  <2>1. LastLf(s) = 0
    BY <1>1, <1>5, Zenon
  <2> QED BY <2>1, <1>2, <1>3, <1>5
<1>6. CASE I # {}
  <2>1. LastLf(s) \in I /\ \A j \in I : LastLf(s) >= j
    BY <1>1, <1>4, <1>6, Zenon
  <2> DEFINE m == LastLf(s)
  <2> HIDE DEF m
  <2>2. m \in I /\ m \in 1..Len(s) /\ \A j \in I : m >= j
    BY <2>1, <1>2, Zenon DEF m
  <2>3. ASSUME NEW i \in 1..Len(s), i > m PROVE i \notin I
    <3> SUFFICES ASSUME i \in I PROVE FALSE
      OBVIOUS
    <3>1. m >= i
      BY <2>2
    <3> QED BY <1>2, <2>2, <2>3, <3>1
  <2>4. s[m] = LF /\ \A i \in 1..Len(s) : i > m => s[i] # LF
    BY <1>3, <2>2, <2>3
  <2>5. m \in 0..Len(s)
    BY <1>2, <2>2
  <2> QED BY <2>4, <2>5 DEF m
<1> QED BY <1>5, <1>6

\* What rot13() makes of bytes are bytes of a reply.
LEMMA Rot13Types ==
    ASSUME NEW s \in Seq(Byte) PROVE rot13(s) \in Seq(ReplyByte)
  BY DEF rot13, ReplyByte

\* readcb() leaves less than MAX_LINE bytes, whatever the buffer holds.
LEMMA ReadcbLeaves ==
    ASSUME NEW s \in Seq(Byte)
    PROVE  /\ readcb(s).keep \in Seq(Byte)
           /\ Len(readcb(s).keep) < MAX_LINE
           /\ readcb(s).add \in Seq(ReplyByte)
<1> DEFINE n == LastLf(s)
           lines == SubSeq(s, 1, n)
           rest == SubSeq(s, n + 1, Len(s))
<1>1. lines \in Seq(Byte) /\ rest \in Seq(Byte) /\ lines \o rest \in Seq(Byte)
  BY LastLfInside
<1>2. rot13(lines) \in Seq(ReplyByte) /\ rot13(lines \o rest) \in Seq(ReplyByte)
  BY <1>1, Rot13Types
<1>3. <<LF>> \in Seq(ReplyByte)
  BY DEF ReplyByte
<1>4. MAX_LINE \in Nat \ {0}
  BY Rot13Assumption DEF Rot13Assumption
<1> HIDE DEF n, lines, rest
<1>5. CASE Len(rest) >= MAX_LINE
  <2>1. readcb(s) = [keep |-> <<>>, add |-> rot13(lines \o rest) \o <<LF>>]
    BY <1>5 DEF readcb, n, lines, rest
  <2> QED BY <2>1, <1>2, <1>3, <1>4
<1>6. CASE ~(Len(rest) >= MAX_LINE)
  <2>1. readcb(s) = [keep |-> rest, add |-> rot13(lines)]
    BY <1>6 DEF readcb, n, lines, rest
  <2> QED BY <2>1, <1>1, <1>2, <1>4, <1>6
<1> QED BY <1>5, <1>6

-----------------------------------------------------------------------------

Rot13Inv == TypeOK /\ InputBelowWatermark

\* A callback keeps every type and leaves room in the input.
LEMMA ReadKeeps ==
    ASSUME Rot13Inv, NEW f \in FD, Read(f) PROVE Rot13Inv'
<1> DEFINE c == bev[f]
<1>1. c \in Client /\ input[f] \in Seq(Byte) /\ output[f] \in Seq(ReplyByte)
  BY DEF Rot13Inv, TypeOK, Read
<1>2. Unread(c) \in Seq(Byte)
  BY <1>1 DEF Rot13Inv, TypeOK, Unread
<1>3. PICK k \in 1..Min({Len(Unread(c)), Room(f)}) :
         /\ input' = [input EXCEPT ![f] =
                         readcb(input[f] \o SubSeq(Unread(c), 1, k)).keep]
         /\ output' = [output EXCEPT ![f] =
                         @ \o readcb(input[f] \o SubSeq(Unread(c), 1, k)).add]
         /\ nread' = [nread EXCEPT ![c] = @ + k]
  BY DEF Read
<1> DEFINE s == input[f] \o SubSeq(Unread(c), 1, k)
<1>4. k <= Len(Unread(c)) /\ k \in Nat \ {0}
  <2>1. Len(Unread(c)) \in Int /\ Room(f) \in Int
    BY <1>1, <1>2, Rot13Assumption DEF Rot13Assumption, Room
  <2> DEFINE a == Len(Unread(c))
             b == Room(f)
  <2> HIDE DEF a, b
  <2>2. Min({a, b}) \in Int /\ Min({a, b}) <= a
    BY <2>1, MinOfTwo DEF a, b
  <2>3. k \in 1..Min({a, b})
    BY DEF a, b
  <2> QED BY <2>2, <2>3, <2>1 DEF a
<1>5. s \in Seq(Byte)
  BY <1>1, <1>2, <1>4
<1> HIDE DEF c, s
<1> DEFINE r == readcb(s)
<1>6. r.keep \in Seq(Byte) /\ Len(r.keep) < MAX_LINE /\ r.add \in Seq(ReplyByte)
  BY <1>5, ReadcbLeaves
<1> HIDE DEF r
<1>7. /\ input' = [input EXCEPT ![f] = r.keep]
      /\ output' = [output EXCEPT ![f] = output[f] \o r.add]
      /\ nread' = [nread EXCEPT ![c] = nread[c] + k]
  BY <1>3 DEF r, s
<1>8. /\ input' \in [FD -> Seq(Byte)]
      /\ output' \in [FD -> Seq(ReplyByte)]
      /\ nread' \in [Client -> Nat]
  BY <1>1, <1>4, <1>6, <1>7 DEF Rot13Inv, TypeOK
<1>9. InputBelowWatermark'
  BY <1>6, <1>7 DEF Rot13Inv, TypeOK, InputBelowWatermark
<1> QED
  BY <1>8, <1>9 DEF Rot13Inv, TypeOK, Read

\* What libevent writes is taken from the front of the output.
LEMMA WriteKeeps ==
    ASSUME Rot13Inv, NEW f \in FD, Write(f) PROVE Rot13Inv'
<1>1. PICK k \in 1..Len(output[f]) :
         /\ got' = [got EXCEPT ![bev[f]] = @ \o SubSeq(output[f], 1, k)]
         /\ output' = [output EXCEPT ![f] = SubSeq(@, k + 1, Len(@))]
  BY DEF Write
<1>2. bev[f] \in Client /\ output[f] \in Seq(ReplyByte)
  BY DEF Rot13Inv, TypeOK, Write
<1>3. /\ SubSeq(output[f], 1, k) \in Seq(ReplyByte)
      /\ SubSeq(output[f], k + 1, Len(output[f])) \in Seq(ReplyByte)
  BY <1>2
<1>4. got' \in [Client -> Seq(ReplyByte)] /\ output' \in [FD -> Seq(ReplyByte)]
  BY <1>1, <1>2, <1>3 DEF Rot13Inv, TypeOK
<1> QED
  BY <1>4 DEF Rot13Inv, TypeOK, InputBelowWatermark, Write

\* The descriptors that accept() may return.
LEMMA FreeIsFD == TypeOK => FreeFds \subseteq FD
<1> SUFFICES ASSUME TypeOK PROVE 1..limit \subseteq FD
  BY DEF FreeFds
<1>1. limit \in Nat /\ limit <= MaxFd /\ MaxFd \in Nat
  BY Rot13Assumption DEF TypeOK, Rot13Assumption
<1> QED BY <1>1 DEF FD

LEMMA AcceptOrFreeKeeps ==
    ASSUME Rot13Inv, do_accept \/ \E f \in FD : errorcb(f) PROVE Rot13Inv'
<1>1. MAX_LINE > 0 /\ MAX_LINE \in Nat
  BY Rot13Assumption DEF Rot13Assumption
<1>2. CASE do_accept
  <2>1. Head(acceptq) \in Client /\ Tail(acceptq) \in Seq(Client)
    BY <1>2 DEF Rot13Inv, TypeOK, do_accept
  <2>2. FreeFds \subseteq FD
    BY FreeIsFD DEF Rot13Inv
  <2> QED
    BY <1>2, <2>1, <2>2 DEF do_accept, Rot13Inv, TypeOK, InputBelowWatermark
<1>3. ASSUME NEW f \in FD, errorcb(f) PROVE Rot13Inv'
  <2>1. TypeOK'
    BY <1>3 DEF errorcb, bufferevent_free, Rot13Inv, TypeOK
  <2>2. InputBelowWatermark'
    BY <1>1, <1>3
    DEF errorcb, bufferevent_free, Rot13Inv, TypeOK, InputBelowWatermark
  <2> QED BY <2>1, <2>2 DEF Rot13Inv
<1> QED BY <1>2, <1>3

LEMMA PeerKeeps ==
    ASSUME Rot13Inv, NEW c \in Client, Peer(c) PROVE Rot13Inv'
<1>1. CASE Connect(c)
  BY <1>1 DEF Connect, Rot13Inv, TypeOK, InputBelowWatermark
<1>2. ASSUME NEW b \in Byte, Send(c, b) PROVE Rot13Inv'
  <2>1. /\ sent' = [sent EXCEPT ![c] = Append(@, b)]
        /\ UNCHANGED <<acceptq, bev, input, output, nread, got, ended, limit>>
    BY <1>2, Zenon DEF Send
  <2> QED
    BY <2>1 DEF Rot13Inv, TypeOK, InputBelowWatermark
<1>3. ASSUME NEW how \in {"eof", "rst"}, End(c, how) PROVE Rot13Inv'
  BY <1>3 DEF End, Rot13Inv, TypeOK, InputBelowWatermark
<1> QED BY <1>1, <1>2, <1>3 DEF Peer

\* Every reachable state has its types and room in every input buffer.
THEOREM Rot13Invariant == Spec => []Rot13Inv
<1>1. Init => Rot13Inv
  BY Rot13Assumption
  DEF Rot13Assumption, Init, Rot13Inv, TypeOK, InputBelowWatermark
<1>2. Rot13Inv /\ [Next]_vars => Rot13Inv'
  <2> SUFFICES ASSUME Rot13Inv, [Next]_vars PROVE Rot13Inv'
    OBVIOUS
  <2>1. CASE UNCHANGED vars \/ do_acceptFails
    BY <2>1 DEF do_acceptFails, vars, Rot13Inv, TypeOK, InputBelowWatermark
  <2> QED
    BY <2>1, ReadKeeps, WriteKeeps, AcceptOrFreeKeeps, PeerKeeps DEF Next
<1> QED BY <1>1, <1>2, PTL DEF Spec

\* No byte that was not rotated leaves the server, and no buffer mixes types.
THEOREM OnlyRot13Leaves == Spec => []TypeOK
  BY Rot13Invariant, PTL DEF Rot13Inv

\* After every callback libevent may read again, for every MAX_LINE.
THEOREM NeverStopsReading == Spec => []InputBelowWatermark
  BY Rot13Invariant, PTL DEF Rot13Inv

-----------------------------------------------------------------------------
(* Answer() is computed byte by byte, for streams of any length.           *)

\* Induction over a set of numbers.
LEMMA NatSetInduction ==
    ASSUME NEW S \in SUBSET Nat, 0 \in S, \A n \in S : n + 1 \in S
    PROVE  S = Nat
<1> DEFINE R == {ss \in Nat \X Nat : ss[1] < ss[2]}
           T == Nat \ S
<1>1. \A x, y \in Nat : x < y => <<x, y>> \in R
  OBVIOUS
<1>2. SUFFICES ASSUME T # {} PROVE FALSE
  OBVIOUS
<1>3. \E x \in T : \A y \in T : <<y, x>> \notin R
  <2>1. IsWellFoundedOn(R, Nat)
    BY NatLessThanWellFounded DEF OpToRel
  <2>2. T \subseteq Nat
    OBVIOUS
  <2> HIDE DEF R, T
  <2> QED BY <1>2, <2>1, <2>2, WFMin
<1>4. PICK x \in T : \A y \in T : <<y, x>> \notin R
  BY <1>3
<1>5. x \in Nat \ {0}
  OBVIOUS
<1>6. x - 1 \in Nat /\ x - 1 < x /\ x = (x - 1) + 1
  BY <1>5
<1>7. x - 1 \notin T
  BY <1>1, <1>4, <1>5, <1>6
<1>8. x - 1 \in S
  BY <1>6, <1>7
<1>9. x \in S
  BY <1>6, <1>8
<1> QED BY <1>9

AnswerState == [line : Seq(Byte), reply : Seq(ReplyByte)]

NoAnswer == [line |-> <<>>, reply |-> <<>>]

LEMMA AnswerByteTypes ==
    ASSUME NEW a \in AnswerState, NEW b \in Byte
    PROVE  AnswerByte(a, b) \in AnswerState
<1>1. a.line \in Seq(Byte) /\ a.reply \in Seq(ReplyByte) /\ Append(a.line, b) \in Seq(Byte)
  BY DEF AnswerState
<1>2. rot13(a.line) \in Seq(ReplyByte) /\ rot13(Append(a.line, b)) \in Seq(ReplyByte)
  BY <1>1, Rot13Types
<1>3. <<LF>> \in Seq(ReplyByte)
  BY DEF ReplyByte
<1>4. /\ a.reply \o rot13(a.line) \o <<LF>> \in Seq(ReplyByte)
      /\ a.reply \o rot13(Append(a.line, b)) \o <<LF>> \in Seq(ReplyByte)
  <2> HIDE DEF LF
  <2> QED BY <1>1, <1>2, <1>3
<1>5. [a EXCEPT !.line = Append(@, b)] \in AnswerState
  BY <1>1 DEF AnswerState
<1>6. /\ [line |-> <<>>, reply |-> a.reply \o rot13(a.line) \o <<LF>>] \in AnswerState
      /\ [line |-> <<>>, reply |-> a.reply \o rot13(Append(a.line, b)) \o <<LF>>]
            \in AnswerState
  BY <1>4 DEF AnswerState
<1> QED BY <1>5, <1>6, Zenon DEF AnswerByte

\* g is the run of AnswerByte over the first n bytes of s.
IsRun(g, s, n) ==
    /\ g \in [0..n -> AnswerState]
    /\ g[0] = NoAnswer
    /\ \A i \in 1..n : g[i] = AnswerByte(g[i - 1], s[i])

\* Such a run exists.
LEMMA RunExists ==
    ASSUME NEW s \in Seq(Byte)
    PROVE  \A n \in Nat : n <= Len(s) => \E g : IsRun(g, s, n)
<1> DEFINE S == {n \in Nat : n <= Len(s) => \E g : IsRun(g, s, n)}
<1>1. 0 \in S
  <2>1. IsRun([i \in 0..0 |-> NoAnswer], s, 0)
    BY DEF IsRun, NoAnswer, AnswerState
  <2> QED BY <2>1
<1>2. ASSUME NEW n \in S PROVE n + 1 \in S
  <2> SUFFICES ASSUME n + 1 <= Len(s) PROVE \E g : IsRun(g, s, n + 1)
    OBVIOUS
  <2>1. n \in Nat /\ Len(s) \in Nat
    OBVIOUS
  <2>2. PICK g : IsRun(g, s, n)
    BY <2>1
  <2> DEFINE x == AnswerByte(g[n], s[n + 1])
             h == [i \in 0..(n + 1) |-> IF i = n + 1 THEN x ELSE g[i]]
  <2>3. x \in AnswerState
    <3>1. g[n] \in AnswerState /\ s[n + 1] \in Byte
      BY <2>1, <2>2 DEF IsRun
    <3> QED BY <3>1, AnswerByteTypes
  <2>4. \A i \in 0..n : h[i] = g[i] /\ g[i] \in AnswerState
    BY <2>1, <2>2 DEF IsRun
  <2>5. h[n + 1] = x
    BY <2>1
  <2>6. h \in [0..(n + 1) -> AnswerState]
    <3> HIDE DEF x
    <3> QED BY <2>1, <2>3, <2>2 DEF IsRun
  <2> HIDE DEF h
  <2>7. h[0] = NoAnswer
    BY <2>1, <2>2, <2>4 DEF IsRun
  <2>8. ASSUME NEW i \in 1..(n + 1) PROVE h[i] = AnswerByte(h[i - 1], s[i])
    <3>1. CASE i = n + 1
      <4>1. i - 1 = n /\ h[n] = g[n]
        BY <2>1, <2>4, <3>1
      <4> QED BY <2>5, <3>1, <4>1
    <3>2. CASE i # n + 1
      <4>1. i \in 1..n /\ i \in 0..n /\ i - 1 \in 0..n
        BY <2>1, <3>2
      <4>2. h[i] = g[i] /\ h[i - 1] = g[i - 1]
        BY <2>4, <4>1
      <4>3. g[i] = AnswerByte(g[i - 1], s[i])
        BY <2>2, <4>1 DEF IsRun
      <4> QED BY <4>2, <4>3
    <3> QED BY <3>1, <3>2
  <2> QED BY <2>6, <2>7, <2>8 DEF IsRun
<1>3. S = Nat
  <2> HIDE DEF S
  <2>1. S \in SUBSET Nat
    BY DEF S
  <2> QED BY <1>1, <1>2, <2>1, NatSetInduction
<1> QED BY <1>3

\* AnswerAfter(s) is the run over s.
LEMMA AnswerAfterIsRun ==
    ASSUME NEW s \in Seq(Byte) PROVE IsRun(AnswerAfter(s), s, Len(s))
<1> DEFINE Def(g) == [i \in 0..Len(s) |->
                        IF i = 0 THEN NoAnswer ELSE AnswerByte(g[i - 1], s[i])]
           h == AnswerAfter(s)
<1>1. Len(s) \in Nat
  OBVIOUS
<1>2. PICK g : IsRun(g, s, Len(s))
  BY <1>1, RunExists
<1>3. g = Def(g)
  <2>1. g = [i \in 0..Len(s) |-> g[i]]
    BY <1>2 DEF IsRun
  <2>2. \A i \in 0..Len(s) :
           g[i] = IF i = 0 THEN NoAnswer ELSE AnswerByte(g[i - 1], s[i])
    BY <1>1, <1>2 DEF IsRun
  <2> QED BY <2>1, <2>2
<1>4. h = CHOOSE x : x = Def(x)
  BY Zenon DEF AnswerAfter, NoAnswer
<1>5. h = Def(h)
  <2> HIDE DEF Def, h
  <2> QED BY <1>3, <1>4
<1>6. /\ DOMAIN h = 0..Len(s)
      /\ h[0] = NoAnswer
      /\ \A i \in 1..Len(s) : h[i] = AnswerByte(h[i - 1], s[i])
  <2> HIDE DEF h
  <2>1. \A i \in 0..Len(s) : h[i] =
           IF i = 0 THEN NoAnswer ELSE AnswerByte(h[i - 1], s[i])
    BY <1>5
  <2> QED BY <1>1, <1>5, <2>1
<1>7. h = [i \in 0..Len(s) |-> h[i]]
  BY <1>5
<1> HIDE DEF h, Def
<1> DEFINE S == {n \in Nat : n <= Len(s) => h[n] \in AnswerState}
<1>8. S = Nat
  <2>1. 0 \in S
    <3>1. NoAnswer \in AnswerState
      BY DEF NoAnswer, AnswerState
    <3> QED BY <1>6, <3>1
  <2>2. ASSUME NEW n \in S PROVE n + 1 \in S
    <3> SUFFICES ASSUME n + 1 <= Len(s) PROVE h[n + 1] \in AnswerState
      OBVIOUS
    <3>1. n \in Nat /\ n + 1 \in 1..Len(s) /\ h[n] \in AnswerState /\ (n + 1) - 1 = n
      BY <1>1
    <3>2. h[n + 1] = AnswerByte(h[n], s[n + 1]) /\ s[n + 1] \in Byte
      BY <1>6, <3>1
    <3> QED BY <3>1, <3>2, AnswerByteTypes
  <2>3. S \in SUBSET Nat
    OBVIOUS
  <2> HIDE DEF S
  <2> QED BY <2>1, <2>2, <2>3, NatSetInduction
<1>9. h \in [0..Len(s) -> AnswerState]
  <2>1. \A i \in 0..Len(s) : h[i] \in AnswerState
    BY <1>1, <1>8
  <2> QED BY <1>7, <2>1
<1> QED BY <1>6, <1>9 DEF IsRun, h

\* The answer to a stream that grew by a byte.
LEMMA AnswerGrows ==
    /\ Answer(<<>>) = NoAnswer
    /\ \A s \in Seq(Byte) :
          /\ Answer(s) \in AnswerState
          /\ \A b \in Byte : Answer(Append(s, b)) = AnswerByte(Answer(s), b)
<1>1. Answer(<<>>) = NoAnswer
  <2>1. <<>> \in Seq(Byte) /\ Len(<<>>) = 0
    OBVIOUS
  <2> QED BY <2>1, AnswerAfterIsRun DEF IsRun, Answer
<1>2. ASSUME NEW s \in Seq(Byte) PROVE Answer(s) \in AnswerState
  <2>1. Len(s) \in 0..Len(s)
    OBVIOUS
  <2> QED BY <2>1, AnswerAfterIsRun DEF IsRun, Answer
<1>3. ASSUME NEW s \in Seq(Byte), NEW b \in Byte
      PROVE  Answer(Append(s, b)) = AnswerByte(Answer(s), b)
  <2> DEFINE t == Append(s, b)
             n == Len(s)
             g == AnswerAfter(s)
             h == AnswerAfter(t)
  <2>1. /\ t \in Seq(Byte) /\ n \in Nat /\ Len(t) = n + 1
        /\ \A i \in 1..n : t[i] = s[i]
        /\ t[n + 1] = b
    OBVIOUS
  <2>2. IsRun(g, s, n) /\ IsRun(h, t, n + 1)
    BY <2>1, AnswerAfterIsRun
  <2> HIDE DEF t, n, g, h
  <2> DEFINE S == {k \in Nat : k <= n => h[k] = g[k]}
  <2>3. S = Nat
    <3>1. 0 \in S
      BY <2>2 DEF IsRun
    <3>2. ASSUME NEW k \in S PROVE k + 1 \in S
      <4> SUFFICES ASSUME k + 1 <= n PROVE h[k + 1] = g[k + 1]
        OBVIOUS
      <4>1. k \in Nat /\ k + 1 \in 1..n /\ k + 1 \in 1..(n + 1) /\ (k + 1) - 1 = k
        BY <2>1
      <4>2. h[k] = g[k] /\ t[k + 1] = s[k + 1]
        BY <2>1, <4>1
      <4>3. h[k + 1] = AnswerByte(h[k], t[k + 1])
        BY <2>2, <4>1 DEF IsRun
      <4>4. g[k + 1] = AnswerByte(g[k], s[k + 1])
        BY <2>2, <4>1 DEF IsRun
      <4> QED BY <4>2, <4>3, <4>4
    <3>3. S \in SUBSET Nat
      OBVIOUS
    <3> HIDE DEF S
    <3> QED BY <3>1, <3>2, <3>3, NatSetInduction
  <2>4. h[n] = g[n]
    BY <2>1, <2>3
  <2>5. n + 1 \in 1..(n + 1) /\ (n + 1) - 1 = n
    BY <2>1
  <2>6. h[n + 1] = AnswerByte(h[n], t[n + 1])
    BY <2>2, <2>5 DEF IsRun
  <2>7. Answer(t) = h[n + 1] /\ Answer(s) = g[n]
    BY <2>1, Zenon DEF Answer, g, h, n
  <2> QED BY <2>1, <2>4, <2>6, <2>7 DEF t
<1> QED BY <1>1, <1>2, <1>3

-----------------------------------------------------------------------------
(* readcb() on a chunk does what Answer() does byte by byte.               *)

LEMMA LastLfUnique ==
    ASSUME NEW s \in Seq(Byte), NEW n \in 0..Len(s),
           n # 0 => s[n] = LF,
           \A i \in 1..Len(s) : i > n => s[i] # LF
    PROVE  LastLf(s) = n
<1> DEFINE m == LastLf(s)
<1>1. /\ m \in 0..Len(s) /\ Len(s) \in Nat
      /\ m # 0 => s[m] = LF
      /\ \A i \in 1..Len(s) : i > m => s[i] # LF
  BY LastLfInside
<1> HIDE DEF m
<1>2. ~(m < n) /\ ~(n < m)
  BY <1>1
<1> QED BY <1>1, <1>2 DEF m

LEMMA Rot13Concat ==
    ASSUME NEW s \in Seq(Byte), NEW t \in Seq(Byte)
    PROVE  rot13(s \o t) = rot13(s) \o rot13(t)
<1>1. /\ s \o t \in Seq(Byte) /\ Len(s \o t) = Len(s) + Len(t)
      /\ Len(s) \in Nat /\ Len(t) \in Nat
  OBVIOUS
<1>2. ASSUME NEW v \in Seq(Byte)
      PROVE  /\ rot13(v) \in Seq(ReplyByte)
             /\ Len(rot13(v)) = Len(v)
             /\ \A i \in 1..Len(v) : rot13(v)[i] = rot13_char(v[i])
  BY Rot13Types DEF rot13
<1>3. /\ Len(rot13(s) \o rot13(t)) = Len(s) + Len(t)
      /\ rot13(s) \o rot13(t) \in Seq(ReplyByte)
  <2>1. /\ rot13(s) \in Seq(ReplyByte) /\ rot13(t) \in Seq(ReplyByte)
        /\ Len(rot13(s)) = Len(s) /\ Len(rot13(t)) = Len(t)
    BY <1>2
  <2> HIDE DEF rot13
  <2>2. /\ Len(rot13(s) \o rot13(t)) = Len(rot13(s)) + Len(rot13(t))
        /\ rot13(s) \o rot13(t) \in Seq(ReplyByte)
    BY <2>1, ConcatProperties, Zenon
  <2> QED BY <2>1, <2>2, Zenon
<1>4. ASSUME NEW i \in 1..(Len(s) + Len(t))
      PROVE  rot13(s \o t)[i] = (rot13(s) \o rot13(t))[i]
  <2>1. rot13(s \o t)[i] = rot13_char((s \o t)[i])
    BY <1>1, <1>2
  <2>2. CASE i <= Len(s)
    <3>1. (s \o t)[i] = s[i] /\ i \in 1..Len(s)
      BY <1>1, <2>2
    <3>2. (rot13(s) \o rot13(t))[i] = rot13(s)[i]
      BY <1>1, <1>2, <2>2
    <3> QED BY <1>2, <2>1, <3>1, <3>2
  <2>3. CASE ~(i <= Len(s))
    <3>1. (s \o t)[i] = t[i - Len(s)] /\ i - Len(s) \in 1..Len(t)
      BY <1>1, <2>3
    <3>2. (rot13(s) \o rot13(t))[i] = rot13(t)[i - Len(s)]
      BY <1>1, <1>2, <2>3
    <3> QED BY <1>2, <2>1, <3>1, <3>2
  <2> QED BY <2>2, <2>3
<1>5. rot13(s \o t) \in Seq(ReplyByte) /\ Len(rot13(s \o t)) = Len(s) + Len(t)
  BY <1>1, <1>2
<1> HIDE DEF rot13
<1> QED BY <1>3, <1>4, <1>5, SeqEqual

\* readcb() in terms of the parts of the buffer.
LEMMA ReadcbParts ==
    ASSUME NEW s \in Seq(Byte)
    PROVE  \E lines, rest \in Seq(Byte) :
              /\ s = lines \o rest
              /\ Len(lines) = LastLf(s)
              /\ NoLf(rest)
              /\ Len(s) = Len(lines) + Len(rest)
              /\ Len(rest) >= MAX_LINE =>
                    readcb(s) = [keep |-> <<>>, add |-> rot13(lines \o rest) \o <<LF>>]
              /\ Len(rest) < MAX_LINE =>
                    readcb(s) = [keep |-> rest, add |-> rot13(lines)]
<1> DEFINE n == LastLf(s)
           lines == SubSeq(s, 1, n)
           rest == SubSeq(s, n + 1, Len(s))
<1>1. /\ n \in 0..Len(s) /\ Len(s) \in Nat
      /\ \A i \in 1..Len(s) : i > n => s[i] # LF
  BY LastLfInside
<1>2. readcb(s) = IF Len(rest) >= MAX_LINE
                  THEN [keep |-> <<>>, add |-> rot13(lines \o rest) \o <<LF>>]
                  ELSE [keep |-> rest, add |-> rot13(lines)]
  BY Zenon DEF readcb
<1> HIDE DEF n
<1>3. /\ lines \in Seq(Byte) /\ rest \in Seq(Byte)
      /\ Len(lines) = n /\ Len(rest) = Len(s) - n
      /\ \A i \in 1..(Len(s) - n) : rest[i] = s[i + n]
      /\ \A i \in 1..n : lines[i] = s[i]
  BY <1>1
<1> HIDE DEF lines, rest
<1>4. s = lines \o rest
  <2>1. /\ lines \o rest \in Seq(Byte) /\ Len(lines \o rest) = Len(s)
        /\ \A i \in 1..Len(s) : (lines \o rest)[i] =
              IF i <= n THEN lines[i] ELSE rest[i - n]
    BY <1>1, <1>3
  <2>2. \A i \in 1..Len(s) : (lines \o rest)[i] = s[i]
    BY <1>1, <1>3, <2>1
  <2> QED BY <2>1, <2>2, SeqEqual
<1>5. NoLf(rest)
  BY <1>1, <1>3 DEF NoLf
<1>6. Len(rest) \in Nat /\ MAX_LINE \in Nat
  BY <1>3, Rot13Assumption DEF Rot13Assumption
<1>7. Len(s) = Len(lines) + Len(rest)
  BY <1>1, <1>3
<1>8. /\ Len(rest) >= MAX_LINE =>
             readcb(s) = [keep |-> <<>>, add |-> rot13(lines \o rest) \o <<LF>>]
      /\ Len(rest) < MAX_LINE => readcb(s) = [keep |-> rest, add |-> rot13(lines)]
  <2>1. Len(rest) < MAX_LINE => ~(Len(rest) >= MAX_LINE)
    BY <1>6
  <2> QED BY <1>2, <2>1, Zenon
<1> QED BY <1>3, <1>4, <1>5, <1>7, <1>8 DEF n

\* The incomplete line that readcb() keeps has no line end in it.
LEMMA ReadcbKeepsOneLine ==
    ASSUME NEW s \in Seq(Byte) PROVE NoLf(readcb(s).keep)
<1>1. PICK lines, rest \in Seq(Byte) :
              /\ NoLf(rest)
              /\ Len(rest) >= MAX_LINE =>
                    readcb(s) = [keep |-> <<>>, add |-> rot13(lines \o rest) \o <<LF>>]
              /\ Len(rest) < MAX_LINE =>
                    readcb(s) = [keep |-> rest, add |-> rot13(lines)]
  BY ReadcbParts, Zenon
<1>2. readcb(s).keep = <<>> \/ readcb(s).keep = rest
  BY <1>1, Rot13Assumption DEF Rot13Assumption
<1> QED BY <1>1, <1>2 DEF NoLf

\* A buffer that holds the beginning of a line is left alone.
LEMMA ReadcbWaits ==
    ASSUME NEW s \in Seq(Byte), NoLf(s), Len(s) < MAX_LINE
    PROVE  readcb(s) = [keep |-> s, add |-> <<>>]
<1>1. LastLf(s) = 0
  BY LastLfInside DEF NoLf
<1>2. PICK lines, rest \in Seq(Byte) :
              /\ s = lines \o rest
              /\ Len(lines) = LastLf(s)
              /\ Len(s) = Len(lines) + Len(rest)
              /\ Len(rest) < MAX_LINE =>
                    readcb(s) = [keep |-> rest, add |-> rot13(lines)]
  BY ReadcbParts, Zenon
<1>3. lines = <<>>
  BY <1>1, <1>2
<1>4. s = rest
  BY <1>2, <1>3
<1>5. rot13(<<>>) = <<>>
  BY DEF rot13
<1> QED BY <1>2, <1>3, <1>4, <1>5

\* A byte more in the buffer is a byte more for Answer().
LEMMA ReadcbByte ==
    ASSUME NEW s \in Seq(Byte), NEW b \in Byte, NEW p \in Seq(ReplyByte),
           Len(s) < MAX_LINE
    PROVE  AnswerByte([line |-> readcb(s).keep, reply |-> p \o readcb(s).add], b) =
           [line |-> readcb(Append(s, b)).keep,
            reply |-> p \o readcb(Append(s, b)).add]
<1> DEFINE t == Append(s, b)
<1>1. PICK lines, rest \in Seq(Byte) :
              /\ s = lines \o rest
              /\ Len(lines) = LastLf(s)
              /\ NoLf(rest)
              /\ Len(s) = Len(lines) + Len(rest)
              /\ Len(rest) < MAX_LINE =>
                    readcb(s) = [keep |-> rest, add |-> rot13(lines)]
  BY ReadcbParts, Zenon
<1>2. /\ MAX_LINE \in Nat \ {0} /\ Len(s) \in Nat
      /\ Len(lines) \in Nat /\ Len(rest) \in Nat
  BY Rot13Assumption DEF Rot13Assumption
<1>3. readcb(s).keep = rest /\ readcb(s).add = rot13(lines)
  BY <1>1, <1>2
<1>4. /\ t \in Seq(Byte) /\ Len(t) = Len(s) + 1
      /\ \A i \in 1..Len(s) : t[i] = s[i]
      /\ t[Len(s) + 1] = b
  OBVIOUS
<1>5. /\ LastLf(s) \in 0..Len(s)
      /\ LastLf(s) # 0 => s[LastLf(s)] = LF
      /\ \A i \in 1..Len(s) : i > LastLf(s) => s[i] # LF
  BY LastLfInside
<1> HIDE DEF t
<1>6. PICK lines2, rest2 \in Seq(Byte) :
              /\ t = lines2 \o rest2
              /\ Len(lines2) = LastLf(t)
              /\ Len(t) = Len(lines2) + Len(rest2)
              /\ Len(rest2) >= MAX_LINE =>
                    readcb(t) = [keep |-> <<>>, add |-> rot13(lines2 \o rest2) \o <<LF>>]
              /\ Len(rest2) < MAX_LINE =>
                    readcb(t) = [keep |-> rest2, add |-> rot13(lines2)]
  BY <1>4, ReadcbParts, Zenon
<1>7. rot13(lines) \in Seq(ReplyByte) /\ rot13(rest) \in Seq(ReplyByte)
  BY Rot13Types
<1>8. <<LF>> \in Seq(ReplyByte) /\ rot13(<<LF>>) = <<LF>>
  <2>1. <<LF>> \in Seq(ReplyByte)
    BY DEF ReplyByte
  <2>2. rot13_char(LF) = LF
    BY DEF rot13_char, LF
  <2>3. DOMAIN <<LF>> = {1} /\ <<LF>>[1] = LF
    OBVIOUS
  <2>4. rot13(<<LF>>) = [i \in {1} |-> LF]
    <3>1. rot13(<<LF>>) = [i \in {1} |-> rot13_char(<<LF>>[i])]
      BY <2>3 DEF rot13
    <3>2. \A i \in {1} : rot13_char(<<LF>>[i]) = LF
      BY <2>2, <2>3
    <3> QED BY <3>1, <3>2, Zenon
  <2>5. <<LF>> = [i \in {1} |-> LF]
    OBVIOUS
  <2> QED BY <2>1, <2>4, <2>5
<1>9. CASE b = LF
  <2>1. LastLf(t) = Len(t)
    <3>1. Len(t) \in 0..Len(t) /\ t[Len(t)] = LF
      BY <1>4, <1>9
    <3>2. \A i \in 1..Len(t) : ~(i > Len(t))
      BY <1>4
    <3> QED BY <1>4, <3>1, <3>2, LastLfUnique
  <2>2. rest2 = <<>> /\ Len(rest2) = 0
    BY <1>4, <1>6, <2>1
  <2>3. lines2 = t
    BY <1>6, <2>2
  <2>4. readcb(t).keep = <<>> /\ readcb(t).add = rot13(t)
    <3>1. Len(rest2) < MAX_LINE
      BY <2>2, <1>2
    <3> QED BY <3>1, <1>6, <2>2, <2>3
  <2>5. t = (lines \o rest) \o <<LF>>
    <3>1. t = s \o <<b>>
      BY <1>4 DEF t
    <3> QED BY <3>1, <1>1, <1>9
  <2>6. rot13(t) = (rot13(lines) \o rot13(rest)) \o <<LF>>
    <3>1. /\ lines \o rest \in Seq(Byte) /\ <<LF>> \in Seq(Byte)
      BY <1>9, ConcatProperties
    <3>2. rot13((lines \o rest) \o <<LF>>) = rot13(lines \o rest) \o rot13(<<LF>>)
      BY <3>1, Rot13Concat
    <3>3. rot13(lines \o rest) = rot13(lines) \o rot13(rest)
      BY Rot13Concat
    <3> QED BY <2>5, <3>2, <3>3, <1>8, Zenon
  <2>7. p \o rot13(t) = ((p \o rot13(lines)) \o rot13(rest)) \o <<LF>>
    <3> DEFINE x == rot13(lines)
               y == rot13(rest)
               z == <<LF>>
    <3>1. x \in Seq(ReplyByte) /\ y \in Seq(ReplyByte) /\ z \in Seq(ReplyByte)
      BY <1>7, <1>8
    <3> HIDE DEF x, y, z
    <3>2. p \o ((x \o y) \o z) = ((p \o x) \o y) \o z
      BY <3>1, SMTT(40)
    <3> QED BY <3>2, <2>6, Zenon DEF x, y, z
  <2>8. AnswerByte([line |-> rest, reply |-> p \o rot13(lines)], b) =
        [line |-> <<>>, reply |-> ((p \o rot13(lines)) \o rot13(rest)) \o <<LF>>]
    BY <1>9 DEF AnswerByte
  <2> QED BY <1>3, <2>4, <2>7, <2>8, Zenon DEF t
<1>10. CASE b # LF
  <2>1. LastLf(t) = Len(lines)
    <3>1. Len(lines) \in 0..Len(t)
      BY <1>1, <1>2, <1>4
    <3>2. Len(lines) # 0 => t[Len(lines)] = LF
      BY <1>1, <1>2, <1>4, <1>5
    <3>3. \A i \in 1..Len(t) : i > Len(lines) => t[i] # LF
      <4> SUFFICES ASSUME NEW i \in 1..Len(t), i > Len(lines) PROVE t[i] # LF
        OBVIOUS
      <4>1. CASE i = Len(s) + 1
        BY <1>4, <1>10, <4>1
      <4>2. CASE i # Len(s) + 1
        <5>1. i \in 1..Len(s) /\ i > LastLf(s)
          BY <1>1, <1>2, <1>4, <4>2
        <5> QED BY <1>4, <1>5, <5>1
      <4> QED BY <4>1, <4>2
    <3> QED BY <1>4, <3>1, <3>2, <3>3, LastLfUnique
  <2>2. Len(lines2) = Len(lines) /\ Len(rest2) = Len(rest) + 1
    BY <1>1, <1>2, <1>4, <1>6, <2>1
  <2> DEFINE w == Append(rest, b)
  <2>3. /\ w \in Seq(Byte) /\ Len(w) = Len(rest) + 1
        /\ \A i \in 1..Len(rest) : w[i] = rest[i]
        /\ w[Len(rest) + 1] = b
    OBVIOUS
  <2>4. t = lines \o w
    <3>1. /\ lines \o w \in Seq(Byte) /\ Len(lines \o w) = Len(t)
          /\ \A i \in 1..Len(t) : (lines \o w)[i] =
                IF i <= Len(lines) THEN lines[i] ELSE w[i - Len(lines)]
      <4> HIDE DEF w
      <4> QED BY <1>1, <1>2, <1>4, <2>3, ConcatProperties, SMTT(40)
    <3>2. \A i \in 1..Len(s) : s[i] =
             IF i <= Len(lines) THEN lines[i] ELSE rest[i - Len(lines)]
      BY <1>1, ConcatProperties
    <3> HIDE DEF w
    <3>3. ASSUME NEW i \in 1..Len(t) PROVE t[i] = (lines \o w)[i]
      <4>1. CASE i = Len(s) + 1
        <5>1. ~(i <= Len(lines)) /\ i - Len(lines) = Len(rest) + 1
          BY <1>1, <1>2, <4>1
        <5> QED BY <1>4, <2>3, <3>1, <4>1, <5>1
      <4>2. CASE i # Len(s) + 1
        <5>1. i \in 1..Len(s)
          BY <1>2, <1>4, <4>2
        <5>2. ~(i <= Len(lines)) => i - Len(lines) \in 1..Len(rest)
          BY <1>1, <1>2, <5>1
        <5> QED BY <1>4, <2>3, <3>1, <3>2, <5>1, <5>2
      <4> QED BY <4>1, <4>2
    <3> QED BY <1>4, <3>1, <3>3, SeqEqual
  <2> HIDE DEF w
  <2>5. lines2 = lines
    <3>1. /\ \A i \in 1..Len(lines2) : (lines2 \o rest2)[i] = lines2[i]
          /\ \A i \in 1..Len(lines) : (lines \o w)[i] = lines[i]
      BY <2>3
    <3>2. \A i \in 1..Len(lines) : lines2[i] = lines[i]
      BY <1>6, <2>2, <2>4, <3>1
    <3> QED BY <2>2, <3>2, SeqEqual
  <2>6. rest2 = w
    <3>1. /\ \A i \in 1..Len(rest2) : (lines2 \o rest2)[i + Len(lines2)] = rest2[i]
          /\ \A i \in 1..Len(w) : (lines \o w)[i + Len(lines)] = w[i]
      BY <2>3
    <3>2. \A i \in 1..Len(w) : rest2[i] = w[i]
      BY <1>6, <2>2, <2>3, <2>4, <3>1
    <3> QED BY <2>2, <2>3, <3>2, SeqEqual
  <2>7. CASE Len(rest) + 1 < MAX_LINE
    <3>1. readcb(t).keep = w /\ readcb(t).add = rot13(lines)
      BY <1>6, <2>2, <2>5, <2>6, <2>7
    <3>2. AnswerByte([line |-> rest, reply |-> p \o rot13(lines)], b) =
          [line |-> w, reply |-> p \o rot13(lines)]
      BY <1>10, <2>7 DEF AnswerByte, w
    <3> QED BY <1>3, <3>1, <3>2, Zenon DEF t
  <2>8. CASE ~(Len(rest) + 1 < MAX_LINE)
    <3>1. Len(rest2) >= MAX_LINE
      BY <1>2, <2>2, <2>8
    <3>2. readcb(t).keep = <<>> /\ readcb(t).add = rot13(lines \o w) \o <<LF>>
      BY <1>6, <2>5, <2>6, <3>1
    <3>3. AnswerByte([line |-> rest, reply |-> p \o rot13(lines)], b) =
          [line |-> <<>>, reply |-> ((p \o rot13(lines)) \o rot13(w)) \o <<LF>>]
      BY <1>10, <2>8 DEF AnswerByte, w
    <3>4. p \o (rot13(lines \o w) \o <<LF>>) =
          ((p \o rot13(lines)) \o rot13(w)) \o <<LF>>
      <4> DEFINE x == rot13(lines)
                 y == rot13(w)
                 z == <<LF>>
      <4>1. x \in Seq(ReplyByte) /\ y \in Seq(ReplyByte) /\ z \in Seq(ReplyByte)
        BY <1>7, <1>8, <2>3, Rot13Types
      <4>2. rot13(lines \o w) = x \o y
        BY <2>3, Rot13Concat
      <4> HIDE DEF x, y, z
      <4>3. p \o ((x \o y) \o z) = ((p \o x) \o y) \o z
        BY <4>1, SMTT(60)
      <4> QED BY <4>2, <4>3, ZenonT(60) DEF x, y, z
    <3> QED BY <1>3, <3>2, <3>3, <3>4, Zenon DEF t
  <2> QED BY <2>7, <2>8
<1> QED BY <1>9, <1>10

\* A chunk that fits below the watermark: readcb() at its end does what
\* Answer() does byte by byte, wherever the line ends in the chunk are.
LEMMA ChunkAnswer ==
    ASSUME NEW s \in Seq(Byte), NEW u \in Seq(Byte), NEW l,
           l = Answer(s).line, NoLf(l), Len(l) < MAX_LINE,
           NEW n \in Nat, n <= Len(u), Len(l) + n <= MAX_LINE
    PROVE  LET r == readcb(l \o SubSeq(u, 1, n))
           IN  Answer(s \o SubSeq(u, 1, n)) =
                   [line |-> r.keep, reply |-> Answer(s).reply \o r.add]
<1> DEFINE p == Answer(s).reply
           v(k) == SubSeq(u, 1, k)
           After(k) == [line |-> readcb(l \o v(k)).keep,
                        reply |-> p \o readcb(l \o v(k)).add]
           S == {k \in Nat : k <= n => Answer(s \o v(k)) = After(k)}
<1>1. /\ Answer(s) \in AnswerState
      /\ l \in Seq(Byte) /\ p \in Seq(ReplyByte)
      /\ Len(l) \in Nat /\ MAX_LINE \in Nat /\ Len(u) \in Nat
  BY AnswerGrows, Rot13Assumption DEF AnswerState, Rot13Assumption
<1>2. 0 \in S
  <2>1. v(0) = <<>>
    OBVIOUS
  <2> HIDE DEF v
  <2>2. s \o v(0) = s /\ l \o v(0) = l
    BY <1>1, <2>1, ConcatEmptySeq
  <2>3. readcb(l) = [keep |-> l, add |-> <<>>]
    BY <1>1, ReadcbWaits
  <2>4. p \o <<>> = p
    BY <1>1, ConcatEmptySeq
  <2> HIDE DEF p
  <2>5. After(0) = [line |-> l, reply |-> p]
    <3>1. readcb(l).keep = l /\ readcb(l).add = <<>>
      BY <2>3
    <3> QED BY <2>2, <2>4, <3>1, Zenon
  <2>6. Answer(s) = [line |-> l, reply |-> p]
    BY <1>1 DEF AnswerState, p
  <2> HIDE DEF After
  <2> QED BY <2>2, <2>5, <2>6
<1>3. ASSUME NEW k \in S PROVE k + 1 \in S
  <2> SUFFICES ASSUME k + 1 <= n PROVE Answer(s \o v(k + 1)) = After(k + 1)
    OBVIOUS
  <2>1. k \in Nat /\ k + 1 \in 1..Len(u) /\ Len(l) + k < MAX_LINE
    BY <1>1
  <2>2. Answer(s \o v(k)) = After(k)
    BY <1>1, <2>1
  <2> DEFINE b == u[k + 1]
  <2>3. b \in Byte /\ v(k) \in Seq(Byte) /\ Len(v(k)) = k
    BY <2>1
  <2>4. v(k + 1) = Append(v(k), b)
    BY <2>1
  <2> HIDE DEF v, b
  <2>5. /\ s \o v(k + 1) = Append(s \o v(k), b)
        /\ l \o v(k + 1) = Append(l \o v(k), b)
        /\ s \o v(k) \in Seq(Byte)
        /\ l \o v(k) \in Seq(Byte)
        /\ Len(l \o v(k)) = Len(l) + k
    <3>1. ASSUME NEW t \in Seq(Byte)
          PROVE  /\ t \o v(k) \in Seq(Byte)
                 /\ Len(t \o v(k)) = Len(t) + Len(v(k))
                 /\ t \o Append(v(k), b) = Append(t \o v(k), b)
      <4>1. v(k) \in Seq(Byte)
        BY <2>3
      <4>2. b \in Byte
        BY <2>3
      <4>3. t \in Seq(Byte)
        OBVIOUS
      <4> QED BY <4>1, <4>2, <4>3, ConcatAppend
    <3>2. /\ s \o v(k + 1) = Append(s \o v(k), b)
          /\ s \o v(k) \in Seq(Byte)
      BY <2>4, <3>1, Zenon
    <3>3. /\ l \o v(k + 1) = Append(l \o v(k), b)
          /\ l \o v(k) \in Seq(Byte)
          /\ Len(l \o v(k)) = Len(l) + k
      BY <1>1, <2>3, <2>4, <3>1, Zenon
    <3> QED BY <3>2, <3>3, Zenon
  <2>6. Answer(s \o v(k + 1)) = AnswerByte(After(k), b)
    <3> HIDE DEF After
    <3> QED BY <2>2, <2>3, <2>5, AnswerGrows
  <2>7. AnswerByte(After(k), b) = After(k + 1)
    <3> HIDE DEF p
    <3>1. Len(l \o v(k)) < MAX_LINE
      BY <2>1, <2>5
    <3> QED BY <1>1, <2>3, <2>5, <3>1, ReadcbByte
  <2> QED BY <2>6, <2>7
<1>4. S \in SUBSET Nat
  OBVIOUS
<1> HIDE DEF S
<1>5. S = Nat
  BY <1>2, <1>3, <1>4, NatSetInduction
<1>6. Answer(s \o v(n)) = After(n)
  <2> HIDE DEF v, After
  <2> QED BY <1>5 DEF S
<1> QED BY <1>6

\* readcb() drops nothing, and adds one byte for at least MAX_LINE of them.
LEMMA ReadcbLength ==
    ASSUME NEW s \in Seq(Byte)
    PROVE  LET r == readcb(s)
           IN  \/ /\ Len(r.add) + Len(r.keep) = Len(s)
                  /\ Len(r.keep) <= Len(s)
               \/ /\ Len(r.add) = Len(s) + 1 /\ Len(r.keep) = 0
                  /\ Len(s) >= MAX_LINE
<1>1. PICK lines, rest \in Seq(Byte) :
              /\ s = lines \o rest
              /\ Len(s) = Len(lines) + Len(rest)
              /\ Len(rest) >= MAX_LINE =>
                    readcb(s) = [keep |-> <<>>, add |-> rot13(lines \o rest) \o <<LF>>]
              /\ Len(rest) < MAX_LINE =>
                    readcb(s) = [keep |-> rest, add |-> rot13(lines)]
  BY ReadcbParts, Zenon
<1>2. ASSUME NEW t \in Seq(Byte)
      PROVE  rot13(t) \in Seq(ReplyByte) /\ Len(rot13(t)) = Len(t)
  BY Rot13Types DEF rot13
<1>3. /\ MAX_LINE \in Nat /\ Len(lines) \in Nat /\ Len(rest) \in Nat
      /\ <<LF>> \in Seq(ReplyByte) /\ Len(<<LF>>) = 1
  BY Rot13Assumption DEF Rot13Assumption, ReplyByte
<1>4. CASE Len(rest) >= MAX_LINE
  <2>1. Len(rot13(s) \o <<LF>>) = Len(s) + 1
    <3> HIDE DEF LF
    <3>1. rot13(s) \in Seq(ReplyByte) /\ Len(rot13(s)) = Len(s)
      BY <1>2
    <3>2. Len(rot13(s) \o <<LF>>) = Len(rot13(s)) + Len(<<LF>>)
      BY <1>3, <3>1, ConcatProperties, Zenon
    <3> QED BY <1>3, <3>1, <3>2, Zenon
  <2>2. readcb(s) = [keep |-> <<>>, add |-> rot13(s) \o <<LF>>]
    BY <1>1, <1>4, Zenon
  <2>3. Len(s) >= MAX_LINE
    BY <1>1, <1>3, <1>4
  <2> QED BY <2>1, <2>2, <2>3
<1>5. CASE Len(rest) < MAX_LINE
  <2>1. readcb(s).keep = rest /\ readcb(s).add = rot13(lines)
    BY <1>1, <1>5
  <2>2. Len(rot13(lines)) = Len(lines)
    BY <1>2
  <2> QED BY <1>1, <1>3, <2>1, <2>2
<1>6. Len(rest) >= MAX_LINE \/ Len(rest) < MAX_LINE
  BY <1>3
<1> QED BY <1>4, <1>5, <1>6, Zenon

-----------------------------------------------------------------------------
(* Where a connection is, for what its descriptor and its buffers hold.    *)

NotServed(c) == nread[c] = 0 /\ got[c] = <<>> /\ \A f \in FD : bev[f] # c

\* A connection is new, waits for accept(), belongs to one bufferevent or is
\* closed; nothing is in the buffers of a descriptor that nobody owns.
Places ==
    /\ \A f \in FD : bev[f] = None => input[f] = <<>> /\ output[f] = <<>>
    /\ \A f, g \in FD : bev[f] # None /\ bev[f] = bev[g] => f = g
    /\ IsInjective(acceptq)
    /\ \A c \in Range(acceptq) : ended[c] \notin {"new", "closed"}
    /\ \A c \in Client :
          /\ ended[c] = "new" \/ c \in Range(acceptq) => NotServed(c)
          /\ ended[c] = "closed" => \A f \in FD : bev[f] # c
          /\ nread[c] <= Len(sent[c])

\* Each input holds the beginning of one line.
OneLine == \A f \in FD : NoLf(input[f])

\* A line end that no peer sent is paid for by MAX_LINE bytes, and the bytes of
\* the line that is not complete have paid for none yet.
Paid(f) ==
    LET c == bev[f]
        extra == Len(got[c]) + Len(output[f]) + Len(input[f]) - nread[c]
    IN  extra >= 0 /\ extra * MAX_LINE + Len(input[f]) <= nread[c]

AllPaid == \A f \in FD : bev[f] # None => Paid(f)

PlaceInv == Rot13Inv /\ Places /\ OneLine

\* What a step that reads does: k bytes that were not read yet, which fit.
LEMMA ReadStep ==
    ASSUME PlaceInv, NEW f \in FD, Read(f)
    PROVE  LET c == bev[f]
               n == nread[c]
               u == SubSeq(sent[c], n + 1, Len(sent[c]))
           IN  /\ c \in Client /\ n \in 0..Len(sent[c])
               /\ \E k \in 1..(Len(sent[c]) - n) :
                     LET s == input[f] \o SubSeq(u, 1, k)
                         r == readcb(s)
                     IN  /\ s \in Seq(Byte)
                         /\ Len(s) = Len(input[f]) + k
                         /\ Len(input[f]) + k <= MAX_LINE
                         /\ input' = [input EXCEPT ![f] = r.keep]
                         /\ output' = [output EXCEPT ![f] = output[f] \o r.add]
                         /\ nread' = [nread EXCEPT ![c] = n + k]
<1> DEFINE c == bev[f]
           n == nread[c]
           q == sent[c]
           u == SubSeq(q, n + 1, Len(q))
<1>1. /\ c \in Client /\ input[f] \in Seq(Byte) /\ q \in Seq(Byte)
      /\ n \in 0..Len(q)
  <2>1. c \in Client
    BY DEF PlaceInv, Rot13Inv, TypeOK, Read
  <2>2. n \in Nat /\ q \in Seq(Byte) /\ n <= Len(q) /\ input[f] \in Seq(Byte)
    BY <2>1 DEF PlaceInv, Rot13Inv, TypeOK, Places
  <2> QED BY <2>1, <2>2
<1>2. PICK k \in 1..Min({Len(Unread(c)), Room(f)}) :
         /\ input' = [input EXCEPT ![f] =
                         readcb(input[f] \o SubSeq(Unread(c), 1, k)).keep]
         /\ output' = [output EXCEPT ![f] =
                         @ \o readcb(input[f] \o SubSeq(Unread(c), 1, k)).add]
         /\ nread' = [nread EXCEPT ![c] = @ + k]
  BY DEF Read
<1>3. u \in Seq(Byte) /\ Len(u) = Len(q) - n /\ Len(q) \in Nat
  BY <1>1
<1>4. Unread(c) = <<>> \/ Unread(c) = u
  BY DEF Unread
<1> HIDE DEF u, q, n, c
<1>5. k \in Nat \ {0} /\ k <= Len(Unread(c)) /\ k <= MAX_LINE - Len(input[f])
  <2> DEFINE x == Len(Unread(c))
             y == Room(f)
  <2>1. x \in Int /\ y \in Int
    BY <1>1, <1>3, <1>4, Rot13Assumption DEF Rot13Assumption, Room
  <2>2. y = MAX_LINE - Len(input[f])
    BY DEF Room
  <2> HIDE DEF x, y
  <2>3. Min({x, y}) \in Int /\ Min({x, y}) <= x /\ Min({x, y}) <= y
    BY <2>1, MinOfTwo
  <2>4. k \in 1..Min({x, y})
    BY DEF x, y
  <2>5. k \in Nat \ {0} /\ k <= x /\ k <= y
    BY <2>1, <2>3, <2>4
  <2> QED BY <2>2, <2>5 DEF x
<1>6. Unread(c) = u
  BY <1>4, <1>5
<1>7. k \in 1..(Len(q) - n) /\ k \in 0..(Len(q) - n)
  BY <1>1, <1>3, <1>5, <1>6
<1> DEFINE w == SubSeq(u, 1, k)
<1>8. w \in Seq(Byte) /\ Len(w) = k
  BY <1>1, <1>7, PrefixGrows, ZenonT(40) DEF u
<1> DEFINE s == input[f] \o w
<1>9. s \in Seq(Byte) /\ Len(s) = Len(input[f]) + k
  <2> HIDE DEF w
  <2> QED BY <1>1, <1>8, SMTT(40)
<1>10. Len(input[f]) + k <= MAX_LINE
  BY <1>1, <1>5, Rot13Assumption DEF Rot13Assumption
<1> DEFINE r == readcb(s)
<1>11. /\ input' = [input EXCEPT ![f] = r.keep]
       /\ output' = [output EXCEPT ![f] = output[f] \o r.add]
       /\ nread' = [nread EXCEPT ![c] = n + k]
  BY <1>2, <1>6, Zenon DEF n
<1> HIDE DEF w
<1> QED BY <1>1, <1>7, <1>9, <1>10, <1>11, Zenon DEF c, n, q, u, w

LEMMA ReadPlaces ==
    ASSUME PlaceInv, NEW f \in FD, Read(f) PROVE (Places /\ OneLine)'
<1> DEFINE c == bev[f]
           n == nread[c]
           u == SubSeq(sent[c], n + 1, Len(sent[c]))
<1>1. c \in Client /\ n \in 0..Len(sent[c])
  BY ReadStep
<1>2. PICK k \in 1..(Len(sent[c]) - n) :
         LET s == input[f] \o SubSeq(u, 1, k)
         IN  /\ s \in Seq(Byte)
             /\ input' = [input EXCEPT ![f] = readcb(s).keep]
             /\ output' = [output EXCEPT ![f] = output[f] \o readcb(s).add]
             /\ nread' = [nread EXCEPT ![c] = n + k]
  BY ReadStep, Zenon
<1> DEFINE r == readcb(input[f] \o SubSeq(u, 1, k))
<1>3. /\ input' = [input EXCEPT ![f] = r.keep]
      /\ output' = [output EXCEPT ![f] = output[f] \o r.add]
      /\ nread' = [nread EXCEPT ![c] = n + k]
      /\ NoLf(r.keep)
  BY <1>2, ReadcbKeepsOneLine
<1> HIDE DEF r
<1>4. bev[f] # None /\ UNCHANGED <<acceptq, bev, sent, got, ended>>
  BY DEF Read
<1>5. OneLine'
  BY <1>3 DEF PlaceInv, OneLine, Rot13Inv, TypeOK
<1>6. \A g \in FD : bev[g] = None => input'[g] = input[g] /\ output'[g] = output[g]
  BY <1>3, <1>4 DEF PlaceInv, Rot13Inv, TypeOK
<1>7. \A d \in Client : d # c => nread'[d] = nread[d]
  BY <1>3 DEF PlaceInv, Rot13Inv, TypeOK
<1>8. nread'[c] <= Len(sent[c])
  <2>1. nread'[c] = n + k
    BY <1>1, <1>3 DEF PlaceInv, Rot13Inv, TypeOK
  <2>2. Len(sent[c]) \in Nat
    BY <1>1 DEF PlaceInv, Rot13Inv, TypeOK
  <2> QED BY <1>1, <2>1, <2>2
<1>9. ~NotServed(c)
  BY DEF NotServed
<1>10. \A d \in Client : NotServed(d) => NotServed(d)'
  BY <1>4, <1>7, <1>9 DEF NotServed
<1> HIDE DEF c, n
<1>11. Places'
  BY <1>4, <1>6, <1>7, <1>8, <1>10 DEF PlaceInv, Places
<1> QED BY <1>5, <1>11

LEMMA WritePlaces ==
    ASSUME PlaceInv, NEW f \in FD, Write(f) PROVE (Places /\ OneLine)'
<1> DEFINE c == bev[f]
<1>1. PICK k \in 1..Len(output[f]) :
         /\ got' = [got EXCEPT ![c] = @ \o SubSeq(output[f], 1, k)]
         /\ output' = [output EXCEPT ![f] = SubSeq(@, k + 1, Len(@))]
  BY DEF Write
<1>2. bev[f] # None /\ UNCHANGED <<acceptq, bev, input, sent, nread, ended>>
  BY DEF Write
<1>3. \A d \in Client : d # c => got'[d] = got[d]
  BY <1>1 DEF PlaceInv, Rot13Inv, TypeOK
<1>4. \A g \in FD : bev[g] = None => output'[g] = output[g]
  BY <1>1, <1>2 DEF PlaceInv, Rot13Inv, TypeOK
<1>5. \A d \in Client : NotServed(d) => NotServed(d)'
  BY <1>2, <1>3 DEF NotServed
<1>6. Places'
  BY <1>2, <1>4, <1>5 DEF PlaceInv, Places
<1>7. OneLine'
  BY <1>2 DEF PlaceInv, OneLine
<1> QED BY <1>6, <1>7

LEMMA AcceptPlaces ==
    ASSUME PlaceInv, do_accept PROVE (Places /\ OneLine)'
<1> DEFINE c == Head(acceptq)
<1>1. /\ acceptq \in Seq(Client) /\ acceptq # <<>> /\ acceptq' = Tail(acceptq)
      /\ UNCHANGED <<input, output, sent, nread, got>>
  BY DEF PlaceInv, Rot13Inv, TypeOK, do_accept
<1>2. /\ c \in Range(acceptq) /\ c \in Client
      /\ Tail(acceptq) \in Seq(Client)
      /\ Range(acceptq) = Range(Tail(acceptq)) \cup {c}
      /\ IsInjective(acceptq) =>
            IsInjective(Tail(acceptq)) /\ c \notin Range(Tail(acceptq))
  BY <1>1, TailRange
<1>3. NotServed(c) /\ c # None
  BY <1>2, Rot13Assumption DEF PlaceInv, Places, Rot13Assumption
<1>4. IsInjective(acceptq') /\ c \notin Range(acceptq')
  BY <1>1, <1>2 DEF PlaceInv, Places
<1> HIDE DEF c
<1>5. PICK f \in FD :
          /\ bev[f] = None
          /\ IF f > FD_SETSIZE
             THEN ended' = [ended EXCEPT ![c] = "closed"] /\ UNCHANGED bev
             ELSE bev' = [bev EXCEPT ![f] = c] /\ UNCHANGED ended
  <2>1. FreeFds \subseteq FD
    BY FreeIsFD DEF PlaceInv, Rot13Inv
  <2> QED BY <2>1 DEF do_accept, FreeFds, c
<1>6. CASE f > FD_SETSIZE
  <2>1. ended' = [ended EXCEPT ![c] = "closed"] /\ UNCHANGED bev
    BY <1>5, <1>6
  <2>2. \A d \in Client : ended'[d] = IF d = c THEN "closed" ELSE ended[d]
    BY <2>1 DEF PlaceInv, Rot13Inv, TypeOK
  <2>3. \A d \in Client : NotServed(d)' <=> NotServed(d)
    BY <1>1, <2>1 DEF NotServed
  <2>4. \A d \in Range(acceptq') : d \in Client /\ d # c /\ d \in Range(acceptq)
    BY <1>1, <1>2, <1>4, RangeOfSeq
  <2>5. ended[c] # "new"
    BY <1>2 DEF PlaceInv, Places
  <2>6. \A f1 \in FD : bev[f1] # c
    BY <1>3 DEF NotServed
  <2>7. Places'
    BY <1>1, <1>2, <1>4, <2>1, <2>2, <2>3, <2>4, <2>5, <2>6 DEF PlaceInv, Places
  <2> QED BY <1>1, <2>7 DEF PlaceInv, OneLine
<1>7. CASE ~(f > FD_SETSIZE)
  <2>1. bev' = [bev EXCEPT ![f] = c] /\ UNCHANGED ended
    BY <1>5, <1>7
  <2>2. \A g \in FD : bev'[g] = IF g = f THEN c ELSE bev[g]
    BY <2>1 DEF PlaceInv, Rot13Inv, TypeOK
  <2>3. \A d \in Client : d # c => (NotServed(d)' <=> NotServed(d))
    BY <1>1, <1>5, <2>2, Rot13Assumption DEF NotServed, Rot13Assumption
  <2>4. \A d \in Range(acceptq') : d \in Client /\ d # c /\ d \in Range(acceptq)
    BY <1>1, <1>2, <1>4, RangeOfSeq
  <2>5. ended[c] \notin {"new", "closed"}
    BY <1>2 DEF PlaceInv, Places
  <2>6. \A g, h \in FD : bev'[g] # None /\ bev'[g] = bev'[h] => g = h
    BY <1>3, <2>2 DEF NotServed, PlaceInv, Places
  <2>7. Places'
    BY <1>1, <1>2, <1>4, <1>3, <2>1, <2>2, <2>3, <2>4, <2>5, <2>6 DEF PlaceInv, Places
  <2> QED BY <1>1, <2>7 DEF PlaceInv, OneLine
<1> QED BY <1>6, <1>7

LEMMA FreePlaces ==
    ASSUME PlaceInv, NEW f \in FD, errorcb(f) PROVE (Places /\ OneLine)'
<1> DEFINE c == bev[f]
<1>1. /\ bev' = [bev EXCEPT ![f] = None]
      /\ input' = [input EXCEPT ![f] = <<>>]
      /\ output' = [output EXCEPT ![f] = <<>>]
      /\ ended' = [ended EXCEPT ![c] = "closed"]
      /\ c # None /\ ended[c] \in {"eof", "rst"}
      /\ UNCHANGED <<acceptq, sent, nread, got>>
  BY DEF errorcb, bufferevent_free
<1>2. c \in Client
  BY <1>1 DEF PlaceInv, Rot13Inv, TypeOK
<1>3. \A g \in FD : /\ bev'[g] = (IF g = f THEN None ELSE bev[g])
                    /\ input'[g] = (IF g = f THEN <<>> ELSE input[g])
                    /\ output'[g] = (IF g = f THEN <<>> ELSE output[g])
  BY <1>1 DEF PlaceInv, Rot13Inv, TypeOK
<1>4. \A d \in Client : ended'[d] = IF d = c THEN "closed" ELSE ended[d]
  BY <1>1 DEF PlaceInv, Rot13Inv, TypeOK
<1>5. \A g \in FD : bev'[g] # c
  BY <1>1, <1>3 DEF PlaceInv, Places
<1>6. c \notin Range(acceptq)
  BY <1>2 DEF PlaceInv, Places, NotServed
<1>7. \A d \in Client : NotServed(d) => NotServed(d)'
  BY <1>1, <1>3, Rot13Assumption DEF NotServed, Rot13Assumption
<1>8. \A d \in Range(acceptq) : d \in Client
  BY RangeOfSeq DEF PlaceInv, Rot13Inv, TypeOK
<1>9. OneLine'
  <2>1. NoLf(<<>>)
    BY DEF NoLf
  <2> QED BY <1>3, <2>1 DEF PlaceInv, OneLine
<1> HIDE DEF c
<1>10. Places'
  <2>1. \A g \in FD : bev'[g] = None => input'[g] = <<>> /\ output'[g] = <<>>
    BY <1>3 DEF PlaceInv, Places
  <2>2. \A g, h \in FD : bev'[g] # None /\ bev'[g] = bev'[h] => g = h
    BY <1>3 DEF PlaceInv, Places
  <2>3. \A d \in Range(acceptq) : ended'[d] \notin {"new", "closed"}
    BY <1>4, <1>6, <1>8 DEF PlaceInv, Places
  <2>4. \A d \in Client : ended'[d] = "closed" => \A g \in FD : bev'[g] # d
    <3> SUFFICES ASSUME NEW d \in Client, d # c, ended'[d] = "closed", NEW g \in FD
                 PROVE  bev'[g] # d
      BY <1>5
    <3>1. bev[g] # d
      BY <1>4 DEF PlaceInv, Places
    <3>2. d # None
      BY Rot13Assumption DEF Rot13Assumption
    <3> QED BY <1>3, <3>1, <3>2
  <2>5. \A d \in Client : ended'[d] = "new" => ended[d] = "new"
    BY <1>4
  <2> QED BY <1>1, <1>7, <2>1, <2>2, <2>3, <2>4, <2>5 DEF PlaceInv, Places
<1> QED BY <1>9, <1>10

LEMMA PeerPlaces ==
    ASSUME PlaceInv, NEW c \in Client, Peer(c) PROVE (Places /\ OneLine)'
<1>1. CASE Connect(c)
  <2>1. /\ acceptq' = Append(acceptq, c) /\ ended[c] = "new"
        /\ UNCHANGED <<bev, input, output, sent, nread, got>>
        /\ \A d \in Client : ended'[d] = IF d = c THEN "no" ELSE ended[d]
    BY <1>1 DEF Connect, PlaceInv, Rot13Inv, TypeOK
  <2>2. acceptq \in Seq(Client) /\ \A d \in Range(acceptq) : d \in Client
    BY RangeOfSeq DEF PlaceInv, Rot13Inv, TypeOK
  <2>3. /\ Range(acceptq') = Range(acceptq) \cup {c}
        /\ IsInjective(acceptq) /\ c \notin Range(acceptq) => IsInjective(acceptq')
    BY <2>1, <2>2, AppendRange
  <2>4. c \notin Range(acceptq) /\ NotServed(c)
    BY <2>1 DEF PlaceInv, Places
  <2>5. \A d \in Client : NotServed(d)' <=> NotServed(d)
    BY <2>1 DEF NotServed
  <2>6. \A d \in Client : ended'[d] = "new" => ended[d] = "new" /\ d # c
    BY <2>1
  <2>7. \A d \in Range(acceptq') : ended'[d] \notin {"new", "closed"}
    BY <2>1, <2>2, <2>3, <2>4 DEF PlaceInv, Places
  <2>8. \A d \in Client : ended'[d] = "closed" => ended[d] = "closed"
    BY <2>1
  <2>9. Places'
    BY <2>1, <2>3, <2>4, <2>5, <2>6, <2>7, <2>8 DEF PlaceInv, Places
  <2> QED BY <2>1, <2>9 DEF PlaceInv, OneLine
<1>2. ASSUME NEW b \in Byte, Send(c, b) PROVE (Places /\ OneLine)'
  <2>1. /\ sent' = [sent EXCEPT ![c] = Append(@, b)]
        /\ UNCHANGED <<acceptq, bev, input, output, nread, got, ended>>
    BY <1>2, Zenon DEF Send
  <2>2. \A d \in Client : nread[d] <= Len(sent'[d])
    <3> TAKE d \in Client
    <3>1. sent[d] \in Seq(Byte) /\ nread[d] \in Nat /\ nread[d] <= Len(sent[d])
      BY DEF PlaceInv, Places, Rot13Inv, TypeOK
    <3>2. CASE d = c
      <4>1. sent'[d] = Append(sent[d], b)
        BY <2>1, <3>2 DEF PlaceInv, Rot13Inv, TypeOK
      <4> QED BY <3>1, <4>1
    <3>3. CASE d # c
      BY <2>1, <3>1, <3>3 DEF PlaceInv, Rot13Inv, TypeOK
    <3> QED BY <3>2, <3>3
  <2>3. \A d \in Client : NotServed(d)' <=> NotServed(d)
    BY <2>1 DEF NotServed
  <2>4. Places'
    BY <2>1, <2>2, <2>3 DEF PlaceInv, Places
  <2> QED BY <2>1, <2>4 DEF PlaceInv, OneLine
<1>3. ASSUME NEW how \in {"eof", "rst"}, End(c, how) PROVE (Places /\ OneLine)'
  <2>1. /\ ended[c] \in {"no", "eof"}
        /\ UNCHANGED <<acceptq, bev, input, output, sent, nread, got>>
        /\ \A d \in Client : ended'[d] = IF d = c THEN how ELSE ended[d]
    BY <1>3 DEF End, PlaceInv, Rot13Inv, TypeOK
  <2>2. \A d \in Client : NotServed(d)' <=> NotServed(d)
    BY <2>1 DEF NotServed
  <2>3. \A d \in Range(acceptq) : d \in Client
    BY RangeOfSeq DEF PlaceInv, Rot13Inv, TypeOK
  <2>4. \A d \in Client : ended'[d] \in {"new", "closed"} => ended'[d] = ended[d]
    BY <2>1
  <2>5. Places'
    BY <2>1, <2>2, <2>3, <2>4 DEF PlaceInv, Places
  <2> QED BY <2>1, <2>5 DEF PlaceInv, OneLine
<1> QED BY <1>1, <1>2, <1>3 DEF Peer

\* Every connection has one place, and a free descriptor has empty buffers.
THEOREM PlaceInvariant == Spec => []PlaceInv
<1>1. Init => Places /\ OneLine
  <2> SUFFICES ASSUME Init PROVE Places /\ OneLine
    OBVIOUS
  <2>1. Range(acceptq) = {} /\ IsInjective(acceptq)
    BY DEF Init, Range, IsInjective
  <2>2. \A c \in Client : NotServed(c) /\ nread[c] <= Len(sent[c]) /\ ended[c] = "new"
    BY Rot13Assumption DEF Init, NotServed, Rot13Assumption
  <2>3. OneLine
    BY DEF Init, OneLine, NoLf
  <2> QED BY <2>1, <2>2, <2>3 DEF Init, Places
<1>2. Rot13Inv /\ Rot13Inv' /\ Places /\ OneLine /\ [Next]_vars => (Places /\ OneLine)'
  <2> SUFFICES ASSUME PlaceInv, [Next]_vars PROVE (Places /\ OneLine)'
    BY DEF PlaceInv
  <2>1. CASE UNCHANGED vars \/ do_acceptFails
    BY <2>1 DEF do_acceptFails, vars, PlaceInv, Places, OneLine, NotServed
  <2> QED
    BY <2>1, ReadPlaces, WritePlaces, AcceptPlaces, FreePlaces, PeerPlaces DEF Next
<1> QED BY <1>1, <1>2, Rot13Invariant, PTL DEF Spec, PlaceInv

-----------------------------------------------------------------------------
(* The replies.                                                            *)

ReplyInv == PlaceInv /\ ReplyIndependentOfChunks /\ AllPaid

LEMMA AnsweredTypes ==
    ASSUME PlaceInv, NEW c \in Client
    PROVE  /\ nread[c] \in 0..Len(sent[c])
           /\ sent[c] \in Seq(Byte)
           /\ SubSeq(sent[c], 1, nread[c]) \in Seq(Byte)
           /\ Answered(c) \in AnswerState
<1>1. sent[c] \in Seq(Byte) /\ nread[c] \in 0..Len(sent[c])
  BY DEF PlaceInv, Rot13Inv, TypeOK, Places
<1>2. SubSeq(sent[c], 1, nread[c]) \in Seq(Byte)
  BY <1>1
<1> QED BY <1>1, <1>2, AnswerGrows DEF Answered

\* A connection keeps its reply while what was read from it stays.
LEMMA SameAnswer ==
    ASSUME NEW c \in Client, nread'[c] = nread[c], sent'[c] = sent[c]
    PROVE  Answered(c)' = Answered(c)
  BY DEF Answered

\* Reading a chunk adds to the output what the chunk adds to the reply.
LEMMA ReadReply ==
    ASSUME ReplyInv, PlaceInv', NEW f \in FD, Read(f)
    PROVE  (ReplyIndependentOfChunks /\ AllPaid)'
<1> DEFINE c == bev[f]
           n == nread[c]
           q == sent[c]
           u == SubSeq(q, n + 1, Len(q))
<1>0. PlaceInv
  BY DEF ReplyInv
<1>1. c \in Client /\ n \in 0..Len(q) /\ q \in Seq(Byte)
  BY <1>0, ReadStep, AnsweredTypes
<1>2. PICK k \in 1..(Len(q) - n) :
         LET s == input[f] \o SubSeq(u, 1, k)
         IN  /\ s \in Seq(Byte)
             /\ Len(s) = Len(input[f]) + k
             /\ Len(input[f]) + k <= MAX_LINE
             /\ input' = [input EXCEPT ![f] = readcb(s).keep]
             /\ output' = [output EXCEPT ![f] = output[f] \o readcb(s).add]
             /\ nread' = [nread EXCEPT ![c] = n + k]
  BY <1>0, ReadStep, Zenon
<1> DEFINE s == input[f] \o SubSeq(u, 1, k)
           r == readcb(s)
<1>3. bev[f] # None /\ UNCHANGED <<acceptq, bev, sent, got, ended>>
  BY DEF Read
<1>4. /\ r.keep \in Seq(Byte) /\ r.add \in Seq(ReplyByte)
  BY <1>2, ReadcbLeaves
<1>5. /\ input' = [input EXCEPT ![f] = r.keep]
      /\ output' = [output EXCEPT ![f] = output[f] \o r.add]
      /\ nread' = [nread EXCEPT ![c] = n + k]
  BY <1>2, Zenon
<1>6. /\ input[f] \in Seq(Byte) /\ output[f] \in Seq(ReplyByte)
      /\ got[c] \in Seq(ReplyByte)
      /\ Len(input[f]) < MAX_LINE /\ NoLf(input[f])
      /\ k \in Nat /\ n \in Nat /\ Len(q) \in Nat
  BY <1>0, <1>1 DEF PlaceInv, Rot13Inv, TypeOK, InputBelowWatermark, OneLine
<1>7. /\ input[f] = Answered(c).line
      /\ got[c] \o output[f] = Answered(c).reply
  BY <1>3, Zenon DEF ReplyInv, ReplyIndependentOfChunks
<1> HIDE DEF r
<1>8. Answered(c)' = [line |-> r.keep, reply |-> Answered(c).reply \o r.add]
  <2>1. k \in 0..(Len(q) - n)
    BY <1>1
  <2>2. /\ SubSeq(q, 1, n) \in Seq(Byte) /\ u \in Seq(Byte) /\ Len(u) = Len(q) - n
        /\ SubSeq(q, 1, n) \o SubSeq(u, 1, k) = SubSeq(q, 1, n + k)
    BY <1>1, <2>1, PrefixGrows, ZenonT(40)
  <2>3. nread'[c] = n + k /\ sent'[c] = q
    BY <1>0, <1>1, <1>3, <1>5 DEF PlaceInv, Rot13Inv, TypeOK
  <2>4. Answered(c)' = Answer(SubSeq(q, 1, n + k))
    BY <1>3, <2>3, Zenon DEF Answered
  <2> DEFINE v == SubSeq(q, 1, n)
             l == input[f]
  <2>5. l = Answer(v).line /\ Answered(c).reply = Answer(v).reply
    BY <1>7, Zenon DEF Answered
  <2>6. v \in Seq(Byte) /\ u \in Seq(Byte) /\ NoLf(l) /\ Len(l) < MAX_LINE
        /\ k \in Nat /\ k <= Len(u) /\ Len(l) + k <= MAX_LINE
    BY <1>1, <1>2, <1>6, <2>2, SMTT(40)
  <2> HIDE DEF v, l, u
  <2>7. LET z == readcb(l \o SubSeq(u, 1, k))
        IN  Answer(v \o SubSeq(u, 1, k)) =
                [line |-> z.keep, reply |-> Answer(v).reply \o z.add]
    BY <2>5, <2>6, ChunkAnswer, Zenon
  <2> QED BY <2>2, <2>4, <2>5, <2>7, Zenon DEF r, v, l
<1> HIDE DEF s, u, q
<1>9. input'[f] = r.keep /\ output'[f] = output[f] \o r.add
  BY <1>0, <1>5 DEF PlaceInv, Rot13Inv, TypeOK
<1>10. input'[f] = Answered(c)'.line /\ got'[c] \o output'[f] = Answered(c)'.reply
  <2>1. got[c] \o (output[f] \o r.add) = (got[c] \o output[f]) \o r.add
    <3> DEFINE x == got[c]
               y == output[f]
               z == r.add
    <3>1. x \in Seq(ReplyByte) /\ y \in Seq(ReplyByte) /\ z \in Seq(ReplyByte)
      BY <1>4, <1>6
    <3> HIDE DEF x, y, z
    <3>2. x \o (y \o z) = (x \o y) \o z
      BY <3>1, ConcatAssociative, SMTT(40)
    <3> QED BY <3>2, Zenon DEF x, y, z
  <2>2. Answered(c)'.line = r.keep /\ Answered(c)'.reply = Answered(c).reply \o r.add
    <3> DEFINE a == Answered(c)'
               b == Answered(c).reply \o r.add
    <3>1. a = [line |-> r.keep, reply |-> b]
      BY <1>8
    <3> HIDE DEF a, b
    <3>2. a.line = r.keep /\ a.reply = b
      BY <3>1
    <3> QED BY <3>2, Zenon DEF a, b
  <2>3. got'[c] = got[c]
    BY <1>3
  <2> QED BY <1>7, <1>9, <2>1, <2>2, <2>3, Zenon
<1>11. \A d \in Client : d # c => Answered(d)' = Answered(d)
  <2>1. \A d \in Client : d # c => nread'[d] = nread[d] /\ sent'[d] = sent[d]
    BY <1>0, <1>3, <1>5 DEF PlaceInv, Rot13Inv, TypeOK
  <2> QED BY <2>1, SameAnswer
<1>12. \A g \in FD : g # f => input'[g] = input[g] /\ output'[g] = output[g]
  BY <1>0, <1>5 DEF PlaceInv, Rot13Inv, TypeOK
<1>13. \A g \in FD : g # f /\ bev[g] # None => bev[g] \in Client /\ bev[g] # c
  BY <1>0, <1>3 DEF PlaceInv, Rot13Inv, TypeOK, Places
<1>14. ended[c] # "closed"
  BY <1>0, <1>1 DEF PlaceInv, Places
<1>15. ReplyIndependentOfChunks'
  <2>1. ASSUME NEW g \in FD, bev'[g] # None
        PROVE  LET a == Answered(bev[g])'
               IN  input'[g] = a.line /\ got'[bev[g]] \o output'[g] = a.reply
    <3>1. CASE g = f
      BY <1>10, <3>1, Zenon
    <3>2. CASE g # f
      <4>1. /\ input'[g] = input[g] /\ output'[g] = output[g] /\ got' = got
            /\ Answered(bev[g])' = Answered(bev[g])
        BY <1>3, <1>11, <1>12, <1>13, <2>1, <3>2
      <4>2. /\ input[g] = Answered(bev[g]).line
            /\ got[bev[g]] \o output[g] = Answered(bev[g]).reply
        BY <1>3, <2>1, Zenon DEF ReplyInv, ReplyIndependentOfChunks
      <4> QED BY <4>1, <4>2, Zenon
    <3> QED BY <3>1, <3>2
  <2>2. ASSUME NEW d \in Client, ended'[d] = "closed"
        PROVE  IsPrefix(got'[d], Answered(d)'.reply)
    BY <1>3, <1>11, <1>14, <2>2 DEF ReplyInv, ReplyIndependentOfChunks
  <2>3. bev' = bev
    BY <1>3
  <2> QED BY <2>1, <2>2, <2>3, Zenon DEF ReplyIndependentOfChunks
<1>16. Paid(f)'
  <2> DEFINE e == Len(got[c]) + Len(output[f]) + Len(input[f]) - n
             i == Len(input[f])
  <2>1. Paid(f)
    BY <1>3 DEF ReplyInv, AllPaid
  <2>2. e >= 0 /\ e * MAX_LINE + i <= n
    BY <2>1 DEF Paid
  <2> DEFINE x == Len(got[c])
             y == Len(output[f])
             ra == Len(r.add)
             rk == Len(r.keep)
  <2>3. /\ x \in Nat /\ y \in Nat /\ i \in Nat /\ ra \in Nat /\ rk \in Nat
        /\ MAX_LINE \in Nat \ {0}
    <3>1. \A S : \A t \in Seq(S) : Len(t) \in Nat
      BY LenProperties
    <3> QED BY <3>1, <1>4, <1>6, Rot13Assumption, Zenon DEF Rot13Assumption
  <2>4. \/ /\ Len(r.add) + Len(r.keep) = i + k /\ Len(r.keep) <= i + k
        \/ /\ Len(r.add) = i + k + 1 /\ Len(r.keep) = 0 /\ i + k >= MAX_LINE
    BY <1>2, ReadcbLength, Zenon DEF r, s
  <2>5. Len(output'[f]) = Len(output[f]) + Len(r.add) /\ Len(input'[f]) = Len(r.keep)
    BY <1>4, <1>6, <1>9
  <2>6. nread'[c] = n + k
    BY <1>0, <1>1, <1>5 DEF PlaceInv, Rot13Inv, TypeOK
  <2> DEFINE e2 == Len(got[c]) + Len(output'[f]) + Len(input'[f]) - (n + k)
  <2>7. e2 >= 0 /\ e2 * MAX_LINE + Len(input'[f]) <= n + k
    <3>1. e2 = x + (y + ra) + rk - (n + k) /\ Len(input'[f]) = rk
      BY <2>5
    <3>2. e = x + y + i - n
      OBVIOUS
    <3>3. \/ ra + rk = i + k /\ rk <= i + k
          \/ ra = i + k + 1 /\ rk = 0 /\ i + k >= MAX_LINE
      BY <2>4, Zenon
    <3> HIDE DEF x, y, ra, rk, i, n, e, e2
    <3>4. CASE ra + rk = i + k /\ rk <= i + k
      <4>1. e2 = e
        BY <1>6, <2>3, <3>1, <3>2, <3>4
      <4>2. e2 * MAX_LINE = e * MAX_LINE /\ e * MAX_LINE \in Int
        BY <2>3, <3>2, <1>6, <4>1
      <4> DEFINE m == e * MAX_LINE
                 m2 == e2 * MAX_LINE
      <4>3. m2 = m /\ m \in Int /\ e >= 0 /\ m + i <= n
        BY <2>2, <4>2
      <4> HIDE DEF m, m2
      <4>4. m2 + rk <= n + k
        BY <1>6, <2>3, <3>4, <4>3
      <4> QED BY <3>1, <4>1, <4>3, <4>4 DEF m2
    <3>5. CASE ra = i + k + 1 /\ rk = 0 /\ i + k >= MAX_LINE
      <4>1. e2 = e + 1 /\ e \in Int
        <5>1. n \in Int /\ k \in Int
          BY <1>6
        <5>2. x \in Int /\ y \in Int /\ i \in Int
          BY <2>3
        <5> QED BY <3>1, <3>2, <3>5, <5>1, <5>2
      <4>2. e2 * MAX_LINE = e * MAX_LINE + MAX_LINE /\ e * MAX_LINE \in Int
        BY <2>3, <4>1
      <4> DEFINE m == e * MAX_LINE
                 m2 == e2 * MAX_LINE
      <4>3. m2 = m + MAX_LINE /\ m \in Int /\ e >= 0 /\ m + i <= n
        BY <2>2, <4>2
      <4> HIDE DEF m, m2
      <4>4. m2 + rk <= n + k
        BY <1>6, <2>3, <3>5, <4>3
      <4>5. e2 >= 0
        BY <4>1, <4>3
      <4> QED BY <3>1, <4>4, <4>5 DEF m2
    <3> QED BY <3>3, <3>4, <3>5
  <2> QED BY <1>3, <2>6, <2>7 DEF Paid
<1>17. AllPaid'
  <2> SUFFICES ASSUME NEW g \in FD, g # f, bev[g] # None PROVE Paid(g)'
    BY <1>3, <1>16 DEF AllPaid
  <2>1. nread'[bev[g]] = nread[bev[g]]
    BY <1>0, <1>5, <1>13 DEF PlaceInv, Rot13Inv, TypeOK
  <2>2. Paid(g)
    BY DEF ReplyInv, AllPaid
  <2> QED BY <1>3, <1>12, <2>1, <2>2 DEF Paid
<1> QED BY <1>15, <1>17

\* Writing moves bytes from the output to the socket, in their order.
LEMMA WriteReply ==
    ASSUME ReplyInv, NEW f \in FD, Write(f)
    PROVE  (ReplyIndependentOfChunks /\ AllPaid)'
<1> DEFINE c == bev[f]
           o == output[f]
<1>0. PlaceInv
  BY DEF ReplyInv
<1>1. PICK k \in 1..Len(o) :
         /\ got' = [got EXCEPT ![c] = @ \o SubSeq(o, 1, k)]
         /\ output' = [output EXCEPT ![f] = SubSeq(o, k + 1, Len(o))]
  BY DEF Write
<1>2. bev[f] # None /\ UNCHANGED <<acceptq, bev, input, sent, nread, ended>>
  BY DEF Write
<1>3. /\ c \in Client /\ o \in Seq(ReplyByte) /\ got[c] \in Seq(ReplyByte)
      /\ ended[c] # "closed"
  BY <1>0, <1>2 DEF PlaceInv, Rot13Inv, TypeOK, Places
<1> DEFINE w == SubSeq(o, 1, k)
           z == SubSeq(o, k + 1, Len(o))
<1>4. /\ w \in Seq(ReplyByte) /\ z \in Seq(ReplyByte)
      /\ w \o z = o
  <2>1. k \in 0..Len(o)
    BY <1>3
  <2> QED BY <1>3, <2>1, SplitAt, Zenon
<1>5. got'[c] = got[c] \o w /\ output'[f] = z
  BY <1>0, <1>1, <1>3 DEF PlaceInv, Rot13Inv, TypeOK
<1>6. /\ got'[c] \o output'[f] = got[c] \o o
      /\ Len(got'[c]) + Len(output'[f]) = Len(got[c]) + Len(o)
  <2> DEFINE x == got[c]
  <2> HIDE DEF x, w, z, o
  <2>1. x \in Seq(ReplyByte)
    BY <1>3 DEF x
  <2>2. w \in Seq(ReplyByte) /\ z \in Seq(ReplyByte)
    BY <1>4
  <2>3. (x \o w) \o z = x \o (w \o z)
    BY <2>1, <2>2, ConcatAssociative
  <2>4. Len(x \o w) + Len(z) = Len(x) + Len(w \o z)
    BY <2>1, <2>2
  <2>5. Len(w \o z) = Len(o)
    BY <1>4
  <2>6. got'[c] = x \o w /\ output'[f] = z /\ w \o z = o
    BY <1>4, <1>5, Zenon DEF x
  <2> QED BY <2>3, <2>4, <2>6, Zenon DEF x, o
<1> HIDE DEF w, z
<1>7. /\ \A d \in Client : Answered(d)' = Answered(d)
      /\ \A d \in Client : d # c => got'[d] = got[d]
      /\ \A g \in FD : g # f => output'[g] = output[g]
  <2>1. \A d \in Client : Answered(d)' = Answered(d)
    BY <1>2, SameAnswer
  <2> QED BY <1>0, <1>1, <2>1 DEF PlaceInv, Rot13Inv, TypeOK
<1>8. \A g \in FD : bev[g] # None /\ g # f => bev[g] \in Client /\ bev[g] # c
  BY <1>0, <1>2 DEF PlaceInv, Rot13Inv, TypeOK, Places
<1>9. ASSUME NEW g \in FD, bev[g] # None
      PROVE  LET a == Answered(bev[g])'
             IN  input'[g] = a.line /\ got'[bev[g]] \o output'[g] = a.reply
  <2>1. /\ input[g] = Answered(bev[g]).line
        /\ got[bev[g]] \o output[g] = Answered(bev[g]).reply
    BY <1>9, Zenon DEF ReplyInv, ReplyIndependentOfChunks
  <2>2. Answered(bev[g])' = Answered(bev[g]) /\ input'[g] = input[g]
    BY <1>2, <1>3, <1>7, <1>8, <1>9
  <2>3. CASE g = f
    BY <1>6, <2>1, <2>2, <2>3, Zenon
  <2>4. CASE g # f
    <3>1. got'[bev[g]] = got[bev[g]] /\ output'[g] = output[g]
      BY <1>7, <1>8, <1>9, <2>4
    <3> QED BY <2>1, <2>2, <3>1, Zenon
  <2> QED BY <2>3, <2>4
<1>10. ASSUME NEW d \in Client, ended'[d] = "closed"
       PROVE  IsPrefix(got'[d], Answered(d)'.reply)
  BY <1>2, <1>3, <1>7, <1>10 DEF ReplyInv, ReplyIndependentOfChunks
<1>11. ReplyIndependentOfChunks'
  BY <1>2, <1>9, <1>10 DEF ReplyIndependentOfChunks
<1>12. ASSUME NEW g \in FD, bev[g] # None PROVE Paid(g)'
  <2>1. Paid(g)
    BY <1>12 DEF ReplyInv, AllPaid
  <2>2. CASE g = f
    <3> DEFINE m == Len(got[c]) + Len(output[f])
               m2 == Len(got'[c]) + Len(output'[f])
    <3>1. m2 = m
      BY <1>6
    <3>2. /\ m + Len(input[f]) - nread[c] >= 0
          /\ (m + Len(input[f]) - nread[c]) * MAX_LINE + Len(input[f]) <= nread[c]
      BY <2>1, <2>2 DEF Paid
    <3> HIDE DEF m, m2
    <3>3. /\ m2 + Len(input[f]) - nread[c] >= 0
          /\ (m2 + Len(input[f]) - nread[c]) * MAX_LINE + Len(input[f]) <= nread[c]
      BY <3>1, <3>2
    <3> QED BY <1>2, <2>2, <3>3 DEF Paid, m2
  <2>3. CASE g # f
    BY <1>2, <1>7, <1>8, <1>12, <2>1, <2>3 DEF Paid
  <2> QED BY <2>2, <2>3
<1>13. AllPaid'
  BY <1>2, <1>12 DEF AllPaid
<1> QED BY <1>11, <1>13

\* An accepted connection starts with the empty reply.
LEMMA AcceptReply ==
    ASSUME ReplyInv, do_accept PROVE (ReplyIndependentOfChunks /\ AllPaid)'
<1>0. PlaceInv
  BY DEF ReplyInv
<1> DEFINE h == Head(acceptq)
<1>1. UNCHANGED <<input, output, sent, nread, got>>
  BY DEF do_accept
<1>2. h \in Range(acceptq) /\ h \in Client /\ h # None
  <2>1. acceptq \in Seq(Client) /\ acceptq # <<>>
    BY <1>0 DEF PlaceInv, Rot13Inv, TypeOK, do_accept
  <2> QED BY <2>1, TailRange, Rot13Assumption DEF Rot13Assumption
<1> PICK c \in Client : c = h /\ c # None
  BY <1>2
<1>3. nread[c] = 0 /\ got[c] = <<>>
  BY <1>0, <1>2 DEF PlaceInv, Places, NotServed
<1> HIDE DEF h
<1>4. Answered(c) = [line |-> <<>>, reply |-> <<>>]
  <2>1. SubSeq(sent[c], 1, 0) = <<>>
    BY SubSeqEmpty
  <2> QED BY <1>3, <2>1, AnswerGrows, Zenon DEF Answered, NoAnswer
<1>5. \A d \in Client : Answered(d)' = Answered(d)
  BY <1>1, SameAnswer
<1>6. PICK f \in FD :
          /\ bev[f] = None
          /\ IF f > FD_SETSIZE
             THEN ended' = [ended EXCEPT ![c] = "closed"] /\ UNCHANGED bev
             ELSE bev' = [bev EXCEPT ![f] = c] /\ UNCHANGED ended
  <2>1. FreeFds \subseteq FD
    BY <1>0, FreeIsFD DEF PlaceInv, Rot13Inv
  <2> QED BY <2>1 DEF do_accept, FreeFds, h
<1>7. \A g \in FD : bev[g] # None => bev[g] \in Client
  BY <1>0 DEF PlaceInv, Rot13Inv, TypeOK
<1>8. ASSUME NEW g \in FD, bev'[g] = bev[g], bev[g] # None
      PROVE  /\ LET a == Answered(bev[g])'
                IN  input'[g] = a.line /\ got'[bev[g]] \o output'[g] = a.reply
             /\ Paid(g)'
  <2>1. /\ input[g] = Answered(bev[g]).line
        /\ got[bev[g]] \o output[g] = Answered(bev[g]).reply
    BY <1>8, Zenon DEF ReplyInv, ReplyIndependentOfChunks
  <2>2. Answered(bev[g])' = Answered(bev[g])
    <3>1. bev[g] \in Client
      BY <1>7, <1>8
    <3> QED BY <1>1, <1>8, <3>1 DEF Answered
  <2>3. Paid(g)
    BY <1>8 DEF ReplyInv, AllPaid
  <2> QED BY <1>1, <1>8, <2>1, <2>2, <2>3 DEF Paid
<1>9. CASE f > FD_SETSIZE
  <2>1. ended' = [ended EXCEPT ![c] = "closed"] /\ UNCHANGED bev
    BY <1>6, <1>9
  <2>2. ASSUME NEW d \in Client, ended'[d] = "closed"
        PROVE  IsPrefix(got'[d], Answered(d)'.reply)
    <3>1. CASE d = c
      <4>1. got'[d] = <<>> /\ Answered(d)'.reply = <<>>
        BY <1>1, <1>2, <1>3, <1>4, <1>5, <3>1
      <4>2. IsPrefix(<<>>, <<>>)
        BY DEF IsPrefix
      <4> QED BY <4>1, <4>2
    <3>2. CASE d # c
      <4>1. ended[d] = "closed"
        BY <1>0, <2>1, <2>2, <3>2 DEF PlaceInv, Rot13Inv, TypeOK
      <4> QED BY <1>1, <1>5, <4>1 DEF ReplyInv, ReplyIndependentOfChunks
    <3> QED BY <3>1, <3>2
  <2> QED BY <1>8, <2>1, <2>2 DEF ReplyIndependentOfChunks, AllPaid
<1>10. CASE ~(f > FD_SETSIZE)
  <2>1. bev' = [bev EXCEPT ![f] = c] /\ UNCHANGED ended
    BY <1>6, <1>10
  <2>2. \A g \in FD : bev'[g] = IF g = f THEN c ELSE bev[g]
    BY <1>0, <2>1 DEF PlaceInv, Rot13Inv, TypeOK
  <2>3. input[f] = <<>> /\ output[f] = <<>>
    BY <1>0, <1>6 DEF PlaceInv, Places
  <2>4. /\ input'[f] = Answered(c)'.line
        /\ got'[c] \o output'[f] = Answered(c)'.reply
    <3>1. <<>> \o <<>> = <<>>
      OBVIOUS
    <3>2. Answered(c)'.line = <<>> /\ Answered(c)'.reply = <<>>
      <4>1. Answered(c)' = Answered(c)
        BY <1>5
      <4> QED BY <1>4, <4>1
    <3>3. got'[c] = <<>> /\ input'[f] = <<>> /\ output'[f] = <<>>
      BY <1>1, <1>3, <2>3
    <3> QED BY <3>1, <3>2, <3>3, Zenon
  <2>5. Paid(f)'
    BY <1>1, <1>3, <2>2, <2>3, Rot13Assumption DEF Paid, Rot13Assumption
  <2>6. ASSUME NEW g \in FD, bev'[g] # None
        PROVE  /\ LET a == Answered(bev[g])'
                  IN  input'[g] = a.line /\ got'[bev'[g]] \o output'[g] = a.reply
               /\ Paid(g)'
    <3>1. CASE g = f
      <4>1. bev'[g] = c
        BY <2>2, <3>1
      <4> QED BY <2>4, <2>5, <3>1, <4>1, Zenon DEF Answered
    <3>2. CASE g # f
      <4>1. bev'[g] = bev[g] /\ bev[g] # None
        BY <2>2, <2>6, <3>2
      <4> QED BY <1>8, <4>1
    <3> QED BY <3>1, <3>2
  <2>7. ASSUME NEW d \in Client, ended'[d] = "closed"
        PROVE  IsPrefix(got'[d], Answered(d)'.reply)
    BY <1>1, <1>5, <2>1, <2>7 DEF ReplyInv, ReplyIndependentOfChunks
  <2>8. ReplyIndependentOfChunks'
    BY <2>6, <2>7 DEF ReplyIndependentOfChunks
  <2> QED BY <2>6, <2>8 DEF AllPaid
<1> QED BY <1>9, <1>10

\* What bufferevent_free() drops is the end of the reply.
LEMMA FreeReply ==
    ASSUME ReplyInv, NEW f \in FD, errorcb(f)
    PROVE  (ReplyIndependentOfChunks /\ AllPaid)'
<1>0. PlaceInv
  BY DEF ReplyInv
<1>1. /\ bev' = [bev EXCEPT ![f] = None]
      /\ input' = [input EXCEPT ![f] = <<>>]
      /\ output' = [output EXCEPT ![f] = <<>>]
      /\ ended' = [ended EXCEPT ![bev[f]] = "closed"]
      /\ bev[f] # None
      /\ UNCHANGED <<acceptq, sent, nread, got>>
  BY DEF errorcb, bufferevent_free
<1>2. PICK c \in Client : c = bev[f]
  BY <1>0, <1>1 DEF PlaceInv, Rot13Inv, TypeOK
<1>3. \A d \in Client : Answered(d)' = Answered(d)
  BY <1>1, SameAnswer
<1>4. IsPrefix(got[c], Answered(c).reply)
  <2> DEFINE x == got[c]
             y == output[f]
  <2>1. x \in Seq(ReplyByte) /\ y \in Seq(ReplyByte)
    BY <1>0 DEF PlaceInv, Rot13Inv, TypeOK
  <2>2. x \o y = Answered(c).reply
    BY <1>1, <1>2 DEF ReplyInv, ReplyIndependentOfChunks
  <2> HIDE DEF x, y
  <2>3. /\ x \o y \in Seq(ReplyByte) /\ Len(x \o y) = Len(x) + Len(y)
        /\ Len(x) \in Nat /\ Len(y) \in Nat
        /\ \A i \in 1..Len(x) : (x \o y)[i] = x[i]
    BY <2>1
  <2>4. SubSeq(x, 1, Len(x)) = SubSeq(x \o y, 1, Len(x))
    <3>1. \A i \in 1..Len(x) : x[i] \in ReplyByte
      BY <2>1
    <3>2. /\ SubSeq(x \o y, 1, Len(x)) \in Seq(ReplyByte)
          /\ Len(SubSeq(x \o y, 1, Len(x))) = Len(x)
          /\ \A i \in 1..Len(x) : SubSeq(x \o y, 1, Len(x))[i] = (x \o y)[i]
      BY <2>3
    <3>3. SubSeq(x, 1, Len(x)) = x
      BY <2>1, SubSeqFull
    <3>4. \A i \in 1..Len(x) : SubSeq(x \o y, 1, Len(x))[i] = x[i]
      BY <2>3, <3>2
    <3> QED BY <2>1, <3>2, <3>3, <3>4, SeqEqual
  <2>5. IsPrefix(x, x \o y)
    BY <2>3, <2>4 DEF IsPrefix
  <2> QED BY <2>2, <2>5, Zenon DEF x
<1>5. \A g \in FD : /\ bev'[g] = (IF g = f THEN None ELSE bev[g])
                    /\ input'[g] = (IF g = f THEN <<>> ELSE input[g])
                    /\ output'[g] = (IF g = f THEN <<>> ELSE output[g])
  BY <1>0, <1>1 DEF PlaceInv, Rot13Inv, TypeOK
<1>6. ASSUME NEW g \in FD, bev'[g] # None
      PROVE  /\ LET a == Answered(bev[g])'
                IN  input'[g] = a.line /\ got'[bev'[g]] \o output'[g] = a.reply
             /\ Paid(g)'
  <2>1. /\ bev'[g] = bev[g] /\ bev[g] # None
        /\ input'[g] = input[g] /\ output'[g] = output[g]
    BY <1>5, <1>6
  <2>2. Answered(bev[g])' = Answered(bev[g])
    BY <1>1, <2>1 DEF Answered
  <2>3. /\ input[g] = Answered(bev[g]).line
        /\ got[bev[g]] \o output[g] = Answered(bev[g]).reply
    BY <2>1, Zenon DEF ReplyInv, ReplyIndependentOfChunks
  <2>4. Paid(g)
    BY <2>1 DEF ReplyInv, AllPaid
  <2> QED BY <1>1, <2>1, <2>2, <2>3, <2>4 DEF Paid
<1>7. ASSUME NEW d \in Client, ended'[d] = "closed"
      PROVE  IsPrefix(got'[d], Answered(d)'.reply)
  <2>1. CASE d = c
    BY <1>1, <1>3, <1>4, <2>1
  <2>2. CASE d # c
    <3>1. ended[d] = "closed"
      BY <1>0, <1>1, <1>2, <1>7, <2>2 DEF PlaceInv, Rot13Inv, TypeOK
    <3> QED BY <1>1, <1>3, <3>1 DEF ReplyInv, ReplyIndependentOfChunks
  <2> QED BY <2>1, <2>2
<1>8. ReplyIndependentOfChunks'
  BY <1>6, <1>7 DEF ReplyIndependentOfChunks
<1> QED BY <1>6, <1>8 DEF AllPaid

\* What a peer does later changes nothing in the reply to what was read.
LEMMA PeerReply ==
    ASSUME ReplyInv, NEW c \in Client, Peer(c)
    PROVE  (ReplyIndependentOfChunks /\ AllPaid)'
<1>0. PlaceInv
  BY DEF ReplyInv
<1>1. UNCHANGED <<bev, input, output, nread, got>>
  BY Zenon DEF Peer, Connect, Send, End
<1>2. \A d \in Client : ended'[d] = "closed" => ended[d] = "closed"
  <2>1. CASE Connect(c)
    BY <1>0, <2>1 DEF Connect, PlaceInv, Rot13Inv, TypeOK
  <2>2. ASSUME NEW b \in Byte, Send(c, b) PROVE ended' = ended
    BY <2>2, Zenon DEF Send
  <2>3. ASSUME NEW how \in {"eof", "rst"}, End(c, how)
        PROVE  \A d \in Client : ended'[d] = "closed" => ended[d] = "closed"
    BY <1>0, <2>3 DEF End, PlaceInv, Rot13Inv, TypeOK
  <2> QED BY <2>1, <2>2, <2>3 DEF Peer
<1>3. \A d \in Client : Answered(d)' = Answered(d)
  <2> TAKE d \in Client
  <2>1. sent[d] \in Seq(Byte) /\ nread[d] \in 0..Len(sent[d])
    BY <1>0, AnsweredTypes
  <2>2. sent'[d] = sent[d] \/ \E b \in Byte : sent'[d] = Append(sent[d], b)
    <3>1. CASE Connect(c)
      BY <3>1 DEF Connect
    <3>2. ASSUME NEW b \in Byte, Send(c, b)
          PROVE  sent'[d] = sent[d] \/ sent'[d] = Append(sent[d], b)
      <4>1. sent' = [sent EXCEPT ![c] = Append(@, b)]
        BY <3>2, Zenon DEF Send
      <4> QED BY <1>0, <4>1 DEF PlaceInv, Rot13Inv, TypeOK
    <3>3. ASSUME NEW how \in {"eof", "rst"}, End(c, how) PROVE sent'[d] = sent[d]
      BY <3>3 DEF End
    <3> QED BY <3>1, <3>2, <3>3 DEF Peer
  <2>3. SubSeq(sent'[d], 1, nread[d]) = SubSeq(sent[d], 1, nread[d])
    BY <2>1, <2>2, PrefixOfAppend
  <2> QED BY <1>1, <2>3 DEF Answered
<1>4. ASSUME NEW g \in FD, bev[g] # None
      PROVE  /\ LET a == Answered(bev[g])'
                IN  input'[g] = a.line /\ got'[bev[g]] \o output'[g] = a.reply
             /\ Paid(g)'
  <2>1. /\ input[g] = Answered(bev[g]).line
        /\ got[bev[g]] \o output[g] = Answered(bev[g]).reply
    BY <1>4, Zenon DEF ReplyInv, ReplyIndependentOfChunks
  <2>2. PICK d \in Client : d = bev[g]
    BY <1>0, <1>4 DEF PlaceInv, Rot13Inv, TypeOK
  <2>3. Answered(bev[g])' = Answered(bev[g])
    BY <1>1, <1>3, <2>2, Zenon DEF Answered
  <2>4. Paid(g)
    BY <1>4 DEF ReplyInv, AllPaid
  <2> QED BY <1>1, <2>1, <2>3, <2>4 DEF Paid
<1>5. ReplyIndependentOfChunks'
  BY <1>1, <1>2, <1>3, <1>4 DEF ReplyInv, ReplyIndependentOfChunks
<1> QED BY <1>1, <1>4, <1>5 DEF AllPaid

\* The inductive invariant holds in every reachable state.
THEOREM ReplyInvariant == Spec => []ReplyInv
<1>1. Init => ReplyIndependentOfChunks /\ AllPaid
  BY DEF Init, ReplyIndependentOfChunks, AllPaid
<1>2. /\ PlaceInv /\ PlaceInv' /\ ReplyIndependentOfChunks /\ AllPaid
      /\ [Next]_vars
      => (ReplyIndependentOfChunks /\ AllPaid)'
  <2> SUFFICES ASSUME ReplyInv, PlaceInv', [Next]_vars
               PROVE  (ReplyIndependentOfChunks /\ AllPaid)'
    BY DEF ReplyInv
  <2>1. CASE UNCHANGED vars \/ do_acceptFails
    BY <2>1
    DEF do_acceptFails, vars, ReplyInv, ReplyIndependentOfChunks, AllPaid, Paid, Answered
  <2> QED
    BY <2>1, ReadReply, WriteReply, AcceptReply, FreeReply, PeerReply DEF Next
<1> QED BY <1>1, <1>2, PlaceInvariant, PTL DEF Spec, ReplyInv

\* However TCP and libevent cut a stream into reads, whoever else is served and
\* whoever had the descriptor before: the peer gets the reply to its bytes.
THEOREM RepliesDoNotDependOnChunks == Spec => []ReplyIndependentOfChunks
  BY ReplyInvariant, PTL DEF ReplyInv

\* The output of a peer that never reads is bounded by what the peer sends.
THEOREM RepliesAreNotAmplified == Spec => []ReplyIsNotAmplified
<1>1. ReplyInv => ReplyIsNotAmplified
  <2> SUFFICES ASSUME ReplyInv, NEW f \in FD, bev[f] # None
               PROVE  LET c == bev[f]
                          e == Len(got[c]) + Len(output[f]) + Len(input[f]) - nread[c]
                      IN  e >= 0 /\ e * MAX_LINE <= nread[c]
    BY Zenon DEF ReplyIsNotAmplified
  <2> DEFINE n == nread[bev[f]]
             i == Len(input[f])
             e == Len(got[bev[f]]) + Len(output[f]) + i - n
             m == e * MAX_LINE
  <2>1. Paid(f)
    BY DEF ReplyInv, AllPaid
  <2>2. e >= 0 /\ m + i <= n
    BY <2>1 DEF Paid
  <2>3. bev[f] \in Client
    BY DEF ReplyInv, PlaceInv, Rot13Inv, TypeOK
  <2>4. /\ n \in Nat /\ input[f] \in Seq(Byte) /\ output[f] \in Seq(ReplyByte)
        /\ got[bev[f]] \in Seq(ReplyByte) /\ MAX_LINE \in Nat
    BY <2>3, Rot13Assumption DEF ReplyInv, PlaceInv, Rot13Inv, TypeOK, Rot13Assumption
  <2>5. n \in Nat /\ i \in Nat /\ e \in Int
    <3>1. \A S : \A t \in Seq(S) : Len(t) \in Nat
      BY LenProperties
    <3> DEFINE x == Len(got[bev[f]])
               y == Len(output[f])
    <3>2. x \in Nat /\ y \in Nat /\ i \in Nat
      BY <2>4, <3>1, Zenon
    <3> HIDE DEF x, y, i, n
    <3>3. x + y + i - n \in Int
      BY <2>4, <3>2
    <3> QED BY <2>4, <3>2, <3>3, Zenon DEF x, y
  <2>6. m \in Int
    <3> HIDE DEF e
    <3> QED BY <2>4, <2>5
  <2> HIDE DEF m, n, i
  <2>7. m <= n
    BY <2>2, <2>5, <2>6
  <2> QED BY <2>2, <2>7 DEF m, n, i
<1> QED BY <1>1, ReplyInvariant, PTL


=============================================================================
