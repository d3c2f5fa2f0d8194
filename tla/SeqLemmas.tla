------------------------------ MODULE SeqLemmas ------------------------------
(***************************************************************************)
(* Lemmas on sequences: queues of distinct elements, such as the accept    *)
(* queue and the pipe, and streams that are read piece by piece.           *)
(***************************************************************************)
EXTENDS SequenceTheorems, TLAPS

\* Append adds one element, and keeps the elements distinct if it is new.
LEMMA AppendRange ==
    ASSUME NEW S, NEW s \in Seq(S), NEW x \in S
    PROVE  /\ Append(s, x) \in Seq(S)
           /\ Range(Append(s, x)) = Range(s) \cup {x}
           /\ IsInjective(s) /\ x \notin Range(s) => IsInjective(Append(s, x))
<1> DEFINE t == Append(s, x)
<1>1. /\ t \in Seq(S)
      /\ Len(t) = Len(s) + 1
      /\ Len(s) \in Nat
      /\ \A i \in 1..Len(s) : t[i] = s[i]
      /\ t[Len(s) + 1] = x
      /\ DOMAIN t = 1..(Len(s) + 1)
      /\ DOMAIN s = 1..Len(s)
  BY AppendProperties, LenProperties
<1> HIDE DEF t
<1>2. Range(t) = Range(s) \cup {x}
  <2>1. ASSUME NEW y \in Range(t) PROVE y \in Range(s) \cup {x}
    <3>1. PICK i \in 1..(Len(s) + 1) : y = t[i]
      BY <1>1, <2>1 DEF Range
    <3>2. CASE i = Len(s) + 1
      BY <1>1, <3>1, <3>2
    <3>3. CASE i \in 1..Len(s)
      BY <1>1, <3>1, <3>3 DEF Range
    <3> QED BY <1>1, <3>2, <3>3
  <2>2. ASSUME NEW y \in Range(s) PROVE y \in Range(t)
    <3>1. PICK i \in 1..Len(s) : y = s[i]
      BY <1>1, <2>2 DEF Range
    <3>2. i \in DOMAIN t /\ t[i] = y
      BY <1>1, <3>1
    <3> QED BY <3>2 DEF Range
  <2>3. x \in Range(t)
    <3>1. Len(s) + 1 \in DOMAIN t
      BY <1>1
    <3> QED BY <1>1, <3>1 DEF Range
  <2> QED BY <2>1, <2>2, <2>3
<1>3. ASSUME IsInjective(s), x \notin Range(s) PROVE IsInjective(t)
  <2> SUFFICES ASSUME NEW i \in 1..(Len(s) + 1), NEW j \in 1..(Len(s) + 1),
                      t[i] = t[j]
               PROVE  i = j
    BY <1>1 DEF IsInjective
  <2>1. \A k \in 1..Len(s) : s[k] # x
    BY <1>1, <1>3 DEF Range
  <2>2. CASE i \in 1..Len(s) /\ j \in 1..Len(s)
    BY <1>1, <1>3, <2>2 DEF IsInjective
  <2>3. CASE i = Len(s) + 1 \/ j = Len(s) + 1
    BY <1>1, <2>1, <2>3
  <2> QED BY <1>1, <2>2, <2>3
<1> QED BY <1>1, <1>2, <1>3 DEF t

\* Taking the head of a queue of distinct elements leaves all the others.
LEMMA TailRange ==
    ASSUME NEW S, NEW s \in Seq(S), s # <<>>
    PROVE  /\ Head(s) \in Range(s)
           /\ Head(s) \in S
           /\ Tail(s) \in Seq(S)
           /\ Range(s) = Range(Tail(s)) \cup {Head(s)}
           /\ IsInjective(s) =>
                 IsInjective(Tail(s)) /\ Head(s) \notin Range(Tail(s))
<1> DEFINE t == Tail(s)
           n == Len(s)
<1>1. /\ t \in Seq(S)
      /\ n \in Nat \ {0}
      /\ Len(t) = n - 1
      /\ \A i \in 1..(n - 1) : t[i] = s[i + 1]
      /\ Head(s) = s[1]
      /\ Head(s) \in S
      /\ DOMAIN t = 1..(n - 1)
      /\ DOMAIN s = 1..n
  BY HeadTailProperties, LenProperties, EmptySeq
<1> HIDE DEF t, n
<1>2. Head(s) \in Range(s)
  <2>1. 1 \in DOMAIN s
    BY <1>1
  <2> QED BY <1>1, <2>1 DEF Range
<1>3. Range(s) = Range(t) \cup {Head(s)}
  <2>1. ASSUME NEW y \in Range(s) PROVE y \in Range(t) \cup {Head(s)}
    <3>1. PICK i \in 1..n : y = s[i]
      BY <1>1, <2>1 DEF Range
    <3>2. CASE i = 1
      BY <1>1, <3>1, <3>2
    <3>3. CASE i # 1
      <4>1. i - 1 \in DOMAIN t /\ t[i - 1] = y
        BY <1>1, <3>1, <3>3
      <4> QED BY <4>1 DEF Range
    <3> QED BY <3>2, <3>3
  <2>2. ASSUME NEW y \in Range(t) PROVE y \in Range(s)
    <3>1. PICK i \in 1..(n - 1) : y = t[i]
      BY <1>1, <2>2 DEF Range
    <3>2. i + 1 \in DOMAIN s /\ s[i + 1] = y
      BY <1>1, <3>1
    <3> QED BY <3>2 DEF Range
  <2> QED BY <1>2, <2>1, <2>2
<1>4. ASSUME IsInjective(s)
      PROVE  IsInjective(t) /\ Head(s) \notin Range(t)
  <2>1. \A i \in 1..(n - 1) : i + 1 \in 1..n
    BY <1>1
  <2>2. IsInjective(t)
    <3> SUFFICES ASSUME NEW i \in 1..(n - 1), NEW j \in 1..(n - 1), t[i] = t[j]
                 PROVE  i = j
      BY <1>1 DEF IsInjective
    <3>1. s[i + 1] = s[j + 1] /\ i + 1 \in 1..n /\ j + 1 \in 1..n
      BY <1>1, <2>1
    <3>2. i + 1 = j + 1
      BY <1>1, <1>4, <3>1 DEF IsInjective
    <3> QED BY <3>2
  <2>3. ASSUME NEW i \in 1..(n - 1) PROVE t[i] # Head(s)
    <3>1. SUFFICES ASSUME s[i + 1] = s[1] PROVE FALSE
      BY <1>1
    <3>2. i + 1 = 1
      BY <1>1, <1>4, <2>1, <3>1 DEF IsInjective
    <3> QED BY <3>2
  <2> QED BY <1>1, <2>2, <2>3 DEF Range
<1> QED BY <1>1, <1>2, <1>3, <1>4 DEF t

\* Appending to the second of two sequences appends to both together.
LEMMA ConcatAppend ==
    ASSUME NEW S, NEW s \in Seq(S), NEW t \in Seq(S), NEW x \in S
    PROVE  /\ s \o t \in Seq(S)
           /\ Len(s \o t) = Len(s) + Len(t)
           /\ s \o Append(t, x) = Append(s \o t, x)
<1>1. /\ s \o t \in Seq(S) /\ Len(s \o t) = Len(s) + Len(t)
      /\ <<x>> \in Seq(S)
  BY ConcatProperties
<1>2. Append(t, x) = t \o <<x>> /\ Append(s \o t, x) = (s \o t) \o <<x>>
  BY <1>1, AppendIsConcat
<1>3. (s \o t) \o <<x>> = s \o (t \o <<x>>)
  BY <1>1, ConcatAssociative
<1> QED BY <1>1, <1>2, <1>3, Zenon

\* The first n elements, and k of the others, are the first n + k.
LEMMA PrefixGrows ==
    ASSUME NEW S, NEW s \in Seq(S), NEW n \in 0..Len(s), NEW k \in 0..(Len(s) - n)
    PROVE  LET u == SubSeq(s, n + 1, Len(s))
           IN  /\ SubSeq(s, 1, n) \in Seq(S)
               /\ u \in Seq(S)
               /\ Len(u) = Len(s) - n
               /\ SubSeq(u, 1, k) \in Seq(S)
               /\ Len(SubSeq(u, 1, k)) = k
               /\ SubSeq(s, 1, n) \o SubSeq(u, 1, k) = SubSeq(s, 1, n + k)
<1> DEFINE u == SubSeq(s, n + 1, Len(s))
<1>1. /\ n \in Nat /\ k \in Nat /\ Len(s) \in Nat
      /\ SubSeq(s, 1, n) \in Seq(S)
      /\ u \in Seq(S)
      /\ Len(u) = Len(s) - n
      /\ \A i \in 1..(Len(s) - n) : u[i] = s[n + i]
  OBVIOUS
<1> HIDE DEF u
<1>2. /\ SubSeq(u, 1, k) \in Seq(S)
      /\ Len(SubSeq(u, 1, k)) = k
      /\ \A i \in 1..k : SubSeq(u, 1, k)[i] = u[i]
  BY <1>1
<1>3. SubSeq(u, 1, k) = SubSeq(s, n + 1, n + k)
  <2>1. /\ SubSeq(s, n + 1, n + k) \in Seq(S)
        /\ Len(SubSeq(s, n + 1, n + k)) = k
        /\ \A i \in 1..k : SubSeq(s, n + 1, n + k)[i] = s[n + i]
    BY <1>1
  <2>2. \A i \in 1..k : SubSeq(u, 1, k)[i] = SubSeq(s, n + 1, n + k)[i]
    BY <1>1, <1>2, <2>1
  <2> QED BY <1>2, <2>1, <2>2, SeqEqual
<1>4. SubSeq(s, 1, n) \o SubSeq(s, n + 1, n + k) = SubSeq(s, 1, n + k)
  <2>1. 1 \in 1..(Len(s) + 1) /\ n \in (1 - 1)..Len(s) /\ n + k \in n..Len(s)
    BY <1>1
  <2> QED BY <2>1, ConcatAdjacentSubSeq
<1>5. SubSeq(s, 1, n) \o SubSeq(u, 1, k) = SubSeq(s, 1, n + k)
  BY <1>3, <1>4, Zenon
<1> QED BY <1>1, <1>2, <1>5, Zenon DEF u

\* What comes after does not change the first n elements.
LEMMA PrefixOfAppend ==
    ASSUME NEW S, NEW s \in Seq(S), NEW x \in S, NEW n \in 0..Len(s)
    PROVE  /\ Append(s, x) \in Seq(S)
           /\ Len(Append(s, x)) = Len(s) + 1
           /\ SubSeq(Append(s, x), 1, n) = SubSeq(s, 1, n)
<1> DEFINE t == Append(s, x)
<1>1. /\ t \in Seq(S) /\ Len(t) = Len(s) + 1 /\ Len(s) \in Nat /\ n \in Nat
      /\ \A i \in 1..Len(s) : t[i] = s[i]
  OBVIOUS
<1> HIDE DEF t
<1>2. /\ SubSeq(t, 1, n) \in Seq(S) /\ Len(SubSeq(t, 1, n)) = n
      /\ SubSeq(s, 1, n) \in Seq(S) /\ Len(SubSeq(s, 1, n)) = n
      /\ \A i \in 1..n : SubSeq(t, 1, n)[i] = t[i] /\ SubSeq(s, 1, n)[i] = s[i]
  BY <1>1
<1>3. \A i \in 1..n : SubSeq(t, 1, n)[i] = SubSeq(s, 1, n)[i]
  BY <1>1, <1>2
<1>4. SubSeq(t, 1, n) = SubSeq(s, 1, n)
  BY <1>2, <1>3, SeqEqual
<1> QED BY <1>1, <1>4, Zenon DEF t

\* A sequence cut in two.
LEMMA SplitAt ==
    ASSUME NEW S, NEW s \in Seq(S), NEW k \in 0..Len(s)
    PROVE  /\ SubSeq(s, 1, k) \in Seq(S)
           /\ SubSeq(s, k + 1, Len(s)) \in Seq(S)
           /\ Len(SubSeq(s, 1, k)) = k
           /\ Len(SubSeq(s, k + 1, Len(s))) = Len(s) - k
           /\ SubSeq(s, 1, k) \o SubSeq(s, k + 1, Len(s)) = s
<1>1. /\ k \in Nat /\ Len(s) \in Nat
      /\ SubSeq(s, 1, k) \in Seq(S)
      /\ SubSeq(s, k + 1, Len(s)) \in Seq(S)
      /\ Len(SubSeq(s, 1, k)) = k
      /\ Len(SubSeq(s, k + 1, Len(s))) = Len(s) - k
  OBVIOUS
<1>2. 1 \in 1..(Len(s) + 1) /\ k \in (1 - 1)..Len(s) /\ Len(s) \in k..Len(s)
  BY <1>1
<1>3. SubSeq(s, 1, k) \o SubSeq(s, k + 1, Len(s)) = SubSeq(s, 1, Len(s))
  BY <1>2, ConcatAdjacentSubSeq
<1> QED BY <1>1, <1>3, SubSeqFull

\* What the members of a queue name.
Names(m, s) == [i \in DOMAIN s |-> m[s[i]]]

\* A queue of numbers and the queue of what they name move together.
LEMMA NamesAppend ==
    ASSUME NEW S, NEW m, NEW s \in Seq(S), NEW x \in S
    PROVE  Names(m, Append(s, x)) = Append(Names(m, s), m[x])
<1> DEFINE T == {m[e] : e \in S}
           a == Append(s, x)
           u == Names(m, s)
           v == Names(m, a)
<1>1. /\ a \in Seq(S) /\ Len(s) \in Nat /\ Len(a) = Len(s) + 1
      /\ \A i \in 1..Len(s) : a[i] = s[i] /\ s[i] \in S
      /\ a[Len(s) + 1] = x
      /\ DOMAIN a = 1..(Len(s) + 1) /\ DOMAIN s = 1..Len(s)
  BY AppendProperties, LenProperties
<1>0. \A e \in S : m[e] \in T
  OBVIOUS
<1> HIDE DEF a, T
<1>2. u \in Seq(T) /\ Len(u) = Len(s) /\ \A i \in 1..Len(s) : u[i] = m[s[i]]
  <2>1. u \in [1..Len(s) -> T]
    BY <1>0, <1>1 DEF Names
  <2> QED BY <1>1, <2>1, SeqDef DEF Names
<1>3. v \in Seq(T) /\ Len(v) = Len(s) + 1
  <2>1. \A i \in 1..(Len(s) + 1) : a[i] \in S
    BY <1>1
  <2>2. v \in [1..(Len(s) + 1) -> T]
    BY <1>0, <1>1, <2>1 DEF Names
  <2> QED BY <1>1, <2>2, SeqDef
<1>4. \A i \in 1..(Len(s) + 1) : v[i] = m[a[i]]
  BY <1>1 DEF Names
<1> HIDE DEF u, v
<1>5. m[x] \in T
  BY <1>0
<1>6. /\ Append(u, m[x]) \in Seq(T) /\ Len(Append(u, m[x])) = Len(s) + 1
      /\ \A i \in 1..Len(s) : Append(u, m[x])[i] = u[i]
      /\ Append(u, m[x])[Len(s) + 1] = m[x]
  BY <1>1, <1>2, <1>5
<1>7. \A i \in 1..(Len(s) + 1) : v[i] = Append(u, m[x])[i]
  <2> SUFFICES ASSUME NEW i \in 1..(Len(s) + 1) PROVE v[i] = Append(u, m[x])[i]
    OBVIOUS
  <2>1. CASE i = Len(s) + 1
    BY <1>1, <1>4, <1>6, <2>1
  <2>2. CASE i \in 1..Len(s)
    <3>1. v[i] = m[a[i]] /\ a[i] = s[i]
      BY <1>1, <1>4, <2>2
    <3>2. u[i] = m[s[i]]
      BY <1>2, <2>2, Zenon
    <3>3. Append(u, m[x])[i] = u[i]
      BY <1>6, <2>2, Zenon
    <3> QED BY <3>1, <3>2, <3>3, Zenon
  <2>3. i = Len(s) + 1 \/ i \in 1..Len(s)
    <3>1. Len(s) \in Nat
      BY <1>1
    <3> QED BY <3>1
  <2> QED BY <2>1, <2>2, <2>3, Zenon
<1>8. v = Append(u, m[x])
  BY <1>3, <1>6, <1>7, SeqEqual
<1> QED BY <1>8 DEF a, u, v

LEMMA NamesTail ==
    ASSUME NEW S, NEW m, NEW s \in Seq(S), s # <<>>
    PROVE  /\ Names(m, s) # <<>>
           /\ Head(Names(m, s)) = m[Head(s)]
           /\ Names(m, Tail(s)) = Tail(Names(m, s))
<1> DEFINE T == {m[e] : e \in S}
           t == Tail(s)
           u == Names(m, s)
           v == Names(m, t)
           n == Len(s)
<1>1. /\ t \in Seq(S) /\ n \in Nat \ {0} /\ Len(t) = n - 1
      /\ \A i \in 1..(n - 1) : t[i] = s[i + 1]
      /\ Head(s) = s[1]
      /\ \A i \in 1..n : s[i] \in S
      /\ DOMAIN t = 1..(n - 1) /\ DOMAIN s = 1..n
  BY HeadTailProperties, LenProperties, EmptySeq, ElementOfSeq
<1>0. \A e \in S : m[e] \in T
  OBVIOUS
<1> HIDE DEF t, n, T
<1>2. u \in Seq(T) /\ Len(u) = n /\ \A i \in 1..n : u[i] = m[s[i]]
  <2>1. u \in [1..n -> T]
    BY <1>0, <1>1 DEF Names
  <2> QED BY <1>1, <2>1, SeqDef DEF Names
<1>3. v \in Seq(T) /\ Len(v) = n - 1
  <2>1. \A i \in 1..(n - 1) : t[i] \in S
    BY <1>1
  <2>2. v \in [1..(n - 1) -> T] /\ n - 1 \in Nat
    BY <1>0, <1>1, <2>1 DEF Names
  <2> QED BY <1>1, <2>2, SeqDef
<1>4. \A i \in 1..(n - 1) : v[i] = m[t[i]]
  BY <1>1 DEF Names
<1> HIDE DEF u, v
<1>5. u # <<>> /\ Head(u) = m[Head(s)]
  <2>1. u # <<>>
    BY <1>1, <1>2, EmptySeq
  <2>2. Head(u) = u[1] /\ 1 \in 1..n
    BY <1>1, <1>2, <2>1
  <2> QED BY <1>1, <1>2, <2>1, <2>2
<1>6. /\ Tail(u) \in Seq(T) /\ Len(Tail(u)) = n - 1
      /\ \A i \in 1..(n - 1) : Tail(u)[i] = u[i + 1]
  BY <1>1, <1>2, <1>5, HeadTailProperties
<1>7. \A i \in 1..(n - 1) : v[i] = Tail(u)[i]
  <2>1. \A i \in 1..(n - 1) : i + 1 \in 1..n
    BY <1>1
  <2> QED BY <1>1, <1>2, <1>4, <1>6, <2>1
<1>8. v = Tail(u)
  BY <1>3, <1>6, <1>7, SeqEqual
<1> QED BY <1>5, <1>8 DEF t, u, v

=============================================================================
