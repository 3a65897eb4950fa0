--------------------------- MODULE CaptureFileProofs --------------------------
(***************************************************************************)
(* The writer of a stream, and the sections of a capture file.             *)
(*                                                                         *)
(* For any number and size of blocks: a file writer with a thread is the   *)
(* sink that ByteSink describes, and never loses a block.                  *)
(*                                                                         *)
(* For any files, sections and sizes of headers: what was written last is  *)
(* in the file, where the table says that can be read from it.  A file is  *)
(* Whole up to an offset with a table of sections and their last writes    *)
(* when they follow each other up to there.  The lemmas say what writing,  *)
(* truncating and moving cells does to that, and that the parser finds the *)
(* table of a whole file (ParsedLayout).  The inductive invariant          *)
(* SectionsInv is about files that a write failed in too: their frame      *)
(* capture is in front, and what is written goes behind it.                *)
(***************************************************************************)
EXTENDS FileWriter, RDCFile, SequenceTheorems, WellFoundedInduction, TLAPS

-----------------------------------------------------------------------------
(* FileWriter.                                                             *)

\* The bytes after the a-th, up to the b-th.
Bytes(a, b) == [i \in 1 .. b - a |-> a + i]

Blocks == [base : 1 .. NumBlocks, data : {d \in Seq(Nat) : Len(d) <= BlockSize}]

\* The blocks have these bytes, one after the other.
Chain(blocks, a, b) ==
    \E pos \in [1 .. Len(blocks) + 1 -> a .. b] :
        /\ pos[1] = a /\ pos[Len(blocks) + 1] = b
        /\ \A i \in 1 .. Len(blocks) :
             pos[i] <= pos[i + 1] /\ blocks[i].data = Bytes(pos[i], pos[i + 1])

Empty(blocks) == \A i \in 1 .. Len(blocks) : blocks[i].data = <<>>
Full(blocks)  == \A i \in 1 .. Len(blocks) : blocks[i].data # <<>>

Bases(blocks) == {blocks[i].base : i \in 1 .. Len(blocks)}

-----------------------------------------------------------------------------
(* Bytes.                                                                  *)

LEMMA BytesLength ==
    ASSUME NEW a \in Nat, NEW b \in Nat, a <= b
    PROVE  /\ Bytes(a, b) \in Seq(Nat) /\ Len(Bytes(a, b)) = b - a
           /\ \A i \in 1 .. b - a : Bytes(a, b)[i] = a + i
BY DEF Bytes

LEMMA NoBytes ==
    ASSUME NEW a \in Nat, NEW b \in Nat, a <= b
    PROVE  Bytes(a, b) = <<>> <=> a = b
<1>1. Len(Bytes(a, b)) = b - a /\ Bytes(a, b) \in Seq(Nat)
  BY BytesLength
<1> QED BY <1>1, EmptySeq

LEMMA BytesConcat ==
    ASSUME NEW a \in Nat, NEW b \in Nat, NEW c \in Nat, a <= b, b <= c
    PROVE  Bytes(a, b) \o Bytes(b, c) = Bytes(a, c)
<1> DEFINE r == Bytes(a, b)  s == Bytes(b, c)  t == Bytes(a, c)  u == r \o s
<1>1. r \in Seq(Nat) /\ Len(r) = b - a /\ \A i \in 1 .. b - a : r[i] = a + i
  BY BytesLength
<1>2. s \in Seq(Nat) /\ Len(s) = c - b /\ \A i \in 1 .. c - b : s[i] = b + i
  BY BytesLength
<1>3. t \in Seq(Nat) /\ Len(t) = c - a /\ \A i \in 1 .. c - a : t[i] = a + i
  BY BytesLength
<1> HIDE DEF r, s, t
<1>4. /\ u \in Seq(Nat) /\ Len(u) = Len(r) + Len(s)
      /\ \A i \in 1 .. Len(r) + Len(s) : u[i] = IF i <= Len(r) THEN r[i] ELSE s[i - Len(r)]
  BY <1>1, <1>2, ConcatProperties
<1> HIDE DEF u
<1>5. Len(u) = Len(t)
  BY <1>1, <1>2, <1>3, <1>4
<1>6. ASSUME NEW i \in 1 .. Len(u) PROVE u[i] = t[i]
  <2>1. i \in 1 .. c - a /\ t[i] = a + i /\ i \in 1 .. Len(r) + Len(s)
    BY <1>1, <1>2, <1>3, <1>4
  <2>2. CASE i <= b - a
    BY <1>1, <1>4, <2>1, <2>2
  <2>3. CASE i > b - a
    BY <1>1, <1>4, <2>1, <2>3, <1>2
  <2> QED BY <2>2, <2>3
<1>7. u = t
  BY <1>3, <1>4, <1>5, <1>6, SeqEqual
<1> QED BY <1>7 DEF r, s, t, u

LEMMA BytesTaken ==
    ASSUME NEW a \in Nat, NEW b \in Nat, NEW n \in Nat, a + n <= b
    PROVE  /\ SubSeq(Bytes(a, b), 1, n) = Bytes(a, a + n)
           /\ SubSeq(Bytes(a, b), n + 1, Len(Bytes(a, b))) = Bytes(a + n, b)
<1> DEFINE r == Bytes(a, b)  s == Bytes(a, a + n)  t == Bytes(a + n, b)
           u == SubSeq(r, 1, n)  v == SubSeq(r, n + 1, Len(r))
<1>1. r \in Seq(Nat) /\ Len(r) = b - a /\ \A i \in 1 .. b - a : r[i] = a + i
  BY BytesLength
<1>2. s \in Seq(Nat) /\ Len(s) = n /\ \A i \in 1 .. n : s[i] = a + i
  <2>1. a + n \in Nat /\ a <= a + n /\ a + n - a = n
    OBVIOUS
  <2> QED BY <2>1, BytesLength
<1>3. t \in Seq(Nat) /\ Len(t) = b - a - n /\ \A i \in 1 .. b - a - n : t[i] = a + n + i
  <2>1. a + n \in Nat /\ b - (a + n) = b - a - n
    OBVIOUS
  <2> QED BY <2>1, BytesLength
<1> HIDE DEF r, s, t
<1>4. \A i \in 1 .. Len(r) : r[i] \in Nat
  BY <1>1
<1>5. /\ u \in Seq(Nat) /\ Len(u) = IF 1 <= n THEN n - 1 + 1 ELSE 0
      /\ \A i \in 1 .. n - 1 + 1 : u[i] = r[1 + i - 1]
  BY <1>1, <1>4, SubSeqProperties
<1>6. /\ v \in Seq(Nat) /\ Len(v) = IF n + 1 <= Len(r) THEN Len(r) - (n + 1) + 1 ELSE 0
      /\ \A i \in 1 .. Len(r) - (n + 1) + 1 : v[i] = r[n + 1 + i - 1]
  BY <1>1, <1>4, SubSeqProperties
<1> HIDE DEF u, v
<1>7. u = s
  <2>1. Len(u) = Len(s) /\ \A i \in 1 .. Len(u) : u[i] = s[i]
    BY <1>1, <1>2, <1>5
  <2> QED BY <2>1, <1>2, <1>5, SeqEqual
<1>8. v = t
  <2>1. Len(v) = Len(t) /\ \A i \in 1 .. Len(v) : v[i] = t[i]
    BY <1>1, <1>3, <1>6
  <2> QED BY <2>1, <1>3, <1>6, SeqEqual
<1> QED BY <1>7, <1>8 DEF r, s, t, u, v

-----------------------------------------------------------------------------
(* Lists of blocks.                                                        *)

LEMMA LeastNatural ==
    ASSUME NEW T \in SUBSET Nat, T # {}
    PROVE  \E n \in T : \A k \in T : n <= k
<1> DEFINE R == OpToRel(<, Nat)
<1>1. \A x, y \in Nat : <<x, y>> \in R <=> x < y
  BY DEF OpToRel
<1>2. IsWellFoundedOn(R, Nat)
  BY NatLessThanWellFounded
<1> HIDE DEF R
<1>3. PICK n \in T : \A k \in T : ~ (<<k, n>> \in R)
  BY <1>2, WFMin
<1>4. ASSUME NEW k \in T PROVE n <= k
  <2>1. k \in Nat /\ n \in Nat /\ ~(k < n)
    BY <1>1, <1>3
  <2> QED BY <2>1
<1> QED BY <1>3, <1>4

LEMMA ChainOfNone ==
    ASSUME NEW a \in Nat
    PROVE  Chain(<<>>, a, a)
<1> DEFINE pos == [i \in 1 .. 1 |-> a]
<1>1. pos \in [1 .. 1 -> a .. a] /\ pos[1] = a
  OBVIOUS
<1>2. Len(<<>>) = 0 /\ 1 .. 0 = {} /\ 0 + 1 = 1
  OBVIOUS
<1> HIDE DEF pos
<1> QED BY <1>1, <1>2 DEF Chain

LEMMA ChainBounds ==
    ASSUME NEW S, NEW s \in Seq(S), NEW a \in Nat, NEW b \in Nat, Chain(s, a, b)
    PROVE  a <= b
BY DEF Chain

LEMMA ChainEmpty ==
    ASSUME NEW S, NEW s \in Seq(S), NEW a \in Nat, NEW b \in Nat, Chain(s, a, b), Empty(s)
    PROVE  a = b
<1>1. PICK pos \in [1 .. Len(s) + 1 -> a .. b] :
        /\ pos[1] = a /\ pos[Len(s) + 1] = b
        /\ \A i \in 1 .. Len(s) : pos[i] <= pos[i + 1] /\ s[i].data = Bytes(pos[i], pos[i + 1])
  BY DEF Chain
<1> DEFINE T == {i \in 1 .. Len(s) + 1 : pos[i] # a}
<1>2. ASSUME NEW i \in 1 .. Len(s) PROVE pos[i] = pos[i + 1]
  <2>1. i \in 1 .. Len(s) + 1 /\ i + 1 \in 1 .. Len(s) + 1
    OBVIOUS
  <2>2. pos[i] \in Nat /\ pos[i + 1] \in Nat /\ pos[i] <= pos[i + 1]
    BY <1>1, <2>1
  <2>3. Bytes(pos[i], pos[i + 1]) = <<>>
    BY <1>1 DEF Empty
  <2> QED BY <2>2, <2>3, NoBytes
<1>3. CASE T = {}
  <2>1. Len(s) + 1 \in 1 .. Len(s) + 1
    OBVIOUS
  <2> QED BY <1>1, <1>3, <2>1
<1>4. CASE T # {}
  <2>1. T \in SUBSET Nat
    OBVIOUS
  <2>2. PICK n \in T : \A k \in T : n <= k
    BY <1>4, <2>1, LeastNatural
  <2>3. n \in 2 .. Len(s) + 1
    BY <1>1, <2>2
  <2>4. n - 1 \in 1 .. Len(s) + 1 /\ n - 1 \notin T
    BY <2>2, <2>3
  <2>5. n - 1 \in 1 .. Len(s) /\ n - 1 + 1 = n /\ pos[n - 1] = a /\ pos[n] # a
    BY <2>2, <2>3, <2>4
  <2> QED BY <1>2, <2>5
<1> QED BY <1>3, <1>4

LEMMA EmptyChain ==
    ASSUME NEW S, NEW s \in Seq(S), NEW a \in Nat, Empty(s)
    PROVE  Chain(s, a, a)
<1> DEFINE pos == [i \in 1 .. Len(s) + 1 |-> a]
<1>1. /\ pos \in [1 .. Len(s) + 1 -> a .. a] /\ Len(s) \in Nat
      /\ \A i \in 1 .. Len(s) + 1 : pos[i] = a
  OBVIOUS
<1>2. Bytes(a, a) = <<>>
  BY NoBytes
<1> HIDE DEF pos
<1>3. pos[1] = a /\ pos[Len(s) + 1] = a
  BY <1>1
<1>4. ASSUME NEW i \in 1 .. Len(s)
      PROVE  pos[i] <= pos[i + 1] /\ s[i].data = Bytes(pos[i], pos[i + 1])
  BY <1>1, <1>2 DEF Empty
<1> QED BY <1>1, <1>3, <1>4 DEF Chain

LEMMA ChainConcat ==
    ASSUME NEW S, NEW s \in Seq(S), NEW t \in Seq(S),
           NEW a \in Nat, NEW b \in Nat, NEW c \in Nat, Chain(s, a, b), Chain(t, b, c)
    PROVE  Chain(s \o t, a, c)
<1>1. PICK p \in [1 .. Len(s) + 1 -> a .. b] :
        /\ p[1] = a /\ p[Len(s) + 1] = b
        /\ \A i \in 1 .. Len(s) : p[i] <= p[i + 1] /\ s[i].data = Bytes(p[i], p[i + 1])
  BY DEF Chain
<1>2. PICK q \in [1 .. Len(t) + 1 -> b .. c] :
        /\ q[1] = b /\ q[Len(t) + 1] = c
        /\ \A i \in 1 .. Len(t) : q[i] <= q[i + 1] /\ t[i].data = Bytes(q[i], q[i + 1])
  BY DEF Chain
<1> DEFINE u == s \o t
           pos == [i \in 1 .. Len(u) + 1 |-> IF i <= Len(s) THEN p[i] ELSE q[i - Len(s)]]
<1>3. Len(s) \in Nat /\ Len(t) \in Nat
  OBVIOUS
<1>4. /\ Len(u) = Len(s) + Len(t)
      /\ \A i \in 1 .. Len(s) + Len(t) : u[i] = IF i <= Len(s) THEN s[i] ELSE t[i - Len(s)]
  BY ConcatProperties
<1> HIDE DEF u
<1>5. a <= b /\ b <= c
  BY ChainBounds
<1>6. /\ pos \in [1 .. Len(u) + 1 -> a .. c]
      /\ \A i \in 1 .. Len(s) + 1 : pos[i] = p[i]
      /\ \A i \in 1 .. Len(t) + 1 : pos[i + Len(s)] = q[i]
  <2>1. ASSUME NEW i \in 1 .. Len(u) + 1
        PROVE  (IF i <= Len(s) THEN p[i] ELSE q[i - Len(s)]) \in a .. c
    <3>1. CASE i <= Len(s)
      BY <1>1, <1>3, <1>5, <3>1
    <3>2. CASE i > Len(s)
      <4>1. i - Len(s) \in 1 .. Len(t) + 1
        BY <1>3, <1>4, <3>2
      <4>2. q[i - Len(s)] \in b .. c
        BY <1>2, <4>1
      <4>3. q[i - Len(s)] \in a .. c
        BY <1>5, <4>2
      <4> QED BY <1>3, <3>2, <4>3
    <3> QED BY <1>3, <3>1, <3>2
  <2>2. ASSUME NEW i \in 1 .. Len(s) + 1 PROVE pos[i] = p[i]
    BY <1>3, <1>4, <1>1, <1>2
  <2>3. ASSUME NEW i \in 1 .. Len(t) + 1 PROVE pos[i + Len(s)] = q[i]
    BY <1>3, <1>4
  <2> QED BY <2>1, <2>2, <2>3
<1> HIDE DEF pos
<1>7. pos[1] = a /\ pos[Len(u) + 1] = c
  <2>1. 1 \in 1 .. Len(s) + 1 /\ Len(t) + 1 \in 1 .. Len(t) + 1 /\ Len(t) + 1 + Len(s) = Len(u) + 1
    BY <1>3, <1>4
  <2> QED BY <1>1, <1>2, <1>6, <2>1
<1>8. ASSUME NEW i \in 1 .. Len(u)
      PROVE  pos[i] <= pos[i + 1] /\ u[i].data = Bytes(pos[i], pos[i + 1])
  <2>1. CASE i <= Len(s)
    <3>1. i \in 1 .. Len(s) /\ i \in 1 .. Len(s) + 1 /\ i + 1 \in 1 .. Len(s) + 1 /\ u[i] = s[i]
      BY <1>3, <1>4, <2>1
    <3> QED BY <1>1, <1>6, <3>1
  <2>2. CASE i > Len(s)
    <3> DEFINE j == i - Len(s)
    <3>1. /\ j \in 1 .. Len(t) /\ j \in 1 .. Len(t) + 1 /\ j + 1 \in 1 .. Len(t) + 1
          /\ j + Len(s) = i /\ j + 1 + Len(s) = i + 1
      BY <1>3, <1>4, <2>2
    <3>2. u[i] = t[j]
      BY <1>3, <1>4, <2>2
    <3> HIDE DEF j
    <3>3. pos[i] = q[j] /\ pos[i + 1] = q[j + 1]
      BY <1>6, <3>1
    <3> QED BY <1>2, <3>1, <3>2, <3>3
  <2> QED BY <1>3, <2>1, <2>2
<1>9. Chain(u, a, c)
  BY <1>6, <1>7, <1>8 DEF Chain
<1> QED BY <1>9 DEF u

LEMMA ChainOfOne ==
    ASSUME NEW e, NEW a \in Nat, NEW b \in Nat, a <= b, e.data = Bytes(a, b)
    PROVE  Chain(<<e>>, a, b)
<1> DEFINE pos == [i \in 1 .. 2 |-> IF i = 1 THEN a ELSE b]
<1>1. pos \in [1 .. 2 -> a .. b] /\ pos[1] = a /\ pos[2] = b
  OBVIOUS
<1>2. Len(<<e>>) = 1 /\ <<e>>[1] = e /\ 1 + 1 = 2 /\ 1 .. 1 = {1}
  OBVIOUS
<1> HIDE DEF pos
<1> QED BY <1>1, <1>2 DEF Chain

LEMMA ChainAppend ==
    ASSUME NEW S, NEW s \in Seq(S), NEW e \in S, NEW a \in Nat, NEW b \in Nat, NEW c \in Nat,
           Chain(s, a, b), b <= c, e.data = Bytes(b, c)
    PROVE  Chain(Append(s, e), a, c)
<1>1. Append(s, e) = s \o <<e>> /\ <<e>> \in Seq(S)
  BY AppendIsConcat
<1>2. Chain(<<e>>, b, c)
  BY ChainOfOne
<1> QED BY <1>1, <1>2, ChainConcat

LEMMA ChainHead ==
    ASSUME NEW S, NEW s \in Seq(S), s # <<>>, NEW a \in Nat, NEW c \in Nat, Chain(s, a, c)
    PROVE  \E b \in a .. c : Head(s).data = Bytes(a, b) /\ Chain(Tail(s), b, c)
<1>1. PICK pos \in [1 .. Len(s) + 1 -> a .. c] :
        /\ pos[1] = a /\ pos[Len(s) + 1] = c
        /\ \A i \in 1 .. Len(s) : pos[i] <= pos[i + 1] /\ s[i].data = Bytes(pos[i], pos[i + 1])
  BY DEF Chain
<1>2. Len(s) \in Nat \ {0} /\ Head(s) = s[1] /\ Len(Tail(s)) = Len(s) - 1
      /\ \A i \in 1 .. Len(s) - 1 : Tail(s)[i] = s[i + 1]
  BY HeadTailProperties, EmptySeq
<1> DEFINE b == pos[2]  t == Tail(s)  p == [i \in 1 .. Len(t) + 1 |-> pos[i + 1]]
<1>3. b \in a .. c /\ Head(s).data = Bytes(a, b)
  BY <1>1, <1>2
<1>4. \A i \in 2 .. Len(s) + 1 : pos[i] >= b
  <2> DEFINE T == {i \in 2 .. Len(s) + 1 : ~(pos[i] >= b)}
  <2>1. CASE T = {}
    BY <2>1
  <2>2. CASE T # {}
    <3>1. T \in SUBSET Nat
      OBVIOUS
    <3>2. PICK n \in T : \A k \in T : n <= k
      BY <2>2, <3>1, LeastNatural
    <3>3. n \in 2 .. Len(s) + 1 /\ ~(pos[n] >= b)
      OBVIOUS
    <3>4. n # 2
      BY <1>3, <3>3
    <3>5. n - 1 \in 2 .. Len(s) + 1 /\ n - 1 \in 1 .. Len(s) /\ n - 1 + 1 = n /\ ~(n <= n - 1)
      BY <1>2, <3>3, <3>4
    <3>6. pos[n - 1] >= b
      BY <3>2, <3>5
    <3>7. pos[n - 1] <= pos[n]
      BY <1>1, <3>5
    <3>8. pos[n] \in Nat /\ pos[n - 1] \in Nat /\ b \in Nat
      <4>1. n \in 1 .. Len(s) + 1 /\ n - 1 \in 1 .. Len(s) + 1 /\ a .. c \subseteq Nat
        BY <1>2, <3>3, <3>5
      <4> QED BY <1>3, <4>1
    <3> QED BY <1>3, <3>3, <3>6, <3>7, <3>8
  <2> QED BY <2>1, <2>2
<1>5. p \in [1 .. Len(t) + 1 -> b .. c]
  BY <1>1, <1>2, <1>3, <1>4
<1>6. p[1] = b /\ p[Len(t) + 1] = c
  BY <1>1, <1>2
<1>7. \A i \in 1 .. Len(t) : p[i] <= p[i + 1] /\ t[i].data = Bytes(p[i], p[i + 1])
  BY <1>1, <1>2
<1> HIDE DEF p, t
<1>8. Chain(t, b, c)
  BY <1>5, <1>6, <1>7 DEF Chain
<1> QED BY <1>3, <1>8 DEF t

LEMMA NoList ==
    /\ <<>> \in Seq(Blocks) /\ Len(<<>>) = 0
    /\ Bases(<<>>) = {} /\ Empty(<<>>) /\ Full(<<>>)
BY DEF Bases, Empty, Full

LEMMA ListsConcat ==
    ASSUME NEW S, NEW s \in Seq(S), NEW t \in Seq(S)
    PROVE  /\ s \o t \in Seq(S) /\ Len(s \o t) = Len(s) + Len(t)
           /\ Bases(s \o t) = Bases(s) \cup Bases(t)
           /\ Empty(s \o t) <=> Empty(s) /\ Empty(t)
           /\ Full(s \o t) <=> Full(s) /\ Full(t)
<1> DEFINE u == s \o t
<1>1. Len(s) \in Nat /\ Len(t) \in Nat
  OBVIOUS
<1>2. /\ u \in Seq(S) /\ Len(u) = Len(s) + Len(t)
      /\ \A i \in 1 .. Len(s) + Len(t) : u[i] = IF i <= Len(s) THEN s[i] ELSE t[i - Len(s)]
  BY ConcatProperties
<1> HIDE DEF u
<1>3. ASSUME NEW i \in 1 .. Len(s) PROVE i \in 1 .. Len(u) /\ u[i] = s[i]
  BY <1>1, <1>2
<1>4. ASSUME NEW i \in 1 .. Len(t) PROVE i + Len(s) \in 1 .. Len(u) /\ u[i + Len(s)] = t[i]
  <2>1. /\ i + Len(s) \in 1 .. Len(s) + Len(t) /\ ~(i + Len(s) <= Len(s))
        /\ i + Len(s) - Len(s) = i
    BY <1>1
  <2> QED BY <1>2, <2>1
<1>5. ASSUME NEW i \in 1 .. Len(u)
      PROVE  \/ i \in 1 .. Len(s) /\ u[i] = s[i]
             \/ i - Len(s) \in 1 .. Len(t) /\ u[i] = t[i - Len(s)]
  <2>1. i \in 1 .. Len(s) + Len(t) /\ i \in Int
    BY <1>1, <1>2
  <2>2. CASE i <= Len(s)
    BY <1>1, <1>2, <2>1, <2>2
  <2>3. CASE ~(i <= Len(s))
    BY <1>1, <2>1, <2>3, <1>2
  <2> QED BY <2>2, <2>3
<1>6. Bases(u) = Bases(s) \cup Bases(t)
  <2>1. ASSUME NEW x \in Bases(u) PROVE x \in Bases(s) \cup Bases(t)
    BY <1>5 DEF Bases
  <2>2. ASSUME NEW x \in Bases(s) PROVE x \in Bases(u)
    BY <1>3 DEF Bases
  <2>3. ASSUME NEW x \in Bases(t) PROVE x \in Bases(u)
    BY <1>4 DEF Bases
  <2> QED BY <2>1, <2>2, <2>3
<1>7. Empty(u) <=> Empty(s) /\ Empty(t)
  <2>1. Empty(u) => Empty(s) /\ Empty(t)
    BY <1>3, <1>4 DEF Empty
  <2>2. Empty(s) /\ Empty(t) => Empty(u)
    BY <1>5 DEF Empty
  <2> QED BY <2>1, <2>2
<1>8. Full(u) <=> Full(s) /\ Full(t)
  <2>1. Full(u) => Full(s) /\ Full(t)
    BY <1>3, <1>4 DEF Full
  <2>2. Full(s) /\ Full(t) => Full(u)
    BY <1>5 DEF Full
  <2> QED BY <2>1, <2>2
<1> QED BY <1>2, <1>6, <1>7, <1>8 DEF u

LEMMA ListOfOne ==
    ASSUME NEW S, NEW e \in S
    PROVE  /\ <<e>> \in Seq(S) /\ Len(<<e>>) = 1 /\ Bases(<<e>>) = {e.base}
           /\ Empty(<<e>>) <=> e.data = <<>>
           /\ Full(<<e>>) <=> e.data # <<>>
BY DEF Bases, Empty, Full

LEMMA ListsAppend ==
    ASSUME NEW S, NEW s \in Seq(S), NEW e \in S
    PROVE  /\ Append(s, e) \in Seq(S) /\ Append(s, e) # <<>> /\ Len(Append(s, e)) = Len(s) + 1
           /\ Bases(Append(s, e)) = Bases(s) \cup {e.base}
           /\ Empty(Append(s, e)) <=> Empty(s) /\ e.data = <<>>
           /\ Full(Append(s, e)) <=> Full(s) /\ e.data # <<>>
           /\ Front(Append(s, e)) = s /\ Last(Append(s, e)) = e
<1>1. Append(s, e) = s \o <<e>>
  BY AppendIsConcat
<1>2. Append(s, e) \in Seq(S) /\ Append(s, e) # <<>> /\ Len(Append(s, e)) = Len(s) + 1
  BY AppendProperties
<1>3. Front(Append(s, e)) = s
  BY AppendProperties, <1>2, SubSeqProperties, SeqEqual DEF Front
<1>4. Last(Append(s, e)) = e
  BY <1>2, AppendProperties DEF Last
<1> DEFINE r == <<e>>
<1>5. /\ r \in Seq(S) /\ Bases(r) = {e.base}
      /\ Empty(r) <=> e.data = <<>>
      /\ Full(r) <=> e.data # <<>>
  BY ListOfOne
<1>6. Append(s, e) = s \o r
  BY <1>1
<1> HIDE DEF r
<1>7. /\ Bases(s \o r) = Bases(s) \cup Bases(r)
      /\ Empty(s \o r) <=> Empty(s) /\ Empty(r)
      /\ Full(s \o r) <=> Full(s) /\ Full(r)
  BY <1>5, ListsConcat
<1> QED BY <1>2, <1>3, <1>4, <1>5, <1>6, <1>7

LEMMA ListsFront ==
    ASSUME NEW S, NEW s \in Seq(S), s # <<>>
    PROVE  /\ Front(s) \in Seq(S) /\ Last(s) \in S /\ Append(Front(s), Last(s)) = s
           /\ Len(Front(s)) = Len(s) - 1
<1>1. PICK t \in Seq(S), e \in S : s = Append(t, e)
  BY SequenceEmptyOrAppend
<1>2. Front(s) = t /\ Last(s) = e /\ Len(s) = Len(t) + 1 /\ Len(t) \in Nat
  BY <1>1, ListsAppend
<1> QED BY <1>1, <1>2

LEMMA ListsTail ==
    ASSUME NEW S, NEW s \in Seq(S), s # <<>>
    PROVE  /\ Head(s) \in S /\ Tail(s) \in Seq(S) /\ Len(Tail(s)) = Len(s) - 1
           /\ Bases(s) = {Head(s).base} \cup Bases(Tail(s))
           /\ Full(s) <=> Head(s).data # <<>> /\ Full(Tail(s))
<1>1. Head(s) \in S /\ Tail(s) \in Seq(S) /\ Len(Tail(s)) = Len(s) - 1
  BY HeadTailProperties
<1>2. s = <<Head(s)>> \o Tail(s)
  <2> DEFINE u == <<Head(s)>> \o Tail(s)
  <2>1. Len(s) \in Nat \ {0} /\ \A i \in 1 .. Len(s) - 1 : Tail(s)[i] = s[i + 1]
    BY HeadTailProperties, EmptySeq
  <2>2. Head(s) = s[1] /\ Len(<<Head(s)>>) = 1 /\ <<Head(s)>> \in Seq(S) /\ <<Head(s)>>[1] = s[1]
    BY <1>1
  <2>3. /\ u \in Seq(S) /\ Len(u) = 1 + Len(Tail(s))
        /\ \A i \in 1 .. 1 + Len(Tail(s)) :
             u[i] = IF i <= 1 THEN <<Head(s)>>[i] ELSE Tail(s)[i - 1]
    BY <1>1, <2>2, ConcatProperties
  <2> HIDE DEF u
  <2>4. Len(u) = Len(s)
    BY <1>1, <2>1, <2>3
  <2>5. ASSUME NEW i \in 1 .. Len(s) PROVE u[i] = s[i]
    <3>1. i \in 1 .. 1 + Len(Tail(s))
      BY <1>1, <2>1
    <3>2. CASE i = 1
      BY <2>2, <2>3, <3>1, <3>2
    <3>3. CASE i # 1
      BY <2>1, <3>3, <2>3, <3>1
    <3> QED BY <3>2, <3>3
  <2>6. u = s
    BY <2>3, <2>4, <2>5, SeqEqual
  <2> QED BY <2>6 DEF u
<1> DEFINE r == <<Head(s)>>  t == Tail(s)
<1>3. r \in Seq(S) /\ Bases(r) = {Head(s).base} /\ (Full(r) <=> Head(s).data # <<>>)
  BY <1>1, ListOfOne
<1> HIDE DEF r, t
<1>4. Bases(s) = Bases(r) \cup Bases(t) /\ (Full(s) <=> Full(r) /\ Full(t))
  <2>1. s = r \o t /\ t \in Seq(S)
    BY <1>1, <1>2 DEF r, t
  <2>2. /\ Bases(r \o t) = Bases(r) \cup Bases(t)
        /\ Full(r \o t) <=> Full(r) /\ Full(t)
    BY <2>1, <1>3, ListsConcat
  <2> QED BY <2>1, <2>2
<1> QED BY <1>1, <1>3, <1>4 DEF t

-----------------------------------------------------------------------------
(* The data of a chain.                                                    *)

LEMMA DataOfChain ==
    ASSUME NEW S, NEW s \in Seq(S), NEW a \in Nat, NEW b \in Nat, Chain(s, a, b)
    PROVE  DataOf(s) = Bytes(a, b)
<1>1. PICK pos \in [1 .. Len(s) + 1 -> a .. b] :
        /\ pos[1] = a /\ pos[Len(s) + 1] = b
        /\ \A i \in 1 .. Len(s) : pos[i] <= pos[i + 1] /\ s[i].data = Bytes(pos[i], pos[i + 1])
  BY DEF Chain
<1> DEFINE eq(f) == f = [n \in 0 .. Len(s) |-> IF n = 0 THEN <<>> ELSE f[n - 1] \o s[n].data]
           up    == [n \in 0 .. Len(s) |-> Bytes(a, pos[n + 1])]
<1>2. Len(s) \in Nat
  OBVIOUS
<1>3. ASSUME NEW n \in 0 .. Len(s) PROVE pos[n + 1] \in Nat /\ a <= pos[n + 1]
  BY <1>2
<1>4. eq(up)
  <2>1. ASSUME NEW n \in 0 .. Len(s)
        PROVE  Bytes(a, pos[n + 1]) = IF n = 0 THEN <<>> ELSE up[n - 1] \o s[n].data
    <3>1. CASE n = 0
      BY <1>1, <3>1, NoBytes
    <3>2. CASE n # 0
      <4>1. n - 1 \in 0 .. Len(s) /\ n \in 1 .. Len(s) /\ n - 1 + 1 = n
        BY <1>2, <3>2
      <4>2. up[n - 1] = Bytes(a, pos[n])
        BY <4>1
      <4>3. s[n].data = Bytes(pos[n], pos[n + 1]) /\ pos[n] <= pos[n + 1]
        BY <1>1, <4>1
      <4>4. pos[n] \in Nat /\ a <= pos[n] /\ pos[n + 1] \in Nat
        BY <1>3, <4>1
      <4> HIDE DEF up
      <4>5. Bytes(a, pos[n]) \o Bytes(pos[n], pos[n + 1]) = Bytes(a, pos[n + 1])
        BY <4>3, <4>4, BytesConcat
      <4> QED BY <3>2, <4>2, <4>3, <4>5
    <3> QED BY <3>1, <3>2
  <2> QED BY <2>1
<1>5. ASSUME NEW f, eq(f) PROVE f[Len(s)] = Bytes(a, b)
  <2> DEFINE T == {n \in 0 .. Len(s) : f[n] # up[n]}
  <2>1. CASE T = {}
    <3>1. Len(s) \in 0 .. Len(s)
      BY <1>2
    <3>2. f[Len(s)] = up[Len(s)]
      BY <2>1, <3>1
    <3> QED BY <1>1, <3>1, <3>2
  <2>2. CASE T # {}
    <3>1. T \in SUBSET Nat
      OBVIOUS
    <3>2. PICK n \in T : \A k \in T : n <= k
      BY <2>2, <3>1, LeastNatural
    <3>3. n \in 0 .. Len(s) /\ f[n] # up[n]
      OBVIOUS
    <3>4. f[n] = IF n = 0 THEN <<>> ELSE f[n - 1] \o s[n].data
      BY <1>5, <3>3
    <3>5. up[n] = IF n = 0 THEN <<>> ELSE up[n - 1] \o s[n].data
      BY <1>4, <3>3
    <3>6. n # 0
      BY <3>3, <3>4, <3>5
    <3>7. n - 1 \in 0 .. Len(s) /\ ~(n <= n - 1)
      BY <1>2, <3>3, <3>6
    <3>8. f[n - 1] = up[n - 1]
      BY <3>2, <3>7
    <3> HIDE DEF up
    <3> QED BY <3>3, <3>4, <3>5, <3>6, <3>8
  <2> QED BY <2>1, <2>2
<1> DEFINE upTo == CHOOSE f : eq(f)
<1> HIDE DEF up
<1>6. eq(upTo)
  BY <1>4
<1>7. upTo[Len(s)] = Bytes(a, b)
  BY <1>5, <1>6
<1>8. DataOf(s) = upTo[Len(s)]
  BY DEF DataOf
<1> QED BY <1>7, <1>8

-----------------------------------------------------------------------------
(* The inductive invariant.                                                *)

WriterTypes ==
    /\ m_Thread \in BOOLEAN /\ m_ThreadRunning \in {0, 1} /\ m_ThreadKill \in {0, 1}
    /\ call \in {"none", "Write", "Flush", "Delete"}
    /\ producerPC \in {"idle", "fill", "flush", "poll", "fflush", "kill", "join", "deleted"}
    /\ consumerPC \in {"loop", "exchange", "write", "ended"}
    /\ m_Error \in Results /\ error \in Results /\ ret \in Results
    /\ m_ProducerOwned \in Seq(Blocks) /\ m_ConsumerOwned \in Seq(Blocks)
    /\ m_PendingForConsumer \in Seq(Blocks) /\ m_CompletedFromConsumer \in Seq(Blocks)
    /\ pending \in Seq(Blocks) /\ completed \in Seq(Blocks)
    /\ work \in Blocks \cup {NoBlock}
    /\ left \in Seq(Nat) /\ file \in Seq(Nat) /\ submitted \in Nat /\ lost \in BOOLEAN

\* The thread runs until it is told to stop, after the last flush, and is joined
\* then.  A writer without one has no blocks.
ThreadModes ==
    /\ m_Thread /\ producerPC \notin {"join", "deleted"} => m_ThreadKill = 0
    /\ m_Thread /\ m_ThreadKill = 0 => consumerPC # "ended"
    /\ consumerPC = "ended" <=> m_ThreadRunning = 0
    /\ consumerPC = "write" <=> work # NoBlock
    /\ ~m_Thread => consumerPC = "ended" /\ producerPC # "fill"
    /\ producerPC = "deleted" => ~m_Thread
    /\ ~m_Thread /\ producerPC # "deleted" =>
         /\ m_ProducerOwned = <<>> /\ m_ConsumerOwned = <<>> /\ m_PendingForConsumer = <<>>
         /\ m_CompletedFromConsumer = <<>> /\ pending = <<>> /\ completed = <<>>

\* Blocks have data on their way to the file, and none on their way back.
DataIsOnTheWay ==
    /\ producerPC # "fill" => left = <<>> /\ pending = <<>>
    /\ Full(m_ConsumerOwned) /\ Full(m_PendingForConsumer) /\ Full(pending)
    /\ consumerPC = "write" => work.data # <<>>
    /\ Empty(completed) /\ Empty(m_CompletedFromConsumer)
    /\ m_ProducerOwned # <<>> => Empty(Front(m_ProducerOwned))

\* A flush waits until all of them are back.
AllAreBack ==
    /\ producerPC \in {"poll", "fflush", "kill", "join", "deleted"} => Empty(m_ProducerOwned)
    /\ producerPC \in {"fflush", "kill", "join", "deleted"} =>
         /\ m_ConsumerOwned = <<>> /\ m_PendingForConsumer = <<>>
         /\ m_CompletedFromConsumer = <<>> /\ completed = <<>> /\ consumerPC # "write"

NoneIsLost ==
    m_Thread =>
        /\ Len(m_ProducerOwned) + Len(m_ConsumerOwned) + Len(m_PendingForConsumer) + Len(pending)
             + Len(completed) + Len(m_CompletedFromConsumer)
             + (IF consumerPC = "write" THEN 1 ELSE 0) = NumBlocks
        /\ Bases(m_ProducerOwned) \cup Bases(m_ConsumerOwned) \cup Bases(m_PendingForConsumer)
             \cup Bases(pending) \cup Bases(completed) \cup Bases(m_CompletedFromConsumer)
             \cup (IF consumerPC = "write" THEN {work.base} ELSE {}) = 1 .. NumBlocks

\* An error is handed over with the block that failed.
ErrorsAreKnown ==
    /\ m_Thread /\ lost => error # Succeeded \/ m_Error # Succeeded
    /\ error # Succeeded /\ completed = <<>> => m_Error # Succeeded
    /\ ~m_Thread /\ lost => producerPC \in {"join", "deleted"}

\* The bytes are in the file up to o, in the block the thread writes up to a, in
\* its lists up to b and c, in the full blocks of the producer up to d, and in the
\* block it writes to up to e; the rest is what it has still to write.
Stretches(o, a, b, c, d, e) ==
    /\ o <= a /\ file = Bytes(0, o) /\ work.data = Bytes(o, a)
    /\ Chain(m_ConsumerOwned, a, b) /\ Chain(m_PendingForConsumer, b, c) /\ Chain(pending, c, d)
    /\ d <= e /\ IF m_ProducerOwned = <<>> THEN d = e ELSE Last(m_ProducerOwned).data = Bytes(d, e)
    /\ e <= submitted /\ left = Bytes(e, submitted)

InOrder == ~lost => \E o, a, b, c, d, e \in Nat : Stretches(o, a, b, c, d, e)

WriterInv ==
    /\ WriterTypes /\ ThreadModes /\ DataIsOnTheWay /\ AllAreBack /\ NoneIsLost /\ ErrorsAreKnown
    /\ InOrder

LEMMA Sizes == NumBlocks \in Nat \ {0} /\ BlockSize \in Nat \ {0} /\ Lengths \subseteq Nat \ {0}
BY SizesAssumption

LEMMA NoBlockHasNoData == NoBlock.data = <<>> /\ NoBlock \notin Blocks
BY DEF NoBlock, EmptyBlock, Blocks

LEMMA InitEstablishes == WriterInit => WriterInv
<1> SUFFICES ASSUME WriterInit PROVE WriterInv
  OBVIOUS
<1> DEFINE all == [b \in 1 .. NumBlocks |-> EmptyBlock(b)]
<1>1. /\ all \in Seq(Blocks) /\ Len(all) = NumBlocks /\ \A b \in 1 .. NumBlocks : all[b] = EmptyBlock(b)
      /\ all # <<>>
  BY Sizes DEF EmptyBlock, Blocks
<1>2. Empty(all) /\ Bases(all) = 1 .. NumBlocks
  BY <1>1 DEF Empty, Bases, EmptyBlock
<1> HIDE DEF all
<1>3. Empty(Front(all)) /\ Last(all).data = <<>>
  <2>1. Append(Front(all), Last(all)) = all /\ Front(all) \in Seq(Blocks) /\ Last(all) \in Blocks
    BY <1>1, ListsFront
  <2> DEFINE f == Front(all)  x == Last(all)
  <2>2. f \in Seq(Blocks) /\ x \in Blocks /\ Append(f, x) = all
    BY <2>1
  <2> HIDE DEF f, x
  <2>3. Empty(Append(f, x)) <=> Empty(f) /\ x.data = <<>>
    BY <2>2, ListsAppend
  <2>4. Empty(f) /\ x.data = <<>>
    BY <1>2, <2>2, <2>3
  <2> QED BY <2>4 DEF f, x
<1>4. m_ProducerOwned = IF m_Thread THEN all ELSE <<>>
  BY DEF WriterInit, all
<1>5. WriterTypes
  <2>1. m_ProducerOwned \in Seq(Blocks) /\ <<>> \in Seq(Blocks) /\ <<>> \in Seq(Nat)
    BY <1>1, <1>4, NoList
  <2>2. m_Error \in Results /\ ret \in Results /\ error \in Results
    BY DEF WriterInit, Results
  <2> QED BY <2>1, <2>2 DEF WriterInit, WriterTypes
<1>6. ThreadModes
  BY <1>4 DEF WriterInit, ThreadModes
<1>7. DataIsOnTheWay
  BY <1>3, <1>4, NoList DEF WriterInit, DataIsOnTheWay
<1>8. AllAreBack
  BY DEF WriterInit, AllAreBack
<1>9. NoneIsLost
  BY <1>1, <1>2, <1>4, NoList, Sizes DEF WriterInit, NoneIsLost
<1>10. ErrorsAreKnown
  BY DEF WriterInit, ErrorsAreKnown
<1>11. Stretches(0, 0, 0, 0, 0, 0)
  <2>1. Bytes(0, 0) = <<>>
    BY NoBytes
  <2>2. Chain(<<>>, 0, 0)
    BY ChainOfNone
  <2>3. /\ file = <<>> /\ work.data = <<>> /\ m_ConsumerOwned = <<>> /\ m_PendingForConsumer = <<>>
        /\ pending = <<>> /\ submitted = 0 /\ left = <<>>
    BY NoBlockHasNoData DEF WriterInit
  <2>4. m_ProducerOwned # <<>> => Last(m_ProducerOwned).data = <<>>
    BY <1>3, <1>4
  <2> QED BY <2>1, <2>2, <2>3, <2>4 DEF Stretches
<1>12. InOrder
  BY <1>11 DEF InOrder
<1> QED BY <1>5, <1>6, <1>7, <1>8, <1>9, <1>10, <1>12 DEF WriterInv

-----------------------------------------------------------------------------
(* The steps of the producer.                                              *)

LEMMA DataIsBytes ==
    ASSUME submitted \in Nat, NEW length \in Nat
    PROVE  /\ Data(length) \in Seq(Nat) /\ Len(Data(length)) = length
           /\ Data(length) = Bytes(submitted, submitted + length)
<1> DEFINE n == submitted + length  s == Data(length)  t == Bytes(submitted, n)
<1>1. n \in Nat /\ submitted <= n /\ n - submitted = length
  OBVIOUS
<1>2. t \in Seq(Nat) /\ Len(t) = length /\ \A i \in 1 .. length : t[i] = submitted + i
  BY <1>1, BytesLength
<1>3. s \in Seq(Nat) /\ Len(s) = length /\ \A i \in 1 .. length : s[i] = submitted + i
  BY DEF Data
<1> HIDE DEF s, t
<1>4. s = t
  BY <1>2, <1>3, SeqEqual
<1> QED BY <1>3, <1>4 DEF s, t

LEMMA WriteUnthreadedPreserves ==
    ASSUME WriterInv, NEW length \in Lengths, WriteUnthreaded(length)
    PROVE  WriterInv'
<1> USE DEF WriterInv
<1>1. length \in Nat \ {0} /\ submitted \in Nat
  BY Sizes DEF WriterTypes
<1>2. Data(length) \in Seq(Nat) /\ Data(length) = Bytes(submitted, submitted + length)
  BY <1>1, DataIsBytes
<1>3. Data(length) \in Seq(Nat)
  BY <1>2
<1>4. file' \in Seq(Nat) /\ lost' \in BOOLEAN
  <2>1. PICK result \in Results : Fwrite(Data(length), result)
    BY DEF WriteUnthreaded
  <2>2. CASE file' = file \o Data(length) /\ lost' = lost
    BY <1>3, <2>2 DEF WriterTypes
  <2>3. CASE \E n \in 0 .. Len(Data(length)) - 1 : file' = file \o SubSeq(Data(length), 1, n) /\ lost'
    <3>1. PICK n \in 0 .. Len(Data(length)) - 1 : file' = file \o SubSeq(Data(length), 1, n)
      BY <2>3
    <3>2. Len(Data(length)) \in Nat /\ \A i \in 1 .. n : Data(length)[i] \in Nat
      BY <1>3
    <3>3. SubSeq(Data(length), 1, n) \in Seq(Nat)
      BY <3>2, SubSeqProperties
    <3> QED BY <2>3, <3>1, <3>3 DEF WriterTypes
  <2> QED BY <2>1, <2>2, <2>3 DEF Fwrite
<1>5. /\ UNCHANGED <<listVars, m_Error, flagVars, writeVars, consumerVars>>
      /\ submitted' = submitted + length /\ producerPC = "idle" /\ ~m_Thread
      /\ producerPC' \in {"idle", "join"} /\ call' \in {"none", "Delete"}
      /\ producerPC' = "idle" => lost' = lost /\ file' = file \o Data(length)
      /\ lost' = lost \/ lost'
      /\ ~lost' => file' = file \o Data(length)
  BY DEF WriteUnthreaded, Submit, Idle, Fwrite, Return, BeginDelete, Succeeded, FileIOFailed, Results
<1>6. WriterTypes'
  BY <1>1, <1>4, <1>5 DEF WriterTypes, listVars, flagVars, writeVars, consumerVars
<1>7. ThreadModes'
  BY <1>5 DEF ThreadModes, listVars, flagVars, writeVars, consumerVars
<1>8. DataIsOnTheWay'
  BY <1>5 DEF DataIsOnTheWay, ThreadModes, listVars, flagVars, writeVars, consumerVars
<1>9. AllAreBack'
  BY <1>5, NoList DEF AllAreBack, ThreadModes, listVars, flagVars, writeVars, consumerVars
<1>10. NoneIsLost'
  BY <1>5 DEF NoneIsLost, flagVars
<1>11. ErrorsAreKnown'
  BY <1>5 DEF ErrorsAreKnown, listVars, flagVars, writeVars, consumerVars
<1>12. InOrder'
  <2> SUFFICES ASSUME ~lost' PROVE InOrder'
    BY DEF InOrder
  <2>1. ~lost
    BY <1>5 DEF ErrorsAreKnown
  <2>2. PICK o, a, b, c, d, e \in Nat : Stretches(o, a, b, c, d, e)
    BY <2>1 DEF InOrder
  <2>3. /\ m_ProducerOwned = <<>> /\ m_ConsumerOwned = <<>> /\ m_PendingForConsumer = <<>>
        /\ pending = <<>> /\ left = <<>> /\ work = NoBlock
    BY <1>5 DEF ThreadModes, DataIsOnTheWay
  <2>4. o = submitted /\ file = Bytes(0, submitted)
    <3>1. o = a
      BY <2>2, <2>3, NoBytes, NoBlockHasNoData DEF Stretches
    <3>2. a = b /\ b = c /\ c = d
      BY <2>2, <2>3, ChainEmpty, NoList DEF Stretches
    <3>3. d = e
      BY <2>2, <2>3 DEF Stretches
    <3>4. e = submitted
      BY <1>1, <2>2, <2>3, NoBytes DEF Stretches
    <3> QED BY <2>2, <3>1, <3>2, <3>3, <3>4 DEF Stretches
  <2>5. PICK n \in Nat : n = submitted + length
    BY <1>1
  <2>6. file' = Bytes(0, n) /\ submitted' = n
    <3>1. Bytes(0, submitted) \o Bytes(submitted, n) = Bytes(0, n)
      <4>1. 0 \in Nat /\ 0 <= submitted /\ submitted <= n
        BY <1>1, <2>5
      <4> QED BY <1>1, <2>5, <4>1, BytesConcat
    <3> QED BY <1>2, <1>5, <2>4, <2>5, <3>1
  <2>7. Chain(<<>>, n, n) /\ Bytes(n, n) = <<>>
    BY <2>5, ChainOfNone, NoBytes
  <2>8. /\ m_ProducerOwned' = <<>> /\ m_ConsumerOwned' = <<>> /\ m_PendingForConsumer' = <<>>
        /\ pending' = <<>> /\ left' = <<>> /\ work'.data = <<>>
    BY <1>5, <2>3, NoBlockHasNoData DEF listVars, writeVars, consumerVars
  <2>9. Stretches(n, n, n, n, n, n)'
    BY <2>6, <2>7, <2>8 DEF Stretches
  <2> QED BY <2>5, <2>9 DEF InOrder
<1> QED BY <1>6, <1>7, <1>8, <1>9, <1>10, <1>11, <1>12

LEMMA DataReplaced ==
    ASSUME NEW A, NEW B, NEW r \in [base : A, data : B], NEW x
    PROVE  [r EXCEPT !.data = x] = [base |-> r.base, data |-> x]
OBVIOUS

LEMMA BlockFilled ==
    ASSUME NEW block \in Blocks, NEW data \in Seq(Nat), Len(data) <= Room(block)
    PROVE  LET filled == [block EXCEPT !.data = @ \o data] IN
           /\ filled \in Blocks /\ filled.base = block.base /\ filled.data = block.data \o data
           /\ Room(filled) = Room(block) - Len(data) /\ Room(block) \in Nat /\ Len(data) \in Nat
<1> DEFINE filled == [block EXCEPT !.data = @ \o data]  all == block.data \o data
<1>1. block.data \in Seq(Nat) /\ block.base \in 1 .. NumBlocks /\ Len(block.data) <= BlockSize
  BY DEF Blocks
<1>2. Len(block.data) \in Nat /\ Len(data) \in Nat
  BY <1>1
<1>3. all \in Seq(Nat) /\ Len(all) = Len(block.data) + Len(data)
  BY <1>1, ConcatProperties
<1> HIDE DEF all
<1>4. filled = [base |-> block.base, data |-> all]
  BY DataReplaced DEF Blocks, all
<1> HIDE DEF filled
<1>5. Len(all) <= BlockSize /\ BlockSize - Len(all) = BlockSize - Len(block.data) - Len(data)
  BY <1>1, <1>2, <1>3, Sizes DEF Room
<1>6. filled \in Blocks /\ filled.base = block.base /\ filled.data = all
  BY <1>1, <1>3, <1>4, <1>5 DEF Blocks
<1>7. Room(filled) = Room(block) - Len(data) /\ Room(block) \in Nat
  <2>1. Room(filled) = BlockSize - Len(all) /\ Room(block) = BlockSize - Len(block.data)
    BY <1>6 DEF Room
  <2>2. Room(block) \in Nat
    BY <1>1, <1>2, <2>1, Sizes
  <2> QED BY <1>5, <2>1, <2>2
<1> QED BY <1>2, <1>6, <1>7 DEF filled, all

LEMMA WriteIntoBlockPreserves ==
    ASSUME WriterInv, NEW length \in Lengths, WriteIntoBlock(length)
    PROVE  WriterInv'
<1> USE DEF WriterInv
<1> DEFINE front == Front(m_ProducerOwned)  last == Last(m_ProducerOwned)  new == Filled(Data(length))
<1>1. length \in Nat \ {0} /\ submitted \in Nat
  BY Sizes DEF WriterTypes
<1>2. /\ Data(length) \in Seq(Nat) /\ Len(Data(length)) = length
      /\ Data(length) = Bytes(submitted, submitted + length)
  BY <1>1, DataIsBytes
<1>3. /\ m_ProducerOwned # <<>> /\ front \in Seq(Blocks) /\ last \in Blocks
      /\ Append(front, last) = m_ProducerOwned /\ Len(m_ProducerOwned) = Len(front) + 1
      /\ Bases(m_ProducerOwned) = Bases(front) \cup {last.base} /\ Empty(front)
  <2>1. m_ProducerOwned # <<>> /\ m_ProducerOwned \in Seq(Blocks)
    BY DEF WriteIntoBlock, Fits, WriterTypes
  <2>2. front \in Seq(Blocks) /\ last \in Blocks /\ Append(front, last) = m_ProducerOwned
    BY <2>1, ListsFront
  <2>3. Empty(front)
    BY <2>1 DEF DataIsOnTheWay
  <2> HIDE DEF front, last
  <2>4. /\ Len(Append(front, last)) = Len(front) + 1
        /\ Bases(Append(front, last)) = Bases(front) \cup {last.base}
    BY <2>2, ListsAppend
  <2> QED BY <2>1, <2>2, <2>3, <2>4
<1>5. new \in Blocks /\ new.base = last.base /\ new.data = last.data \o Data(length)
  BY <1>2, <1>3, BlockFilled DEF WriteIntoBlock, Fits, Filled
<1>6. /\ m_ProducerOwned' = Append(front, new)
      /\ UNCHANGED <<m_ConsumerOwned, m_PendingForConsumer, m_CompletedFromConsumer, m_Error,
                     flagVars, callVars, writeVars, consumerVars, diskVars>>
      /\ submitted' = submitted + length /\ producerPC = "idle" /\ m_Thread
  BY DEF WriteIntoBlock, Submit, Idle
<1> HIDE DEF front, last, new
<1>7. /\ m_ProducerOwned' \in Seq(Blocks) /\ m_ProducerOwned' # <<>>
      /\ Len(m_ProducerOwned') = Len(m_ProducerOwned)
      /\ Bases(m_ProducerOwned') = Bases(m_ProducerOwned)
      /\ Front(m_ProducerOwned') = front /\ Last(m_ProducerOwned') = new
  BY <1>3, <1>5, ListsAppend, <1>6
<1>8. WriterTypes'
  BY <1>1, <1>6, <1>7 DEF WriterTypes, flagVars, callVars, writeVars, consumerVars, diskVars
<1>9. ThreadModes'
  BY <1>6 DEF ThreadModes, flagVars, callVars, writeVars, consumerVars
<1>10. DataIsOnTheWay'
  BY <1>3, <1>6, <1>7 DEF DataIsOnTheWay, callVars, writeVars, consumerVars
<1>11. AllAreBack'
  BY <1>6 DEF AllAreBack, callVars
<1>12. NoneIsLost'
  BY <1>6, <1>7 DEF NoneIsLost, flagVars, writeVars, consumerVars
<1>13. ErrorsAreKnown'
  BY <1>6 DEF ErrorsAreKnown, flagVars, consumerVars, diskVars
<1>14. InOrder'
  <2> SUFFICES ASSUME ~lost' PROVE InOrder'
    BY DEF InOrder
  <2>1. ~lost
    BY <1>6 DEF diskVars
  <2>2. PICK o, a, b, c, d, e \in Nat : Stretches(o, a, b, c, d, e)
    BY <2>1 DEF InOrder
  <2>3. e = submitted /\ d <= e /\ last.data = Bytes(d, e)
    <3>1. left = <<>>
      BY <1>6 DEF DataIsOnTheWay
    <3> QED BY <1>1, <1>3, <2>2, <3>1, NoBytes DEF Stretches, last
  <2>4. PICK n \in Nat : n = submitted + length
    BY <1>1
  <2>5. new.data = Bytes(d, n)
    <3>1. Bytes(d, submitted) \o Bytes(submitted, n) = Bytes(d, n)
      <4>1. d <= submitted /\ submitted <= n
        BY <1>1, <2>3, <2>4
      <4> QED BY <1>1, <4>1, BytesConcat
    <3> QED BY <1>2, <1>5, <2>3, <2>4, <3>1
  <2>6. submitted' = n /\ left' = Bytes(n, n) /\ d <= n
    BY <1>1, <1>6, <2>3, <2>4, NoBytes DEF writeVars, DataIsOnTheWay
  <2>7. Stretches(o, a, b, c, d, n)'
    BY <1>6, <1>7, <2>2, <2>5, <2>6 DEF Stretches, writeVars, consumerVars, diskVars
  <2> QED BY <2>4, <2>7 DEF InOrder
<1> QED BY <1>8, <1>9, <1>10, <1>11, <1>12, <1>13, <1>14

LEMMA BeginWritePreserves ==
    ASSUME WriterInv, NEW length \in Lengths, BeginWrite(length)
    PROVE  WriterInv'
<1> USE DEF WriterInv
<1>1. length \in Nat \ {0} /\ submitted \in Nat
  BY Sizes DEF WriterTypes
<1>2. Data(length) \in Seq(Nat) /\ Data(length) = Bytes(submitted, submitted + length)
  BY <1>1, DataIsBytes
<1>3. /\ UNCHANGED <<listVars, m_Error, flagVars, pending, consumerVars, diskVars>>
      /\ submitted' = submitted + length /\ producerPC = "idle" /\ m_Thread
      /\ call' = "Write" /\ producerPC' = "fill" /\ left' = Data(length) /\ ret' = Succeeded
  BY DEF BeginWrite, Submit, Idle
<1>4. WriterTypes'
  BY <1>1, <1>2, <1>3 DEF WriterTypes, listVars, flagVars, consumerVars, diskVars, Results
<1>5. ThreadModes'
  BY <1>3 DEF ThreadModes, listVars, flagVars, consumerVars
<1>6. DataIsOnTheWay'
  BY <1>3 DEF DataIsOnTheWay, listVars, consumerVars
<1>7. AllAreBack'
  BY <1>3 DEF AllAreBack
<1>8. NoneIsLost'
  BY <1>3 DEF NoneIsLost, listVars, flagVars, consumerVars
<1>9. ErrorsAreKnown'
  BY <1>3 DEF ErrorsAreKnown, flagVars, consumerVars, diskVars
<1>10. InOrder'
  <2> SUFFICES ASSUME ~lost' PROVE InOrder'
    BY DEF InOrder
  <2>1. ~lost
    BY <1>3 DEF diskVars
  <2>2. PICK o, a, b, c, d, e \in Nat : Stretches(o, a, b, c, d, e)
    BY <2>1 DEF InOrder
  <2>3. e = submitted
    BY <1>3, <1>1, <2>2, NoBytes DEF DataIsOnTheWay, Stretches
  <2>4. left' = Bytes(e, submitted') /\ e <= submitted'
    BY <1>1, <1>2, <1>3, <2>3
  <2>5. Stretches(o, a, b, c, d, e)'
    BY <1>3, <2>2, <2>4 DEF Stretches, listVars, consumerVars, diskVars
  <2> QED BY <2>5 DEF InOrder
<1> QED BY <1>4, <1>5, <1>6, <1>7, <1>8, <1>9, <1>10

(* Blocks without data in front of others.                                 *)

LEMMA EmptyFront ==
    ASSUME NEW S, NEW s \in Seq(S), s # <<>>, Empty(s)
    PROVE  Empty(Front(s)) /\ Last(s).data = <<>>
<1> DEFINE f == Front(s)  x == Last(s)
<1>1. f \in Seq(S) /\ x \in S /\ Append(f, x) = s
  BY ListsFront
<1> HIDE DEF f, x
<1>2. Empty(Append(f, x)) <=> Empty(f) /\ x.data = <<>>
  BY <1>1, ListsAppend
<1>3. Empty(f) /\ x.data = <<>>
  BY <1>1, <1>2
<1> QED BY <1>3 DEF f, x

LEMMA BackInFront ==
    ASSUME NEW S, NEW s \in Seq(S), NEW t \in Seq(S), Empty(s), t # <<>> => Empty(Front(t))
    PROVE  LET u == s \o t IN
           /\ u \in Seq(S) /\ Len(u) = Len(s) + Len(t)
           /\ Bases(u) = Bases(s) \cup Bases(t)
           /\ u # <<>> => Empty(Front(u))
           /\ Empty(t) => Empty(u)
           /\ t # <<>> => u # <<>> /\ Last(u) = Last(t)
           /\ t = <<>> /\ u # <<>> => Last(u).data = <<>>
<1> DEFINE u == s \o t
<1> SUFFICES /\ u \in Seq(S) /\ Len(u) = Len(s) + Len(t)
             /\ Bases(u) = Bases(s) \cup Bases(t)
             /\ u # <<>> => Empty(Front(u))
             /\ Empty(t) => Empty(u)
             /\ t # <<>> => u # <<>> /\ Last(u) = Last(t)
             /\ t = <<>> /\ u # <<>> => Last(u).data = <<>>
  OBVIOUS
<1>1. /\ u \in Seq(S) /\ Len(u) = Len(s) + Len(t)
      /\ Bases(u) = Bases(s) \cup Bases(t)
      /\ Empty(u) <=> Empty(s) /\ Empty(t)
  BY ListsConcat
<1>2. CASE t = <<>>
  BY <1>2, ConcatEmptySeq, EmptyFront, <1>1
<1>3. CASE t # <<>>
  <2> DEFINE f == Front(t)  x == Last(t)  v == s \o f
  <2>1. f \in Seq(S) /\ x \in S /\ Append(f, x) = t /\ Empty(f)
    BY <1>3, ListsFront
  <2> HIDE DEF f, x
  <2>2. v \in Seq(S) /\ Empty(v)
    BY <2>1, ListsConcat
  <2>3. u = Append(v, x)
    <3> DEFINE r == <<x>>
    <3>1. r \in Seq(S)
      BY <2>1, ListOfOne
    <3>2. Append(f, x) = f \o r /\ Append(v, x) = v \o r
      BY <2>1, <2>2, AppendIsConcat
    <3> HIDE DEF r
    <3>3. (s \o f) \o r = s \o (f \o r)
      BY <2>1, <3>1, ConcatAssociative
    <3> QED BY <2>1, <3>2, <3>3 DEF v
  <2> HIDE DEF v
  <2>4. Append(v, x) # <<>> /\ Front(Append(v, x)) = v /\ Last(Append(v, x)) = x
    BY <2>1, <2>2, ListsAppend
  <2> QED BY <1>1, <1>3, <2>2, <2>3, <2>4 DEF x
<1> QED BY <1>2, <1>3

LEMMA FillBlockPreserves ==
    ASSUME WriterInv, FillBlock
    PROVE  WriterInv'
<1> USE DEF WriterInv
<1> DEFINE front == Front(m_ProducerOwned)  last == Last(m_ProducerOwned)
           size == IF Len(left) < Room(last) THEN Len(left) ELSE Room(last)
           data == SubSeq(left, 1, size)
           cur  == Filled(data)
<1>1. /\ m_ProducerOwned # <<>> /\ front \in Seq(Blocks) /\ last \in Blocks
      /\ Len(m_ProducerOwned) = Len(front) + 1
      /\ Bases(m_ProducerOwned) = Bases(front) \cup {last.base} /\ Empty(front)
  <2>1. m_ProducerOwned # <<>> /\ m_ProducerOwned \in Seq(Blocks)
    BY DEF FillBlock, WriterTypes
  <2>2. front \in Seq(Blocks) /\ last \in Blocks /\ Append(front, last) = m_ProducerOwned
    BY <2>1, ListsFront
  <2>3. Empty(front)
    BY <2>1 DEF DataIsOnTheWay
  <2> HIDE DEF front, last
  <2>4. /\ Len(Append(front, last)) = Len(front) + 1
        /\ Bases(Append(front, last)) = Bases(front) \cup {last.base}
    BY <2>2, ListsAppend
  <2> QED BY <2>1, <2>2, <2>3, <2>4
<1>2. Room(last) \in Nat /\ Len(left) \in Nat /\ left \in Seq(Nat)
  <2>1. Room(last) \in Nat
    BY <1>1, Sizes DEF Blocks, Room
  <2> QED BY <2>1 DEF WriterTypes
<1>3. size \in Nat /\ size <= Len(left) /\ size <= Room(last)
  BY <1>2
<1>4. data \in Seq(Nat) /\ Len(data) = size
  BY <1>2, <1>3, SubSeqProperties
<1>5. SubSeq(left, size + 1, Len(left)) \in Seq(Nat)
  BY <1>2, <1>3, SubSeqProperties
<1>6. /\ cur \in Blocks /\ cur.base = last.base /\ cur.data = last.data \o data
      /\ Room(cur) \in Nat
  <2>1. cur = [last EXCEPT !.data = @ \o data]
    BY DEF Filled
  <2> HIDE DEF last, data, cur, size
  <2>2. Len(data) <= Room(last) /\ Room(last) - Len(data) \in Nat
    BY <1>2, <1>3, <1>4
  <2> QED BY <1>1, <1>4, <2>1, <2>2, BlockFilled
<1>7. Room(cur) = 0 => cur.data # <<>>
  BY Sizes DEF Room
<1>8. /\ left' = SubSeq(left, size + 1, Len(left)) /\ producerPC = "fill" /\ m_Thread
      /\ UNCHANGED <<m_ConsumerOwned, m_PendingForConsumer, m_CompletedFromConsumer, m_Error, flagVars,
                     callVars, ret, consumerVars, diskVars, countVars>>
      /\ \/ Room(cur) = 0 /\ m_ProducerOwned' = front /\ pending' = Append(pending, cur)
         \/ m_ProducerOwned' = Append(front, cur) /\ pending' = pending
  BY DEF FillBlock, ThreadModes
<1> HIDE DEF cur, size
<1>9. ASSUME NEW o \in Nat, NEW a \in Nat, NEW b \in Nat, NEW c \in Nat, NEW d \in Nat, NEW e \in Nat,
              Stretches(o, a, b, c, d, e)
       PROVE  \E n \in Nat : /\ cur.data = Bytes(d, n) /\ left' = Bytes(n, submitted)
                             /\ d <= n /\ n <= submitted
  <2>1. left = Bytes(e, submitted) /\ e <= submitted /\ submitted \in Nat
    BY <1>9 DEF Stretches, WriterTypes
  <2>2. Len(left) = submitted - e
    BY <2>1, BytesLength
  <2>3. PICK n \in Nat : n = e + size
    BY <1>3
  <2>4. e + size <= submitted /\ e <= n /\ n <= submitted
    BY <1>3, <2>1, <2>2, <2>3
  <2>5. /\ SubSeq(Bytes(e, submitted), 1, size) = Bytes(e, e + size)
        /\ SubSeq(Bytes(e, submitted), size + 1, Len(Bytes(e, submitted))) = Bytes(e + size, submitted)
    BY <1>3, <2>1, <2>4, BytesTaken
  <2>6. data = Bytes(e, n) /\ left' = Bytes(n, submitted)
    BY <1>8, <2>1, <2>3, <2>5
  <2>7. last.data = Bytes(d, e) /\ d <= e
    BY <1>1, <1>9 DEF Stretches
  <2>8. Bytes(d, e) \o Bytes(e, n) = Bytes(d, n)
    BY <2>4, <2>7, BytesConcat
  <2> HIDE DEF front, last, data
  <2>9. cur.data = Bytes(d, n) /\ d <= n
    BY <1>6, <2>4, <2>6, <2>7, <2>8
  <2> QED BY <2>4, <2>6, <2>9
<1>10. CASE Room(cur) = 0 /\ m_ProducerOwned' = front /\ pending' = Append(pending, cur)
  <2>1. /\ pending' \in Seq(Blocks) /\ Len(pending') = Len(pending) + 1
        /\ Bases(pending') = Bases(pending) \cup {cur.base} /\ Full(pending')
    <3>1. pending \in Seq(Blocks) /\ Full(pending)
      BY DEF WriterTypes, DataIsOnTheWay
    <3>2. cur \in Blocks /\ cur.data # <<>>
      BY <1>6, <1>7, <1>10
    <3>3. /\ Append(pending, cur) \in Seq(Blocks) /\ Len(Append(pending, cur)) = Len(pending) + 1
          /\ Bases(Append(pending, cur)) = Bases(pending) \cup {cur.base} /\ Full(Append(pending, cur))
      BY <3>1, <3>2, ListsAppend
    <3> QED BY <1>10, <3>3
  <2>2. front # <<>> => Empty(Front(front)) /\ Last(front).data = <<>>
    BY <1>1, EmptyFront
  <2>3. WriterTypes'
    BY <1>1, <1>5, <1>8, <1>10, <2>1
    DEF WriterTypes, flagVars, callVars, consumerVars, diskVars, countVars
  <2>4. ThreadModes'
    BY <1>8 DEF ThreadModes, flagVars, callVars, consumerVars
  <2>5. DataIsOnTheWay'
    BY <1>8, <1>10, <2>1, <2>2 DEF DataIsOnTheWay, callVars, consumerVars
  <2>6. AllAreBack'
    BY <1>8 DEF AllAreBack, callVars
  <2>7. NoneIsLost'
    <3>1. /\ Len(front) \in Nat /\ Len(m_ConsumerOwned) \in Nat /\ Len(m_PendingForConsumer) \in Nat
          /\ Len(pending) \in Nat /\ Len(completed) \in Nat /\ Len(m_CompletedFromConsumer) \in Nat
      BY <1>1 DEF WriterTypes
    <3> HIDE DEF front, last, data
    <3>2. /\ Len(m_ProducerOwned) + Len(pending) = Len(m_ProducerOwned') + Len(pending')
          /\ Bases(m_ProducerOwned) \cup Bases(pending) = Bases(m_ProducerOwned') \cup Bases(pending')
      BY <1>10, <1>1, <2>1, <3>1, <1>6
    <3>3. /\ UNCHANGED <<m_Thread, m_ConsumerOwned, m_PendingForConsumer, m_CompletedFromConsumer>>
          /\ UNCHANGED <<completed, consumerPC, work>>
      BY <1>8 DEF flagVars, consumerVars
    <3>4. Len(m_ProducerOwned) \in Nat /\ Len(m_ProducerOwned') \in Nat /\ Len(pending') \in Nat
      BY <1>1, <1>10, <2>1, <3>1
    <3> QED BY <3>1, <3>2, <3>3, <3>4 DEF NoneIsLost
  <2>8. ErrorsAreKnown'
    BY <1>8 DEF ErrorsAreKnown, flagVars, callVars, consumerVars, diskVars
  <2>9. InOrder'
    <3> SUFFICES ASSUME ~lost' PROVE InOrder'
      BY DEF InOrder
    <3>1. ~lost
      BY <1>8 DEF diskVars
    <3>2. PICK o, a, b, c, d, e \in Nat : Stretches(o, a, b, c, d, e)
      BY <3>1 DEF InOrder
    <3>6. PICK n \in Nat : /\ cur.data = Bytes(d, n) /\ left' = Bytes(n, submitted)
                           /\ d <= n /\ n <= submitted
      BY <1>9, <3>2
    <3>7. Chain(pending', c, n)
      BY <3>2, <1>6, <1>10, <3>6, ChainAppend DEF Stretches, WriterTypes
    <3>8. Bytes(n, n) = <<>>
      BY NoBytes
    <3>9. Stretches(o, a, b, c, n, n)'
      BY <1>8, <1>10, <2>2, <3>2, <3>6, <3>7, <3>8
      DEF Stretches, consumerVars, diskVars, countVars
    <3> QED BY <3>9 DEF InOrder
  <2> QED BY <2>3, <2>4, <2>5, <2>6, <2>7, <2>8, <2>9
<1>11. CASE m_ProducerOwned' = Append(front, cur) /\ pending' = pending
  <2>1. /\ m_ProducerOwned' \in Seq(Blocks) /\ m_ProducerOwned' # <<>>
        /\ Len(m_ProducerOwned') = Len(m_ProducerOwned)
        /\ Bases(m_ProducerOwned') = Bases(m_ProducerOwned)
        /\ Front(m_ProducerOwned') = front /\ Last(m_ProducerOwned') = cur
    <3> HIDE DEF front, last
    <3>1. /\ Append(front, cur) \in Seq(Blocks) /\ Append(front, cur) # <<>>
          /\ Len(Append(front, cur)) = Len(front) + 1
          /\ Bases(Append(front, cur)) = Bases(front) \cup {cur.base}
          /\ Front(Append(front, cur)) = front /\ Last(Append(front, cur)) = cur
      BY <1>1, <1>6, ListsAppend
    <3> QED BY <1>1, <1>6, <1>11, <3>1
  <2>3. WriterTypes'
    BY <1>5, <1>8, <1>11, <2>1
    DEF WriterTypes, flagVars, callVars, consumerVars, diskVars, countVars
  <2>4. ThreadModes'
    BY <1>8 DEF ThreadModes, flagVars, callVars, consumerVars
  <2>5. DataIsOnTheWay'
    BY <1>1, <1>8, <1>11, <2>1 DEF DataIsOnTheWay, callVars, consumerVars
  <2>6. AllAreBack'
    BY <1>8 DEF AllAreBack, callVars
  <2>7. NoneIsLost'
    BY <1>8, <1>11, <2>1 DEF NoneIsLost, flagVars, consumerVars
  <2>8. ErrorsAreKnown'
    BY <1>8 DEF ErrorsAreKnown, flagVars, callVars, consumerVars, diskVars
  <2>9. InOrder'
    <3> SUFFICES ASSUME ~lost' PROVE InOrder'
      BY DEF InOrder
    <3>1. ~lost
      BY <1>8 DEF diskVars
    <3>2. PICK o, a, b, c, d, e \in Nat : Stretches(o, a, b, c, d, e)
      BY <3>1 DEF InOrder
    <3>6. PICK n \in Nat : /\ cur.data = Bytes(d, n) /\ left' = Bytes(n, submitted)
                           /\ d <= n /\ n <= submitted
      BY <1>9, <3>2
    <3>9. Stretches(o, a, b, c, d, n)'
      BY <1>8, <1>11, <2>1, <3>2, <3>6
      DEF Stretches, consumerVars, diskVars, countVars
    <3> QED BY <3>9 DEF InOrder
  <2> QED BY <2>3, <2>4, <2>5, <2>6, <2>7, <2>8, <2>9
<1> QED BY <1>8, <1>10, <1>11

LEMMA ExchangeBlocksPreserves ==
    ASSUME WriterInv, ExchangeBlocks
    PROVE  WriterInv'
<1> USE DEF WriterInv
<1>1. /\ producerPC = "fill" /\ m_Thread
      /\ m_PendingForConsumer' = m_PendingForConsumer \o pending /\ pending' = <<>>
      /\ m_ProducerOwned' = m_CompletedFromConsumer \o m_ProducerOwned
      /\ m_CompletedFromConsumer' = <<>>
      /\ ret' = IF ret = Succeeded THEN m_Error ELSE ret
      /\ UNCHANGED <<m_ConsumerOwned, m_Error, flagVars, left, consumerVars, diskVars, countVars>>
  BY DEF ExchangeBlocks, TakeCompleted, ThreadModes
<1>2. /\ left # <<>> => call' = call /\ producerPC' = "fill"
      /\ left = <<>> => call' \in {"none", "Delete"} /\ producerPC' \in {"idle", "flush"}
  BY <1>1 DEF ExchangeBlocks, callVars, Return, BeginDelete
<1>3. /\ m_ProducerOwned \in Seq(Blocks) /\ m_PendingForConsumer \in Seq(Blocks)
      /\ m_CompletedFromConsumer \in Seq(Blocks) /\ pending \in Seq(Blocks)
  BY DEF WriterTypes
<1>4. /\ m_PendingForConsumer' \in Seq(Blocks)
      /\ Len(m_PendingForConsumer') = Len(m_PendingForConsumer) + Len(pending)
      /\ Bases(m_PendingForConsumer') = Bases(m_PendingForConsumer) \cup Bases(pending)
      /\ Full(m_PendingForConsumer')
  BY <1>1, <1>3, ListsConcat DEF DataIsOnTheWay
<1>5. /\ m_ProducerOwned' \in Seq(Blocks)
      /\ Len(m_ProducerOwned') = Len(m_CompletedFromConsumer) + Len(m_ProducerOwned)
      /\ Bases(m_ProducerOwned') = Bases(m_CompletedFromConsumer) \cup Bases(m_ProducerOwned)
      /\ m_ProducerOwned' # <<>> => Empty(Front(m_ProducerOwned'))
      /\ m_ProducerOwned # <<>> =>
           m_ProducerOwned' # <<>> /\ Last(m_ProducerOwned') = Last(m_ProducerOwned)
      /\ m_ProducerOwned = <<>> /\ m_ProducerOwned' # <<>> => Last(m_ProducerOwned').data = <<>>
  <2>1. Empty(m_CompletedFromConsumer) /\ (m_ProducerOwned # <<>> => Empty(Front(m_ProducerOwned)))
    BY DEF DataIsOnTheWay
  <2> DEFINE s == m_CompletedFromConsumer  t == m_ProducerOwned  u == m_ProducerOwned'
  <2>2. s \in Seq(Blocks) /\ t \in Seq(Blocks) /\ Empty(s) /\ u = s \o t
    BY <1>1, <1>3, <2>1
  <2>3. t # <<>> => Empty(Front(t))
    BY <2>1
  <2> HIDE DEF s, t, u
  <2>4. /\ u \in Seq(Blocks) /\ Len(u) = Len(s) + Len(t)
        /\ Bases(u) = Bases(s) \cup Bases(t)
        /\ u # <<>> => Empty(Front(u))
        /\ t # <<>> => u # <<>> /\ Last(u) = Last(t)
        /\ t = <<>> /\ u # <<>> => Last(u).data = <<>>
    BY <2>2, <2>3, BackInFront
  <2> QED BY <2>4 DEF s, t, u
<1>6. WriterTypes'
  BY <1>1, <1>2, <1>4, <1>5, NoList DEF WriterTypes, flagVars, consumerVars, diskVars, countVars
<1>7. ThreadModes'
  BY <1>1, <1>2 DEF ThreadModes, flagVars, consumerVars
<1>8. DataIsOnTheWay'
  BY <1>1, <1>2, <1>4, <1>5, NoList DEF DataIsOnTheWay, consumerVars
<1>9. AllAreBack'
  BY <1>1, <1>2 DEF AllAreBack
<1>10. NoneIsLost'
  <2>1. /\ Len(m_ProducerOwned) \in Nat /\ Len(m_ConsumerOwned) \in Nat
        /\ Len(m_PendingForConsumer) \in Nat /\ Len(pending) \in Nat /\ Len(completed) \in Nat
        /\ Len(m_CompletedFromConsumer) \in Nat
    BY DEF WriterTypes
  <2> QED BY <1>1, <1>4, <1>5, <2>1, NoList DEF NoneIsLost, flagVars, consumerVars
<1>11. ErrorsAreKnown'
  BY <1>1 DEF ErrorsAreKnown, flagVars, consumerVars, diskVars
<1>12. InOrder'
  <2> SUFFICES ASSUME ~lost' PROVE InOrder'
    BY DEF InOrder
  <2>1. ~lost
    BY <1>1 DEF diskVars
  <2>2. PICK o, a, b, c, d, e \in Nat : Stretches(o, a, b, c, d, e)
    BY <2>1 DEF InOrder
  <2>3. Chain(m_PendingForConsumer', b, d)
    BY <1>1, <1>3, <2>2, ChainConcat DEF Stretches
  <2>4. Chain(<<>>, d, d) /\ Bytes(d, d) = <<>>
    BY ChainOfNone, NoBytes
  <2>5. IF m_ProducerOwned' = <<>> THEN d = e ELSE Last(m_ProducerOwned').data = Bytes(d, e)
    BY <1>5, <2>2, <2>4 DEF Stretches
  <2>6. Stretches(o, a, b, d, d, e)'
    BY <1>1, <2>2, <2>3, <2>4, <2>5 DEF Stretches, consumerVars, diskVars, countVars
  <2> QED BY <2>6 DEF InOrder
<1> QED BY <1>6, <1>7, <1>8, <1>9, <1>10, <1>11, <1>12

(* A call that begins, and a writer that is deleted.                       *)
LEMMA BeginPreserves ==
    ASSUME WriterInv, BeginFlush \/ Delete
    PROVE  WriterInv'
<1> USE DEF WriterInv
<1>1. /\ UNCHANGED <<listVars, m_Error, flagVars, writeVars, consumerVars, diskVars, submitted>>
      /\ producerPC = "idle" /\ call' \in {"Flush", "Delete"}
      /\ producerPC' \in {"flush", "join"} /\ (m_Thread => producerPC' = "flush")
  <2>1. CASE BeginFlush
    BY <2>1 DEF BeginFlush, Idle
  <2>2. CASE Delete
    BY <2>2 DEF Delete, countVars, BeginDelete, Idle
  <2> QED BY <2>1, <2>2
<1>2. WriterTypes'
  BY <1>1 DEF WriterTypes, listVars, flagVars, writeVars, consumerVars, diskVars
<1>3. ThreadModes'
  BY <1>1 DEF ThreadModes, listVars, flagVars, writeVars, consumerVars
<1>4. DataIsOnTheWay'
  BY <1>1 DEF DataIsOnTheWay, listVars, writeVars, consumerVars
<1>5. AllAreBack'
  BY <1>1, NoList DEF AllAreBack, ThreadModes, listVars, consumerVars
<1>6. NoneIsLost'
  BY <1>1 DEF NoneIsLost, listVars, flagVars, writeVars, consumerVars
<1>7. ErrorsAreKnown'
  BY <1>1 DEF ErrorsAreKnown, flagVars, consumerVars, diskVars
<1>8. InOrder'
  BY <1>1 DEF InOrder, Stretches, listVars, writeVars, consumerVars, diskVars
<1> QED BY <1>2, <1>3, <1>4, <1>5, <1>6, <1>7, <1>8

LEMMA FlushBlockPreserves ==
    ASSUME WriterInv, FlushBlock
    PROVE  WriterInv'
<1> USE DEF WriterInv
<1> DEFINE front == Front(m_ProducerOwned)  last == Last(m_ProducerOwned)
<1>1. /\ producerPC = "flush" /\ producerPC' = "poll" /\ left = <<>> /\ pending = <<>>
      /\ UNCHANGED <<m_ConsumerOwned, m_CompletedFromConsumer, m_Error, flagVars, call, writeVars,
                     consumerVars, diskVars, countVars>>
      /\ m_ProducerOwned \in Seq(Blocks) /\ m_PendingForConsumer \in Seq(Blocks)
  BY DEF FlushBlock, DataIsOnTheWay, WriterTypes
<1>2. CASE BlockInUse
  <2>1. m_PendingForConsumer' = Append(m_PendingForConsumer, last) /\ m_ProducerOwned' = front
    BY <1>2 DEF FlushBlock
  <2>2. m_ProducerOwned # <<>> /\ last.data # <<>>
    BY <1>2 DEF BlockInUse
  <2>3. /\ front \in Seq(Blocks) /\ last \in Blocks /\ Len(m_ProducerOwned) = Len(front) + 1
        /\ Bases(m_ProducerOwned) = Bases(front) \cup {last.base} /\ Empty(front)
    <3>1. front \in Seq(Blocks) /\ last \in Blocks /\ Append(front, last) = m_ProducerOwned
      BY <1>1, <2>2, ListsFront
    <3>2. Empty(front)
      BY <2>2 DEF DataIsOnTheWay
    <3> HIDE DEF front, last
    <3>3. /\ Len(Append(front, last)) = Len(front) + 1
          /\ Bases(Append(front, last)) = Bases(front) \cup {last.base}
      BY <3>1, ListsAppend
    <3> QED BY <3>1, <3>2, <3>3
  <2>4. /\ m_PendingForConsumer' \in Seq(Blocks)
        /\ Len(m_PendingForConsumer') = Len(m_PendingForConsumer) + 1
        /\ Bases(m_PendingForConsumer') = Bases(m_PendingForConsumer) \cup {last.base}
        /\ Full(m_PendingForConsumer')
    BY <1>1, <2>1, <2>2, <2>3, ListsAppend DEF DataIsOnTheWay
  <2>5. front # <<>> => Empty(Front(front)) /\ Last(front).data = <<>>
    BY <2>3, EmptyFront
  <2>6. WriterTypes'
    BY <1>1, <2>1, <2>3, <2>4
    DEF WriterTypes, flagVars, writeVars, consumerVars, diskVars, countVars
  <2>7. ThreadModes'
    BY <1>1, <2>2 DEF ThreadModes, flagVars, writeVars, consumerVars
  <2>8. DataIsOnTheWay'
    BY <1>1, <2>1, <2>4, <2>5 DEF DataIsOnTheWay, writeVars, consumerVars
  <2>9. AllAreBack'
    BY <1>1, <2>1, <2>3 DEF AllAreBack
  <2>10. NoneIsLost'
    <3>1. /\ Len(front) \in Nat /\ Len(m_ConsumerOwned) \in Nat /\ Len(m_PendingForConsumer) \in Nat
          /\ Len(pending) \in Nat /\ Len(completed) \in Nat /\ Len(m_CompletedFromConsumer) \in Nat
      BY <2>3 DEF WriterTypes
    <3> HIDE DEF front, last
    <3> QED BY <1>1, <2>1, <2>3, <2>4, <3>1 DEF NoneIsLost, flagVars, writeVars, consumerVars
  <2>11. ErrorsAreKnown'
    BY <1>1 DEF ErrorsAreKnown, flagVars, consumerVars, diskVars
  <2>12. InOrder'
    <3> SUFFICES ASSUME ~lost' PROVE InOrder'
      BY DEF InOrder
    <3>1. ~lost
      BY <1>1 DEF diskVars
    <3>2. PICK o, a, b, c, d, e \in Nat : Stretches(o, a, b, c, d, e)
      BY <3>1 DEF InOrder
    <3>3. c = d
      BY <1>1, <3>2, NoList, ChainEmpty DEF Stretches
    <3>4. last.data = Bytes(d, e) /\ d <= e
      BY <2>2, <3>2 DEF Stretches
    <3> HIDE DEF front, last
    <3>5. Chain(m_PendingForConsumer', b, e)
      <4>1. Chain(m_PendingForConsumer, b, d)
        BY <3>2, <3>3 DEF Stretches
      <4> QED BY <1>1, <2>1, <2>3, <3>4, <4>1, ChainAppend
    <3>6. Chain(<<>>, e, e) /\ Bytes(e, e) = <<>>
      BY ChainOfNone, NoBytes
    <3>7. Stretches(o, a, b, e, e, e)'
      BY <1>1, <2>1, <2>5, <3>2, <3>5, <3>6
      DEF Stretches, writeVars, consumerVars, diskVars, countVars
    <3> QED BY <3>7 DEF InOrder
  <2> QED BY <2>6, <2>7, <2>8, <2>9, <2>10, <2>11, <2>12
<1>3. CASE ~BlockInUse
  <2>1. UNCHANGED <<m_PendingForConsumer, m_ProducerOwned>>
    BY <1>3 DEF FlushBlock
  <2>2. Empty(m_ProducerOwned)
    <3>1. CASE m_ProducerOwned = <<>>
      BY <3>1, NoList
    <3>2. CASE m_ProducerOwned # <<>>
      <4>1. last.data = <<>> /\ Empty(front)
        BY <1>3, <3>2 DEF BlockInUse, DataIsOnTheWay
      <4>2. front \in Seq(Blocks) /\ last \in Blocks /\ Append(front, last) = m_ProducerOwned
        BY <1>1, <3>2, ListsFront
      <4> HIDE DEF front, last
      <4>3. Empty(Append(front, last))
        BY <4>1, <4>2, ListsAppend
      <4> QED BY <4>2, <4>3
    <3> QED BY <3>1, <3>2
  <2>3. WriterTypes'
    BY <1>1, <2>1 DEF WriterTypes, flagVars, writeVars, consumerVars, diskVars, countVars
  <2>4. ThreadModes'
    BY <1>1, <2>1 DEF ThreadModes, flagVars, writeVars, consumerVars
  <2>5. DataIsOnTheWay'
    BY <1>1, <2>1 DEF DataIsOnTheWay, writeVars, consumerVars
  <2>6. AllAreBack'
    BY <1>1, <2>1, <2>2 DEF AllAreBack
  <2>7. NoneIsLost'
    BY <1>1, <2>1 DEF NoneIsLost, flagVars, writeVars, consumerVars
  <2>8. ErrorsAreKnown'
    BY <1>1 DEF ErrorsAreKnown, flagVars, consumerVars, diskVars
  <2>9. InOrder'
    BY <1>1, <2>1 DEF InOrder, Stretches, writeVars, consumerVars, diskVars, countVars
  <2> QED BY <2>3, <2>4, <2>5, <2>6, <2>7, <2>8, <2>9
<1> QED BY <1>2, <1>3

LEMMA FlushPollPreserves ==
    ASSUME WriterInv, FlushPoll
    PROVE  WriterInv'
<1> USE DEF WriterInv
<1>1. /\ producerPC = "poll" /\ m_Thread /\ left = <<>> /\ pending = <<>>
      /\ m_ProducerOwned' = m_CompletedFromConsumer \o m_ProducerOwned
      /\ m_CompletedFromConsumer' = <<>>
      /\ producerPC' = IF Len(m_ProducerOwned') = NumBlocks THEN "fflush" ELSE "poll"
      /\ UNCHANGED <<m_ConsumerOwned, m_PendingForConsumer, m_Error, flagVars, call, writeVars,
                     consumerVars, diskVars, countVars>>
  BY DEF FlushPoll, TakeCompleted, ThreadModes, DataIsOnTheWay
<1>2. /\ m_ProducerOwned \in Seq(Blocks) /\ m_CompletedFromConsumer \in Seq(Blocks)
      /\ Empty(m_CompletedFromConsumer) /\ Empty(m_ProducerOwned)
      /\ m_ProducerOwned # <<>> => Empty(Front(m_ProducerOwned))
  BY <1>1 DEF WriterTypes, DataIsOnTheWay, AllAreBack
<1>3. /\ m_ProducerOwned' \in Seq(Blocks)
      /\ Len(m_ProducerOwned') = Len(m_CompletedFromConsumer) + Len(m_ProducerOwned)
      /\ Bases(m_ProducerOwned') = Bases(m_CompletedFromConsumer) \cup Bases(m_ProducerOwned)
      /\ Empty(m_ProducerOwned')
      /\ m_ProducerOwned' # <<>> =>
           Empty(Front(m_ProducerOwned')) /\ Last(m_ProducerOwned').data = <<>>
      /\ m_ProducerOwned # <<>> => Last(m_ProducerOwned).data = <<>>
  <2> DEFINE s == m_CompletedFromConsumer  t == m_ProducerOwned  u == m_ProducerOwned'
  <2>1. s \in Seq(Blocks) /\ t \in Seq(Blocks) /\ Empty(s) /\ Empty(t) /\ u = s \o t
    BY <1>1, <1>2
  <2> HIDE DEF s, t, u
  <2>2. /\ u \in Seq(Blocks) /\ Len(u) = Len(s) + Len(t)
        /\ Bases(u) = Bases(s) \cup Bases(t) /\ Empty(u)
    BY <2>1, ListsConcat
  <2>3. /\ u # <<>> => Empty(Front(u)) /\ Last(u).data = <<>>
        /\ t # <<>> => Last(t).data = <<>>
    BY <2>1, <2>2, EmptyFront
  <2> QED BY <2>2, <2>3 DEF s, t, u
<1>4. /\ Len(m_ProducerOwned) \in Nat /\ Len(m_ConsumerOwned) \in Nat
      /\ Len(m_PendingForConsumer) \in Nat /\ Len(pending) \in Nat /\ Len(completed) \in Nat
      /\ Len(m_CompletedFromConsumer) \in Nat
  BY DEF WriterTypes
<1>5. WriterTypes'
  BY <1>1, <1>3, NoList DEF WriterTypes, flagVars, writeVars, consumerVars, diskVars, countVars
<1>6. ThreadModes'
  BY <1>1 DEF ThreadModes, flagVars, writeVars, consumerVars
<1>7. DataIsOnTheWay'
  BY <1>1, <1>3, NoList DEF DataIsOnTheWay, writeVars, consumerVars
<1>8. NoneIsLost'
  BY <1>1, <1>3, <1>4, NoList DEF NoneIsLost, flagVars, writeVars, consumerVars
<1>9. AllAreBack'
  <2>1. CASE Len(m_ProducerOwned') # NumBlocks
    BY <1>1, <1>3, <2>1 DEF AllAreBack
  <2>2. CASE Len(m_ProducerOwned') = NumBlocks
    <3>1. /\ Len(m_ConsumerOwned) = 0 /\ Len(m_PendingForConsumer) = 0 /\ Len(completed) = 0
          /\ consumerPC # "write"
      BY <1>1, <1>3, <1>4, <2>2, Sizes DEF NoneIsLost
    <3>2. m_ConsumerOwned = <<>> /\ m_PendingForConsumer = <<>> /\ completed = <<>>
      BY EmptySeq, <3>1 DEF WriterTypes
    <3> QED BY <1>1, <1>3, <3>1, <3>2 DEF AllAreBack, consumerVars
  <2> QED BY <2>1, <2>2
<1>10. ErrorsAreKnown'
  BY <1>1 DEF ErrorsAreKnown, flagVars, consumerVars, diskVars
<1>11. InOrder'
  <2> SUFFICES ASSUME ~lost' PROVE InOrder'
    BY DEF InOrder
  <2>1. ~lost
    BY <1>1 DEF diskVars
  <2>2. PICK o, a, b, c, d, e \in Nat : Stretches(o, a, b, c, d, e)
    BY <2>1 DEF InOrder
  <2>3. d = e /\ Bytes(e, e) = <<>>
    BY <1>3, <2>2, NoBytes DEF Stretches
  <2>4. Stretches(o, a, b, c, d, e)'
    BY <1>1, <1>3, <2>2, <2>3 DEF Stretches, writeVars, consumerVars, diskVars, countVars
  <2> QED BY <2>4 DEF InOrder
<1> QED BY <1>5, <1>6, <1>7, <1>8, <1>9, <1>10, <1>11

(* The steps of a flush and of the destructor that leave the lists alone.  *)
LEMMA FlushEndPreserves ==
    ASSUME WriterInv, FlushNoThread \/ FlushFile
    PROVE  WriterInv'
<1> USE DEF WriterInv
<1>1. /\ UNCHANGED <<listVars, flagVars, writeVars, consumerVars, file, lost, submitted>>
      /\ m_Error' = m_Error \/ m_Error' = FileIOFailed
      /\ call' \in {"none", "Flush", "Delete"} \/ call' = call
      /\ \/ producerPC = "poll" /\ producerPC' = "fflush" /\ ~m_Thread
         \/ producerPC = "fflush" /\ producerPC' \in {"idle", "kill", "flush"}
         \/ producerPC = "fflush" /\ producerPC' = "join" /\ ~m_Thread
  <2>1. CASE FlushNoThread
    BY <2>1 DEF FlushNoThread, ThreadModes, diskVars, countVars, flagVars
  <2>2. CASE FlushFile
    BY <2>2 DEF FlushFile, Return, BeginDelete
  <2> QED BY <2>1, <2>2
<1>2. WriterTypes'
  BY <1>1 DEF WriterTypes, listVars, flagVars, writeVars, consumerVars, Results
<1>3. ThreadModes'
  BY <1>1 DEF ThreadModes, listVars, flagVars, writeVars, consumerVars
<1>4. DataIsOnTheWay'
  BY <1>1 DEF DataIsOnTheWay, listVars, writeVars, consumerVars
<1>5. AllAreBack'
  BY <1>1, NoList DEF AllAreBack, ThreadModes, listVars, consumerVars
<1>6. NoneIsLost'
  BY <1>1 DEF NoneIsLost, listVars, flagVars, writeVars, consumerVars
<1>7. ErrorsAreKnown'
  BY <1>1 DEF ErrorsAreKnown, flagVars, consumerVars, Succeeded, FileIOFailed
<1>8. InOrder'
  BY <1>1 DEF InOrder, Stretches, listVars, writeVars, consumerVars
<1> QED BY <1>2, <1>3, <1>4, <1>5, <1>6, <1>7, <1>8

LEMMA DeletePreserves ==
    ASSUME WriterInv, KillThread \/ JoinThread
    PROVE  WriterInv'
<1> USE DEF WriterInv
<1>1. /\ UNCHANGED <<listVars, m_Error, m_ThreadRunning, call, writeVars, consumerVars, diskVars,
                     countVars>>
      /\ \/ producerPC = "kill" /\ producerPC' = "join" /\ m_ThreadKill' = 1 /\ m_Thread' = m_Thread
         \/ /\ producerPC = "join" /\ producerPC' = "deleted" /\ consumerPC = "ended"
            /\ m_ThreadKill' = m_ThreadKill /\ m_Thread' = FALSE
  BY DEF KillThread, JoinThread
<1>2. WriterTypes'
  BY <1>1 DEF WriterTypes, listVars, writeVars, consumerVars, diskVars, countVars
<1>3. ThreadModes'
  BY <1>1 DEF ThreadModes, listVars, writeVars, consumerVars
<1>4. DataIsOnTheWay'
  BY <1>1 DEF DataIsOnTheWay, listVars, writeVars, consumerVars
<1>5. AllAreBack'
  BY <1>1 DEF AllAreBack, listVars, consumerVars
<1>6. NoneIsLost'
  BY <1>1 DEF NoneIsLost, listVars, writeVars, consumerVars
<1>7. ErrorsAreKnown'
  BY <1>1 DEF ErrorsAreKnown, consumerVars, diskVars
<1>8. InOrder'
  BY <1>1 DEF InOrder, Stretches, listVars, writeVars, consumerVars, diskVars, countVars
<1> QED BY <1>2, <1>3, <1>4, <1>5, <1>6, <1>7, <1>8

-----------------------------------------------------------------------------
(* The steps of the thread.                                                *)

LEMMA ThreadLoopPreserves ==
    ASSUME WriterInv, ThreadContinues \/ ThreadEnds
    PROVE  WriterInv'
<1> USE DEF WriterInv
<1>1. /\ UNCHANGED <<listVars, m_Error, m_Thread, m_ThreadKill, callVars, writeVars, work, completed,
                     error, diskVars, countVars>>
      /\ consumerPC = "loop"
      /\ \/ consumerPC' = "exchange" /\ m_ThreadRunning' = m_ThreadRunning
         \/ consumerPC' = "ended" /\ m_ThreadRunning' = 0 /\ m_ThreadKill = 1
  BY DEF ThreadContinues, ThreadEnds, flagVars
<1>2. WriterTypes'
  BY <1>1 DEF WriterTypes, listVars, callVars, writeVars, diskVars, countVars
<1>3. ThreadModes'
  BY <1>1 DEF ThreadModes, listVars, callVars, writeVars
<1>4. DataIsOnTheWay'
  BY <1>1 DEF DataIsOnTheWay, listVars, callVars, writeVars
<1>5. AllAreBack'
  BY <1>1 DEF AllAreBack, listVars, callVars
<1>6. NoneIsLost'
  BY <1>1 DEF NoneIsLost, listVars, writeVars
<1>7. ErrorsAreKnown'
  BY <1>1 DEF ErrorsAreKnown, callVars, diskVars
<1>8. InOrder'
  BY <1>1 DEF InOrder, Stretches, listVars, writeVars, diskVars, countVars
<1> QED BY <1>2, <1>3, <1>4, <1>5, <1>6, <1>7, <1>8

LEMMA ThreadExchangePreserves ==
    ASSUME WriterInv, ThreadExchange
    PROVE  WriterInv'
<1> USE DEF WriterInv
<1> DEFINE owned == m_ConsumerOwned \o m_PendingForConsumer
<1>1. /\ consumerPC = "exchange" /\ m_Thread /\ work = NoBlock
      /\ m_CompletedFromConsumer' = m_CompletedFromConsumer \o completed /\ completed' = <<>>
      /\ m_PendingForConsumer' = <<>>
      /\ m_Error' = IF m_Error = Succeeded THEN error ELSE m_Error
      /\ UNCHANGED <<m_ProducerOwned, flagVars, callVars, writeVars, error, diskVars, countVars>>
  BY DEF ThreadExchange, ThreadModes
<1>2. /\ m_ConsumerOwned \in Seq(Blocks) /\ m_PendingForConsumer \in Seq(Blocks)
      /\ m_CompletedFromConsumer \in Seq(Blocks) /\ completed \in Seq(Blocks)
      /\ Full(m_ConsumerOwned) /\ Full(m_PendingForConsumer)
      /\ Empty(completed) /\ Empty(m_CompletedFromConsumer)
  BY DEF WriterTypes, DataIsOnTheWay
<1>3. /\ owned \in Seq(Blocks) /\ Full(owned)
      /\ Len(owned) = Len(m_ConsumerOwned) + Len(m_PendingForConsumer)
      /\ Bases(owned) = Bases(m_ConsumerOwned) \cup Bases(m_PendingForConsumer)
  BY <1>2, ListsConcat
<1>4. /\ m_CompletedFromConsumer' \in Seq(Blocks) /\ Empty(m_CompletedFromConsumer')
      /\ Len(m_CompletedFromConsumer') = Len(m_CompletedFromConsumer) + Len(completed)
      /\ Bases(m_CompletedFromConsumer') = Bases(m_CompletedFromConsumer) \cup Bases(completed)
  BY <1>1, <1>2, ListsConcat
<1>5. /\ Len(m_ProducerOwned) \in Nat /\ Len(m_ConsumerOwned) \in Nat
      /\ Len(m_PendingForConsumer) \in Nat /\ Len(pending) \in Nat /\ Len(completed) \in Nat
      /\ Len(m_CompletedFromConsumer) \in Nat
  BY DEF WriterTypes
<1>6. ErrorsAreKnown'
  BY <1>1 DEF ErrorsAreKnown, flagVars, callVars, diskVars
<1>7. \/ /\ owned = <<>> /\ m_ConsumerOwned' = <<>>
         /\ consumerPC' = "loop" /\ work' = work
      \/ /\ owned # <<>> /\ m_ConsumerOwned' = Tail(owned) /\ work' = Head(owned)
         /\ consumerPC' = IF Head(owned).data = <<>> THEN "loop" ELSE "write"
  BY DEF ThreadExchange
<1>8. ASSUME NEW a \in Nat, NEW b \in Nat, NEW c \in Nat,
             Chain(m_ConsumerOwned, a, b), Chain(m_PendingForConsumer, b, c)
      PROVE  Chain(owned, a, c)
  BY <1>2, <1>8, ChainConcat
<1> HIDE DEF owned
<1>9. CASE owned = <<>> /\ m_ConsumerOwned' = <<>> /\ consumerPC' = "loop" /\ work' = work
  <2>1. WriterTypes'
    BY <1>1, <1>4, <1>9, NoList DEF WriterTypes, flagVars, callVars, writeVars, diskVars, countVars
  <2>2. ThreadModes'
    BY <1>1, <1>9 DEF ThreadModes, flagVars, callVars, writeVars
  <2>3. DataIsOnTheWay'
    BY <1>1, <1>4, <1>9, NoList DEF DataIsOnTheWay, callVars, writeVars
  <2>4. AllAreBack'
    BY <1>1, <1>9, NoList DEF AllAreBack, callVars
  <2>5. NoneIsLost'
    <3>1. /\ Len(m_ConsumerOwned') = 0 /\ Len(m_PendingForConsumer') = 0 /\ Len(completed') = 0
          /\ Bases(m_ConsumerOwned') = {} /\ Bases(m_PendingForConsumer') = {} /\ Bases(completed') = {}
      BY <1>1, <1>9, NoList
    <3>2. Len(m_ConsumerOwned) + Len(m_PendingForConsumer) = 0
      BY <1>3, <1>9, NoList
    <3>3. Bases(m_ConsumerOwned) = {} /\ Bases(m_PendingForConsumer) = {}
      BY <1>3, <1>9, NoList
    <3>4. UNCHANGED <<m_ProducerOwned, pending, m_Thread>>
      BY <1>1 DEF flagVars, writeVars
    <3>5. SUFFICES ASSUME m_Thread
                   PROVE  /\ Len(m_ProducerOwned) + 0 + 0 + Len(pending) + 0
                               + Len(m_CompletedFromConsumer') + 0 = NumBlocks
                          /\ Bases(m_ProducerOwned) \cup Bases(pending)
                               \cup Bases(m_CompletedFromConsumer') = 1 .. NumBlocks
      BY <1>9, <3>1, <3>4 DEF NoneIsLost
    <3>6. /\ Len(m_ProducerOwned) + Len(m_ConsumerOwned) + Len(m_PendingForConsumer) + Len(pending)
               + Len(completed) + Len(m_CompletedFromConsumer) + 0 = NumBlocks
          /\ Bases(m_ProducerOwned) \cup Bases(m_ConsumerOwned) \cup Bases(m_PendingForConsumer)
               \cup Bases(pending) \cup Bases(completed) \cup Bases(m_CompletedFromConsumer)
               \cup {} = 1 .. NumBlocks
      BY <1>1, <3>5 DEF NoneIsLost
    <3>7. /\ Len(m_ProducerOwned) + 0 + 0 + Len(pending) + 0
               + Len(m_CompletedFromConsumer') + 0 = NumBlocks
      BY <1>4, <1>5, <3>2, <3>6
    <3>8. Bases(m_ProducerOwned) \cup Bases(pending) \cup Bases(m_CompletedFromConsumer')
            = 1 .. NumBlocks
      BY <1>4, <3>3, <3>6
    <3> QED BY <3>7, <3>8
  <2>6. InOrder'
    <3> SUFFICES ASSUME ~lost' PROVE InOrder'
      BY DEF InOrder
    <3>1. ~lost
      BY <1>1 DEF diskVars
    <3>2. PICK o, a, b, c, d, e \in Nat : Stretches(o, a, b, c, d, e)
      BY <3>1 DEF InOrder
    <3>3. Chain(owned, a, c)
      BY <1>8, <3>2 DEF Stretches
    <3>4. a = c
      BY <1>9, <3>3, NoList, ChainEmpty
    <3>5. Chain(<<>>, a, a)
      BY ChainOfNone
    <3>6. Stretches(o, a, a, a, d, e)'
      BY <1>1, <1>9, <3>2, <3>4, <3>5 DEF Stretches, writeVars, diskVars, countVars
    <3> QED BY <3>6 DEF InOrder
  <2> QED BY <1>6, <2>1, <2>2, <2>3, <2>4, <2>5, <2>6
<1>10. CASE /\ owned # <<>> /\ m_ConsumerOwned' = Tail(owned) /\ work' = Head(owned)
            /\ consumerPC' = IF Head(owned).data = <<>> THEN "loop" ELSE "write"
  <2>1. /\ work' \in Blocks /\ m_ConsumerOwned' \in Seq(Blocks)
        /\ Len(m_ConsumerOwned') = Len(owned) - 1 /\ Len(owned) \in Nat
        /\ Bases(owned) = {work'.base} \cup Bases(m_ConsumerOwned')
        /\ work'.data # <<>> /\ Full(m_ConsumerOwned')
    BY <1>3, <1>10, ListsTail
  <2>2. consumerPC' = "write" /\ work' # NoBlock
    BY <1>10, <2>1, NoBlockHasNoData
  <2>3. owned # <<>> => m_ConsumerOwned # <<>> \/ m_PendingForConsumer # <<>>
    BY <1>2, ConcatEqualIffEmpty DEF owned
  <2>4. producerPC \notin {"fflush", "kill", "join", "deleted"}
    BY <1>10, <2>3 DEF AllAreBack
  <2>5. WriterTypes'
    BY <1>1, <1>4, <2>1, <2>2, NoList DEF WriterTypes, flagVars, callVars, writeVars, diskVars, countVars
  <2>6. ThreadModes'
    BY <1>1, <2>2 DEF ThreadModes, flagVars, callVars, writeVars
  <2>7. DataIsOnTheWay'
    BY <1>1, <1>4, <2>1, NoList DEF DataIsOnTheWay, callVars, writeVars
  <2>8. AllAreBack'
    BY <1>1, <2>4 DEF AllAreBack, callVars
  <2>9. NoneIsLost'
    BY <1>1, <1>3, <1>4, <1>5, <2>1, <2>2, NoList DEF NoneIsLost, flagVars, writeVars
  <2>10. InOrder'
    <3> SUFFICES ASSUME ~lost' PROVE InOrder'
      BY DEF InOrder
    <3>1. ~lost
      BY <1>1 DEF diskVars
    <3>2. PICK o, a, b, c, d, e \in Nat : Stretches(o, a, b, c, d, e)
      BY <3>1 DEF InOrder
    <3>3. Chain(owned, a, c)
      BY <1>8, <3>2 DEF Stretches
    <3>4. PICK n \in a .. c : Head(owned).data = Bytes(a, n) /\ Chain(Tail(owned), n, c)
      BY <1>3, <1>10, <3>3, ChainHead
    <3>5. n \in Nat /\ a <= n
      BY <3>4
    <3>6. o = a
      BY <1>1, <3>2, NoBlockHasNoData, NoBytes DEF Stretches
    <3>7. Chain(<<>>, c, c)
      BY ChainOfNone
    <3>8. Stretches(o, n, c, c, d, e)'
      BY <1>1, <1>10, <3>2, <3>4, <3>5, <3>6, <3>7 DEF Stretches, writeVars, diskVars, countVars
    <3> QED BY <3>5, <3>8 DEF InOrder
  <2> QED BY <1>6, <2>5, <2>6, <2>7, <2>8, <2>9, <2>10
<1> QED BY <1>7, <1>9, <1>10

LEMMA ThreadWritePreserves ==
    ASSUME WriterInv, ThreadWrite
    PROVE  WriterInv'
<1> USE DEF WriterInv
<1> DEFINE back == EmptyBlock(work.base)
<1>1. /\ consumerPC = "write" /\ consumerPC' = "loop" /\ m_Thread /\ work \in Blocks
      /\ completed' = Append(completed, back) /\ work' = NoBlock
      /\ UNCHANGED <<listVars, m_Error, flagVars, callVars, writeVars, countVars>>
      /\ completed \in Seq(Blocks) /\ Empty(completed)
      /\ producerPC \notin {"fflush", "kill", "join", "deleted"}
  BY DEF ThreadWrite, ThreadModes, WriterTypes, DataIsOnTheWay, AllAreBack
<1>2. PICK result \in Results : /\ Fwrite(work.data, result)
                                /\ error' = IF error = Succeeded THEN result ELSE error
  BY DEF ThreadWrite
<1>3. back \in Blocks /\ back.base = work.base /\ back.data = <<>>
  BY <1>1, Sizes DEF EmptyBlock, Blocks
<1> HIDE DEF back
<1>4. /\ completed' \in Seq(Blocks) /\ completed' # <<>> /\ Len(completed') = Len(completed) + 1
      /\ Bases(completed') = Bases(completed) \cup {work.base} /\ Empty(completed')
  BY <1>1, <1>3, ListsAppend
<1>5. work.data \in Seq(Nat)
  BY <1>1 DEF Blocks
<1>6. file' \in Seq(Nat) /\ lost' \in BOOLEAN
  <2>1. CASE file' = file \o work.data /\ lost' = lost
    BY <1>5, <2>1 DEF WriterTypes
  <2>2. CASE lost' /\ \E n \in 0 .. Len(work.data) - 1 : file' = file \o SubSeq(work.data, 1, n)
    <3>1. PICK n \in 0 .. Len(work.data) - 1 : file' = file \o SubSeq(work.data, 1, n)
      BY <2>2
    <3>2. Len(work.data) \in Nat /\ \A i \in 1 .. n : work.data[i] \in Nat
      BY <1>5
    <3>3. SubSeq(work.data, 1, n) \in Seq(Nat)
      BY <3>2, SubSeqProperties
    <3> QED BY <2>2, <3>1, <3>3 DEF WriterTypes
  <2> QED BY <1>2, <2>1, <2>2 DEF Fwrite
<1>7. /\ lost' => lost \/ result # Succeeded
      /\ ~lost' => ~lost /\ file' = file \o work.data
  BY <1>2 DEF Fwrite, Succeeded, FileIOFailed, WriterTypes
<1>8. WriterTypes'
  BY <1>1, <1>2, <1>4, <1>6 DEF WriterTypes, listVars, flagVars, callVars, writeVars, countVars
<1>9. ThreadModes'
  BY <1>1 DEF ThreadModes, listVars, flagVars, callVars, writeVars
<1>10. DataIsOnTheWay'
  BY <1>1, <1>4 DEF DataIsOnTheWay, listVars, callVars, writeVars
<1>11. AllAreBack'
  BY <1>1 DEF AllAreBack, listVars, callVars
<1>12. NoneIsLost'
  BY <1>1, <1>4 DEF WriterTypes, NoneIsLost, listVars, flagVars, writeVars
<1>13. ErrorsAreKnown'
  BY <1>1, <1>2, <1>4, <1>7 DEF ErrorsAreKnown, flagVars, callVars, listVars
<1>14. InOrder'
  <2> SUFFICES ASSUME ~lost' PROVE InOrder'
    BY DEF InOrder
  <2>1. ~lost /\ file' = file \o work.data
    BY <1>7
  <2>2. PICK o, a, b, c, d, e \in Nat : Stretches(o, a, b, c, d, e)
    BY <2>1 DEF InOrder
  <2>3. file' = Bytes(0, a)
    <3>1. 0 \in Nat /\ 0 <= o /\ o <= a /\ file = Bytes(0, o) /\ work.data = Bytes(o, a)
      BY <2>2 DEF Stretches
    <3>2. Bytes(0, o) \o Bytes(o, a) = Bytes(0, a)
      BY <3>1, BytesConcat
    <3> QED BY <2>1, <3>1, <3>2
  <2>4. work'.data = Bytes(a, a)
    BY <1>1, NoBytes, NoBlockHasNoData
  <2>5. Stretches(a, a, b, c, d, e)'
    BY <1>1, <2>2, <2>3, <2>4 DEF Stretches, listVars, writeVars, countVars
  <2> QED BY <2>5 DEF InOrder
<1> QED BY <1>8, <1>9, <1>10, <1>11, <1>12, <1>13, <1>14

-----------------------------------------------------------------------------
LEMMA StepPreserves == WriterInv /\ [WriterNext]_writerVars => WriterInv'
<1> SUFFICES ASSUME WriterInv, [WriterNext]_writerVars PROVE WriterInv'
  OBVIOUS
<1>1. ASSUME NEW length \in Lengths,
             WriteUnthreaded(length) \/ WriteIntoBlock(length) \/ BeginWrite(length)
      PROVE  WriterInv'
  BY <1>1, WriteUnthreadedPreserves, WriteIntoBlockPreserves, BeginWritePreserves
<1>2. CASE BeginFlush \/ Delete
  BY <1>2, BeginPreserves
<1>3. CASE FillBlock
  BY <1>3, FillBlockPreserves
<1>4. CASE ExchangeBlocks
  BY <1>4, ExchangeBlocksPreserves
<1>5. CASE FlushBlock
  BY <1>5, FlushBlockPreserves
<1>6. CASE FlushPoll
  BY <1>6, FlushPollPreserves
<1>7. CASE FlushNoThread \/ FlushFile
  BY <1>7, FlushEndPreserves
<1>8. CASE KillThread \/ JoinThread
  BY <1>8, DeletePreserves
<1>9. CASE ThreadContinues \/ ThreadEnds
  BY <1>9, ThreadLoopPreserves
<1>10. CASE ThreadExchange
  BY <1>10, ThreadExchangePreserves
<1>11. CASE ThreadWrite
  BY <1>11, ThreadWritePreserves
<1>12. CASE UNCHANGED writerVars
  <2>1. /\ UNCHANGED <<m_ProducerOwned, m_ConsumerOwned, m_PendingForConsumer, m_CompletedFromConsumer>>
        /\ UNCHANGED <<m_Error, m_Thread, m_ThreadRunning, m_ThreadKill, call, producerPC>>
        /\ UNCHANGED <<left, pending, ret, consumerPC, work, completed, error, file, lost, submitted>>
    BY <1>12 DEF writerVars, listVars, flagVars, callVars, writeVars, consumerVars, diskVars, countVars
  <2> QED BY <2>1 DEF WriterInv, WriterTypes, ThreadModes, DataIsOnTheWay, AllAreBack, NoneIsLost,
                      ErrorsAreKnown, InOrder, Stretches
<1> QED BY <1>1, <1>2, <1>3, <1>4, <1>5, <1>6, <1>7, <1>8, <1>9, <1>10, <1>11, <1>12
        DEF WriterNext, ProducerStep, ConsumerStep

LEMMA Invariance == WriterSpec => []WriterInv
BY InitEstablishes, StepPreserves, PTL DEF WriterSpec

-----------------------------------------------------------------------------
(* What the invariant says of all the blocks.                              *)

LEMMA BytesAreInOrder ==
    ASSUME WriterInv
    PROVE  /\ ~lost => file \o DataOf(OnTheWay \o m_ProducerOwned) \o left = Bytes(0, submitted)
           /\ ~lost => file = Bytes(0, Len(file)) /\ Len(file) <= submitted
<1> USE DEF WriterInv
<1> SUFFICES ASSUME ~lost
             PROVE  /\ file \o DataOf(OnTheWay \o m_ProducerOwned) \o left = Bytes(0, submitted)
                    /\ file = Bytes(0, Len(file)) /\ Len(file) <= submitted
  OBVIOUS
<1>1. PICK o, a, b, c, d, e \in Nat : Stretches(o, a, b, c, d, e)
  BY DEF InOrder
<1>2. /\ m_ProducerOwned \in Seq(Blocks) /\ m_ConsumerOwned \in Seq(Blocks)
      /\ m_PendingForConsumer \in Seq(Blocks) /\ pending \in Seq(Blocks) /\ submitted \in Nat
      /\ work \in Blocks \cup {NoBlock}
  BY DEF WriterTypes
<1> DEFINE B == Blocks \cup {NoBlock}
<1>3. /\ m_ProducerOwned \in Seq(B) /\ m_ConsumerOwned \in Seq(B)
      /\ m_PendingForConsumer \in Seq(B) /\ pending \in Seq(B)
  BY <1>2, SeqMonotonic
<1>4. AtWork \in Seq(B) /\ Chain(AtWork, o, a)
  <2>1. CASE work = NoBlock
    BY <1>1, <2>1, NoBlockHasNoData, NoBytes, ChainOfNone DEF Stretches, AtWork
  <2>2. CASE work # NoBlock
    BY <1>1, <2>2, <1>2, ListOfOne, ChainOfOne DEF Stretches, AtWork
  <2> QED BY <2>1, <2>2
<1>5. Chain(m_ProducerOwned, d, e)
  <2>1. CASE m_ProducerOwned = <<>>
    BY <1>1, <2>1, ChainOfNone DEF Stretches
  <2>2. CASE m_ProducerOwned # <<>>
    <3> DEFINE f == Front(m_ProducerOwned)  x == Last(m_ProducerOwned)
    <3>1. f \in Seq(Blocks) /\ x \in Blocks /\ Append(f, x) = m_ProducerOwned /\ Empty(f)
      BY <1>2, <2>2, ListsFront DEF DataIsOnTheWay
    <3>2. d <= e /\ x.data = Bytes(d, e)
      BY <1>1, <2>2 DEF Stretches
    <3> HIDE DEF f, x
    <3>3. Chain(f, d, d)
      BY <3>1, EmptyChain
    <3>4. Chain(Append(f, x), d, e)
      BY <3>1, <3>2, <3>3, ChainAppend
    <3> QED BY <3>1, <3>4
  <2> QED BY <2>1, <2>2
<1> DEFINE p == AtWork \o m_ConsumerOwned  q == p \o m_PendingForConsumer  r == q \o pending
           all == r \o m_ProducerOwned
<1> HIDE DEF B
<1>6. p \in Seq(B) /\ Chain(p, o, b)
  BY <1>1, <1>3, <1>4, ChainConcat, ConcatProperties DEF Stretches
<1> HIDE DEF p
<1>7. q \in Seq(B) /\ Chain(q, o, c)
  BY <1>1, <1>3, <1>6, ChainConcat, ConcatProperties DEF Stretches
<1> HIDE DEF q
<1>8. r \in Seq(B) /\ Chain(r, o, d)
  BY <1>1, <1>3, <1>7, ChainConcat, ConcatProperties DEF Stretches
<1> HIDE DEF r
<1>9. all \in Seq(B) /\ Chain(all, o, e)
  BY <1>3, <1>5, <1>8, ChainConcat, ConcatProperties
<1>10. all = OnTheWay \o m_ProducerOwned
  BY DEF OnTheWay, p, q, r
<1> HIDE DEF all
<1>11. DataOf(all) = Bytes(o, e) /\ o <= e
  BY <1>9, DataOfChain, ChainBounds
<1>12. file = Bytes(0, o) /\ left = Bytes(e, submitted) /\ e <= submitted
  BY <1>1 DEF Stretches
<1>13. Bytes(0, o) \o Bytes(o, e) = Bytes(0, e)
  <2>1. 0 \in Nat /\ 0 <= o
    OBVIOUS
  <2> QED BY <1>11, <2>1, BytesConcat
<1>14. Bytes(0, e) \o Bytes(e, submitted) = Bytes(0, submitted)
  <2>1. 0 \in Nat /\ 0 <= e
    OBVIOUS
  <2> QED BY <1>2, <1>12, <2>1, BytesConcat
<1>15. Len(file) = o /\ o <= submitted
  <2>1. 0 \in Nat /\ 0 <= o /\ o - 0 = o
    OBVIOUS
  <2>2. Len(Bytes(0, o)) = o
    BY <2>1, BytesLength
  <2> QED BY <1>2, <1>11, <1>12, <2>2
<1>16. file \o DataOf(all) = Bytes(0, e)
  BY <1>11, <1>12, <1>13
<1>17. file \o DataOf(all) \o left = Bytes(0, submitted)
  BY <1>12, <1>14, <1>16
<1> QED BY <1>10, <1>12, <1>15, <1>17

\* The invariant in terms of all the blocks together.
LEMMA TheseAreAll ==
    ASSUME WriterInv
    PROVE  /\ AllBlocks \in Seq(Blocks)
           /\ m_Thread => Len(AllBlocks) = NumBlocks /\ Bases(AllBlocks) = 1 .. NumBlocks
<1> USE DEF WriterInv
<1> DEFINE W == IF consumerPC = "write" THEN 1 ELSE 0
           V == IF consumerPC = "write" THEN {work.base} ELSE {}
<1>1. /\ m_ProducerOwned \in Seq(Blocks) /\ m_ConsumerOwned \in Seq(Blocks)
      /\ m_PendingForConsumer \in Seq(Blocks) /\ m_CompletedFromConsumer \in Seq(Blocks)
      /\ pending \in Seq(Blocks) /\ completed \in Seq(Blocks)
  BY DEF WriterTypes
<1>2. AtWork \in Seq(Blocks) /\ Len(AtWork) = W /\ Bases(AtWork) = V
  <2>1. CASE work = NoBlock
    BY <2>1, NoList DEF AtWork, ThreadModes
  <2>2. CASE work # NoBlock
    BY <2>2, ListOfOne DEF AtWork, WriterTypes, ThreadModes
  <2> QED BY <2>1, <2>2
<1> DEFINE p == AtWork \o m_ConsumerOwned
           q == p \o m_PendingForConsumer
           r == q \o pending
           s == m_ProducerOwned \o r
           t == s \o completed
           u == t \o m_CompletedFromConsumer
<1>3. u = AllBlocks
  BY DEF AllBlocks, OnTheWay
<1> HIDE DEF W, V
<1>4. /\ p \in Seq(Blocks) /\ Len(p) = W + Len(m_ConsumerOwned)
      /\ Bases(p) = V \cup Bases(m_ConsumerOwned)
  BY <1>1, <1>2, ListsConcat
<1> HIDE DEF p
<1>5. /\ q \in Seq(Blocks) /\ Len(q) = Len(p) + Len(m_PendingForConsumer)
      /\ Bases(q) = Bases(p) \cup Bases(m_PendingForConsumer)
  <2>1. p \in Seq(Blocks) /\ m_PendingForConsumer \in Seq(Blocks)
    BY <1>1, <1>4
  <2> QED BY <2>1, ListsConcat
<1> HIDE DEF q
<1>6. /\ r \in Seq(Blocks) /\ Len(r) = Len(q) + Len(pending)
      /\ Bases(r) = Bases(q) \cup Bases(pending)
  <2>1. q \in Seq(Blocks) /\ pending \in Seq(Blocks)
    BY <1>1, <1>5
  <2> QED BY <2>1, ListsConcat
<1> HIDE DEF r
<1>7. /\ s \in Seq(Blocks) /\ Len(s) = Len(m_ProducerOwned) + Len(r)
      /\ Bases(s) = Bases(m_ProducerOwned) \cup Bases(r)
  <2>1. m_ProducerOwned \in Seq(Blocks) /\ r \in Seq(Blocks)
    BY <1>1, <1>6
  <2> QED BY <2>1, ListsConcat
<1> HIDE DEF s
<1>8. /\ t \in Seq(Blocks) /\ Len(t) = Len(s) + Len(completed)
      /\ Bases(t) = Bases(s) \cup Bases(completed)
  <2>1. s \in Seq(Blocks) /\ completed \in Seq(Blocks)
    BY <1>1, <1>7
  <2> QED BY <2>1, ListsConcat
<1> HIDE DEF t
<1>9. /\ u \in Seq(Blocks) /\ Len(u) = Len(t) + Len(m_CompletedFromConsumer)
      /\ Bases(u) = Bases(t) \cup Bases(m_CompletedFromConsumer)
  <2>1. t \in Seq(Blocks) /\ m_CompletedFromConsumer \in Seq(Blocks)
    BY <1>1, <1>8
  <2> QED BY <2>1, ListsConcat
<1> HIDE DEF u
<1>10. ASSUME m_Thread PROVE Len(u) = NumBlocks
  <2>1. /\ Len(m_ProducerOwned) \in Nat /\ Len(m_ConsumerOwned) \in Nat
        /\ Len(m_PendingForConsumer) \in Nat /\ Len(pending) \in Nat /\ Len(completed) \in Nat
        /\ Len(m_CompletedFromConsumer) \in Nat
    BY <1>1
  <2>2. W \in Nat
    BY DEF W
  <2>3. Len(m_ProducerOwned) + Len(m_ConsumerOwned) + Len(m_PendingForConsumer) + Len(pending)
          + Len(completed) + Len(m_CompletedFromConsumer) + W = NumBlocks
    BY <1>10 DEF NoneIsLost, W
  <2> QED BY <1>4, <1>5, <1>6, <1>7, <1>8, <1>9, <2>1, <2>2, <2>3
<1>11. ASSUME m_Thread PROVE Bases(u) = 1 .. NumBlocks
  <2>1. Bases(m_ProducerOwned) \cup Bases(m_ConsumerOwned) \cup Bases(m_PendingForConsumer)
          \cup Bases(pending) \cup Bases(completed) \cup Bases(m_CompletedFromConsumer)
          \cup V = 1 .. NumBlocks
    BY <1>11 DEF NoneIsLost, V
  <2> QED BY <1>4, <1>5, <1>6, <1>7, <1>8, <1>9, <2>1
<1> QED BY <1>3, <1>9, <1>10, <1>11

LEMMA BlocksAreKept == WriterInv => BlocksKept
<1> SUFFICES ASSUME WriterInv PROVE BlocksKept
  OBVIOUS
<1> USE DEF WriterInv
<1>1. AllBlocks \in Seq(Blocks)
  BY TheseAreAll
<1>2. ASSUME m_Thread
      PROVE  /\ Len(AllBlocks) = NumBlocks
             /\ {AllBlocks[i].base : i \in DOMAIN AllBlocks} = 1 .. NumBlocks
  BY <1>1, <1>2, TheseAreAll DEF Bases
<1>3. ASSUME NEW i \in DOMAIN AllBlocks
      PROVE  Len(AllBlocks[i].data) \in 0 .. BlockSize
  <2>1. AllBlocks[i] \in Blocks
    BY <1>1
  <2>2. AllBlocks[i].data \in Seq(Nat) /\ Len(AllBlocks[i].data) <= BlockSize
    BY <2>1 DEF Blocks
  <2> QED BY <2>2, Sizes
<1>4. ASSUME NEW i \in DOMAIN m_ProducerOwned, m_ProducerOwned[i].data # <<>>
      PROVE  i = Len(m_ProducerOwned)
  <2> DEFINE f == Front(m_ProducerOwned)  x == Last(m_ProducerOwned)
  <2>1. m_ProducerOwned \in Seq(Blocks) /\ i \in 1 .. Len(m_ProducerOwned)
    BY DEF WriterTypes
  <2>2. m_ProducerOwned # <<>>
    BY <2>1
  <2>3. f \in Seq(Blocks) /\ x \in Blocks /\ Append(f, x) = m_ProducerOwned /\ Empty(f)
    BY <2>1, <2>2, ListsFront DEF DataIsOnTheWay
  <2> HIDE DEF f, x
  <2>4. /\ Len(Append(f, x)) = Len(f) + 1 /\ Len(f) \in Nat
        /\ \A k \in 1 .. Len(f) : Append(f, x)[k] = f[k]
    BY <2>3, AppendProperties
  <2>5. i \notin 1 .. Len(f)
    BY <1>4, <2>3, <2>4 DEF Empty
  <2> QED BY <2>1, <2>3, <2>4, <2>5
<1>5. ASSUME NEW block \in ToSet(m_ConsumerOwned \o m_PendingForConsumer \o pending)
      PROVE  block.data # <<>>
  <2> DEFINE s == m_ConsumerOwned \o m_PendingForConsumer  t == s \o pending
  <2>1. s \in Seq(Blocks) /\ Full(s)
    BY ListsConcat DEF WriterTypes, DataIsOnTheWay
  <2> HIDE DEF s
  <2>2. t \in Seq(Blocks) /\ Full(t)
    BY <2>1, ListsConcat DEF WriterTypes, DataIsOnTheWay
  <2>3. block \in ToSet(t)
    BY DEF s
  <2> HIDE DEF t
  <2>4. PICK i \in 1 .. Len(t) : block = t[i]
    BY <2>2, <2>3 DEF ToSet
  <2> QED BY <2>2, <2>4 DEF Full
<1>6. ASSUME ~lost
      PROVE  file \o DataOf(OnTheWay \o m_ProducerOwned) \o left = [i \in 1 .. submitted |-> i]
  BY <1>6, BytesAreInOrder DEF WriterTypes, Bytes
<1> QED BY <1>2, <1>3, <1>4, <1>5, <1>6 DEF BlocksKept

\* However the two threads interleave, no block is lost or in two lists, none that
\* the thread takes is empty, and while nothing failed the file, the blocks on their
\* way in the order of the lists and the rest of the write are the bytes submitted.
THEOREM BlocksStay == WriterSpec => []BlocksKept
BY Invariance, BlocksAreKept, PTL

-----------------------------------------------------------------------------
(* The writer is a sink.                                                   *)

LEMMA FirstBytesAreBytes == ASSUME NEW n \in Nat PROVE Sink!FirstBytes(n) = Bytes(0, n)
BY DEF Sink!FirstBytes, Bytes

\* Without a thread, and after the last poll of a flush, nothing is on the way.
LEMMA AllIsInTheFile ==
    WriterInv /\ ~lost /\ (~m_Thread \/ producerPC \in {"fflush", "kill", "join", "deleted"})
      => file = Sink!FirstBytes(submitted)
<1> SUFFICES ASSUME WriterInv, ~lost,
                    ~m_Thread \/ producerPC \in {"fflush", "kill", "join", "deleted"}
             PROVE  file = Sink!FirstBytes(submitted)
  OBVIOUS
<1> USE DEF WriterInv
<1>1. PICK o, a, b, c, d, e \in Nat : Stretches(o, a, b, c, d, e)
  BY DEF InOrder
<1>2. /\ m_ConsumerOwned = <<>> /\ m_PendingForConsumer = <<>> /\ pending = <<>> /\ left = <<>>
      /\ work = NoBlock
  BY DEF ThreadModes, DataIsOnTheWay, AllAreBack
<1>3. m_ProducerOwned # <<>> => Last(m_ProducerOwned).data = <<>>
  BY NoList, EmptyFront DEF ThreadModes, AllAreBack, WriterTypes
<1>4. o = a
  BY <1>1, <1>2, NoBlockHasNoData, NoBytes DEF Stretches
<1>5. a = b /\ b = c /\ c = d
  BY <1>1, <1>2, ChainEmpty, NoList DEF Stretches
<1>6. d = e
  BY <1>1, <1>3, NoBytes DEF Stretches
<1>7. e = submitted /\ submitted \in Nat
  BY <1>1, <1>2, NoBytes DEF Stretches, WriterTypes
<1> QED BY <1>1, <1>4, <1>5, <1>6, <1>7, FirstBytesAreBytes DEF Stretches

LEMMA FileIsFirstBytes ==
    WriterInv /\ ~lost => Len(file) \in Nat /\ Len(file) <= submitted
                           /\ file = Sink!FirstBytes(Len(file))
BY BytesAreInOrder, FirstBytesAreBytes DEF WriterInv, WriterTypes

LEMMA InitImplements == WriterInit => Sink!Init
BY DEF WriterInit, Sink!Init

LEMMA WriteImplements ==
    ASSUME WriterInv, WriterInv', NEW length \in Lengths,
           WriteUnthreaded(length) \/ WriteIntoBlock(length) \/ BeginWrite(length)
    PROVE  Sink!Next
<1>1. submitted \in Nat /\ length \in Nat \ {0} /\ lost' \in BOOLEAN
  BY Sizes DEF WriterInv, WriterTypes
<1>2. submitted' = submitted + length /\ submitted' > submitted /\ producerPC = "idle"
  BY <1>1 DEF WriteUnthreaded, WriteIntoBlock, BeginWrite, Submit, Idle
<1>3. CASE WriteUnthreaded(length)
  <2>1. /\ ~m_Thread /\ ~m_Thread' /\ producerPC' # "deleted"
        /\ UNCHANGED confirmed
    BY <1>3 DEF WriteUnthreaded, flagVars, Return, BeginDelete, Fwrite
  <2>2. ~lost
    BY <1>2, <2>1 DEF WriterInv, ErrorsAreKnown
  <2>3. file = Sink!FirstBytes(submitted)
    BY <2>1, <2>2, AllIsInTheFile
  <2>4. CASE lost'
    BY <1>1, <1>2, <2>1, <2>4 DEF Sink!Next, Sink!Lose
  <2>5. CASE ~lost'
    <3>1. (WriterInv /\ ~lost /\ (~m_Thread \/ producerPC \in {"fflush", "kill", "join", "deleted"})
            => file = Sink!FirstBytes(submitted))'
      BY AllIsInTheFile, PTL
    <3>2. file' = Sink!FirstBytes(submitted')
      BY <2>1, <2>5, <3>1 DEF Sink!FirstBytes
    <3>3. lost' = lost
      BY <1>1, <2>2, <2>5 DEF WriterInv, WriterTypes
    <3> QED BY <1>2, <2>1, <2>2, <2>3, <3>2, <3>3 DEF Sink!Next, Sink!AcceptAndStore
  <2> QED BY <2>4, <2>5
<1>4. CASE WriteIntoBlock(length) \/ BeginWrite(length)
  <2>1. UNCHANGED <<file, confirmed, lost>> /\ producerPC' # "deleted"
    BY <1>2, <1>4 DEF WriteIntoBlock, BeginWrite, diskVars, callVars
  <2> QED BY <1>2, <2>1 DEF Sink!Next, Sink!Accept
<1> QED BY <1>3, <1>4

LEMMA FlushImplements ==
    ASSUME WriterInv, FlushFile
    PROVE  Sink!Next \/ UNCHANGED Sink!vars
<1>1. /\ producerPC = "fflush" /\ producerPC' # "deleted" /\ UNCHANGED <<file, lost, submitted>>
      /\ m_Error' = m_Error \/ m_Error' = FileIOFailed
      /\ confirmed' = IF call = "Flush" /\ m_Error' = Succeeded THEN submitted ELSE confirmed
  BY DEF FlushFile, Return, BeginDelete
<1>2. CASE call = "Flush" /\ m_Error' = Succeeded
  <2>1. m_Error = Succeeded
    BY <1>1, <1>2 DEF Succeeded, FileIOFailed
  <2>2. ~lost
    <3>1. error = Succeeded
      BY <1>1, <2>1 DEF WriterInv, AllAreBack, ErrorsAreKnown
    <3> QED BY <1>1, <2>1, <3>1 DEF WriterInv, WriterTypes, ErrorsAreKnown
  <2>3. file = Sink!FirstBytes(submitted)
    BY <1>1, <2>2, AllIsInTheFile
  <2> QED BY <1>1, <1>2, <2>2, <2>3 DEF Sink!Next, Sink!Confirm
<1>3. CASE ~(call = "Flush" /\ m_Error' = Succeeded)
  BY <1>1, <1>3 DEF Sink!vars
<1> QED BY <1>2, <1>3

LEMMA ThreadWriteImplements ==
    ASSUME WriterInv, WriterInv', ThreadWrite
    PROVE  Sink!Next
<1>1. /\ consumerPC = "write" /\ UNCHANGED <<producerPC, submitted, confirmed>>
      /\ producerPC # "deleted" /\ work \in Blocks /\ work.data # <<>> /\ file \in Seq(Nat)
      /\ submitted \in Nat
  BY DEF WriterInv, WriterTypes, ThreadModes, DataIsOnTheWay, ThreadWrite, callVars, countVars
<1>2. PICK result \in Results : Fwrite(work.data, result)
  BY DEF ThreadWrite
<1>3. CASE lost'
  BY <1>1, <1>3 DEF Sink!Next, Sink!Lose
<1>4. CASE ~lost'
  <2>1. ~lost /\ lost' = lost /\ file' = file \o work.data
    BY <1>2, <1>4 DEF Fwrite
  <2>2. (WriterInv /\ ~lost => Len(file) \in Nat /\ Len(file) <= submitted
                               /\ file = Sink!FirstBytes(Len(file)))'
    BY FileIsFirstBytes, PTL
  <2>3. PICK n \in Nat : n = Len(file')
    BY <1>4, <2>2
  <2>4. n <= submitted /\ file' = Sink!FirstBytes(n)
    BY <1>1, <1>4, <2>2, <2>3 DEF Sink!FirstBytes
  <2>5. Len(file) \in Nat /\ Len(file) < n
    BY <1>1, EmptySeq, ConcatProperties, <2>1, <2>3 DEF Blocks
  <2>6. n \in Len(file) + 1 .. submitted
    BY <1>1, <2>4, <2>5
  <2> QED BY <1>1, <2>1, <2>4, <2>6 DEF Sink!Next, Sink!Store
<1> QED BY <1>3, <1>4

LEMMA JoinImplements ==
    ASSUME WriterInv, JoinThread
    PROVE  Sink!Next
BY AllIsInTheFile DEF JoinThread, diskVars, countVars, Sink!Next, Sink!Close

LEMMA StepImplements ==
    WriterInv /\ WriterInv' /\ [WriterNext]_writerVars => [Sink!Next]_(Sink!vars)
<1> SUFFICES ASSUME WriterInv, WriterInv', [WriterNext]_writerVars
             PROVE  Sink!Next \/ UNCHANGED Sink!vars
  OBVIOUS
<1>1. ASSUME NEW length \in Lengths,
             WriteUnthreaded(length) \/ WriteIntoBlock(length) \/ BeginWrite(length)
      PROVE  Sink!Next
  BY <1>1, WriteImplements
<1>2. CASE FlushFile
  BY <1>2, FlushImplements
<1>3. CASE ThreadWrite
  BY <1>3, ThreadWriteImplements
<1>4. CASE JoinThread
  BY <1>4, JoinImplements
<1>5. CASE BeginFlush \/ Delete \/ FillBlock \/ ExchangeBlocks \/ FlushBlock \/ FlushPoll
           \/ FlushNoThread \/ KillThread
  <2>1. UNCHANGED <<file, lost, submitted, confirmed>>
    BY <1>5 DEF BeginFlush, Delete, FillBlock, ExchangeBlocks, FlushBlock, FlushPoll, FlushNoThread,
                KillThread, diskVars, countVars
  <2>2. producerPC # "deleted" /\ producerPC' # "deleted"
    BY <1>5 DEF BeginFlush, Delete, FillBlock, ExchangeBlocks, FlushBlock, FlushPoll, FlushNoThread,
                KillThread, Idle, Return, BeginDelete, callVars
  <2> QED BY <2>1, <2>2 DEF Sink!vars
<1>6. CASE ThreadContinues \/ ThreadEnds \/ ThreadExchange
  <2>1. UNCHANGED <<file, lost, submitted, confirmed, producerPC>>
    BY <1>6 DEF ThreadContinues, ThreadEnds, ThreadExchange, diskVars, countVars, callVars
  <2> QED BY <2>1 DEF Sink!vars
<1>7. CASE UNCHANGED writerVars
  BY <1>7 DEF writerVars, diskVars, countVars, callVars, Sink!vars
<1> QED BY <1>1, <1>2, <1>3, <1>4, <1>5, <1>6, <1>7 DEF WriterNext, ProducerStep, ConsumerStep

\* The lists and the thread are invisible: bytes reach the file in their order, a
\* flush that succeeds has them all there, a writer that was deleted too, and after
\* a write that failed no flush succeeds any more.
THEOREM ImplementsSink == WriterSpec => SinkSpec
<1>1. WriterInv /\ WriterInv' /\ [WriterNext]_writerVars => [Sink!Next]_(Sink!vars)
  BY StepImplements
<1> QED BY <1>1, Invariance, InitImplements, PTL DEF WriterSpec, SinkSpec, Sink!Spec

-----------------------------------------------------------------------------
(* RDCFile.                                                                *)

SectionNames == Names \cup {FrameCapture}

Cells == [kind : {"binary", "text", "rest"}, name : SectionNames, write : {0}, n : Nat]
         \cup [kind : {"file", "junk", "data"}, name : {NoSection}, write : Nat, n : Nat]

Locations == {loc \in [headerOffset : Nat, dataOffset : Nat, diskLength : Nat] :
                 loc.headerOffset <= loc.dataOffset}

EndOf(loc) == loc.dataOffset + loc.diskLength

\* A section of this name is in the file, where the location says.
Section(cells, loc, name) ==
    /\ EndOf(loc) <= Len(cells) /\ loc.headerOffset < loc.dataOffset
    /\ cells[loc.headerOffset + 1].kind \in {"binary", "text"}
    /\ cells[loc.headerOffset + 1].name = name
    /\ cells[loc.headerOffset + 1].n = loc.diskLength
    /\ loc.dataOffset = loc.headerOffset + SizeOf(cells[loc.headerOffset + 1].kind, name)

\* It has this data.
DataAt(cells, offset, length, write) ==
    \A n \in 1 .. length : cells[offset + n] = Cell("data", NoSection, write, n)

\* Where the i-th section starts, or the sections end.
StartOf(locs, i, end) == IF i <= Len(locs) THEN locs[i].headerOffset ELSE end

\* The sections follow one another from behind the file header up to "end".
Layout(cells, secs, locs, end) ==
    /\ secs \in Seq(SectionNames) /\ locs \in Seq(Locations) /\ Len(secs) = Len(locs)
    /\ end \in 1 .. Len(cells) /\ StartOf(locs, 1, end) = 1
    /\ \A i \in 1 .. Len(locs) :
         EndOf(locs[i]) = StartOf(locs, i + 1, end) /\ Section(cells, locs[i], secs[i])

\* They are those written, each once, with the frame capture first.
Recorded(cells, secs, locs, writes) ==
    /\ \A i, j \in 1 .. Len(secs) : secs[i] = secs[j] => i = j
    /\ DOMAIN writes = {secs[i] : i \in 1 .. Len(secs)}
    /\ \A i \in 1 .. Len(secs) :
         /\ locs[i].diskLength = writes[secs[i]].length
         /\ DataAt(cells, locs[i].dataOffset, locs[i].diskLength, writes[secs[i]].write)
    /\ Len(secs) > 0 => secs[1] = FrameCapture

Whole(cells, secs, locs, end, writes) ==
    Layout(cells, secs, locs, end) /\ Recorded(cells, secs, locs, writes)

-----------------------------------------------------------------------------
(* Cells.                                                                  *)

\* What the assumptions say of the sizes of headers.
LEMMA SizesAre ==
    /\ FrameCapture \notin Names /\ NoSection \notin SectionNames /\ TempPath \in Paths
    /\ \A name \in SectionNames :
         /\ HeaderSize[name] \in Nat \ {0} /\ TextHeaderSize \in Nat \ {0}
         /\ TextHeaderSize <= HeaderSize[name]
    /\ SectionLengths \subseteq Nat
BY NamesAssumption, HeaderSizesAssumption DEF SectionNames, FrameCapture, NoSection

LEMMA SizeOfHeaders ==
    ASSUME NEW name \in SectionNames, NEW kind \in {"binary", "text"}
    PROVE  /\ SizeOf(kind, name) \in Nat \ {0} /\ SizeOf(kind, name) <= HeaderSize[name]
           /\ SizeOf("binary", name) = HeaderSize[name]
BY SizesAre DEF SizeOf

LEMMA JunkIsCell == Junk \in Cells /\ FileHeader \in Cells
BY DEF Junk, FileHeader, Cell, Cells

\* A section header: its first cell has the name and the length.
LEMMA HeaderCells ==
    ASSUME NEW name \in SectionNames, NEW kind \in {"binary", "text"}, NEW length \in Nat
    PROVE  /\ Header(kind, name, length) \in Seq(Cells)
           /\ Len(Header(kind, name, length)) = SizeOf(kind, name)
           /\ Header(kind, name, length)[1] = Cell(kind, name, 0, length)
           /\ \A i \in 2 .. SizeOf(kind, name) :
                Header(kind, name, length)[i] = Cell("rest", name, 0, i)
BY SizeOfHeaders DEF Cell, Cells, Header

LEMMA DataCellsAre ==
    ASSUME NEW write \in Nat, NEW length \in Nat
    PROVE  /\ DataCells(write, length) \in Seq(Cells) /\ Len(DataCells(write, length)) = length
           /\ \A i \in 1 .. length :
                DataCells(write, length)[i] = Cell("data", NoSection, write, i)
BY DEF Cell, Cells, DataCells

\* Reading gives as many cells as were asked for, those of the file when it has them.
LEMMA ReadCells ==
    ASSUME NEW cells \in Seq(Cells), NEW offset \in Nat, NEW length \in Nat
    PROVE  /\ Read(cells, offset, length) \in Seq(Cells)
           /\ Len(Read(cells, offset, length)) = length
           /\ offset + length <= Len(cells) =>
                \A i \in 1 .. length : Read(cells, offset, length)[i] = cells[offset + i]
<1>1. CASE offset + length <= Len(cells)
  BY <1>1, SubSeqProperties DEF Read
<1>2. CASE ~(offset + length <= Len(cells))
  BY <1>2, JunkIsCell DEF Read
<1> QED BY <1>1, <1>2

\* Writing from an offset on changes the cells written and no other.
LEMMA OverwriteCells ==
    ASSUME NEW cells \in Seq(Cells), NEW offset \in Nat, NEW new \in Seq(Cells)
    PROVE  /\ Overwrite(cells, offset, new) \in Seq(Cells)
           /\ Len(Overwrite(cells, offset, new))
                = IF Len(cells) > offset + Len(new) THEN Len(cells) ELSE offset + Len(new)
           /\ \A x \in 1 .. Len(new) : Overwrite(cells, offset, new)[offset + x] = new[x]
           /\ \A x \in 1 .. Len(cells) :
                x <= offset \/ x > offset + Len(new) => Overwrite(cells, offset, new)[x] = cells[x]
<1> DEFINE n == IF Len(cells) > offset + Len(new) THEN Len(cells) ELSE offset + Len(new)
           at(i) == IF i \in offset + 1 .. offset + Len(new) THEN new[i - offset]
                    ELSE IF i <= Len(cells) THEN cells[i] ELSE Junk
<1>1. n \in Nat /\ Len(new) \in Nat /\ Len(cells) \in Nat
  OBVIOUS
<1>2. \A i \in 1 .. n : at(i) \in Cells
  BY JunkIsCell
<1>3. Overwrite(cells, offset, new) = [i \in 1 .. n |-> at(i)]
  BY DEF Overwrite
<1>4. [i \in 1 .. n |-> at(i)] \in Seq(Cells) /\ Len([i \in 1 .. n |-> at(i)]) = n
  BY <1>1, <1>2
<1>5. \A x \in 1 .. n : [i \in 1 .. n |-> at(i)][x] = at(x)
  OBVIOUS
<1> QED BY <1>1, <1>3, <1>4, <1>5

\* ftruncateat keeps what is in front of the length.
LEMMA TruncatedCells ==
    ASSUME NEW cells \in Seq(Cells), NEW length \in Nat
    PROVE  /\ TruncateAt(cells, length) \in Seq(Cells) /\ Len(TruncateAt(cells, length)) = length
           /\ \A x \in 1 .. length : x <= Len(cells) => TruncateAt(cells, length)[x] = cells[x]
BY JunkIsCell DEF TruncateAt

LEMMA WritesWithout ==
    ASSUME NEW writes, NEW name
    PROVE  /\ DOMAIN Without(writes, name) = DOMAIN writes \ {name}
           /\ \A n \in DOMAIN writes : n # name => Without(writes, name)[n] = writes[n]
BY DEF Without, Restrict

-----------------------------------------------------------------------------
(* Sections that follow one another.                                       *)

\* Any set of natural numbers that is not empty has a least one.
LEMMA LocationsAre ==
    ASSUME NEW loc \in Locations
    PROVE  /\ loc.headerOffset \in Nat /\ loc.dataOffset \in Nat /\ loc.diskLength \in Nat
           /\ EndOf(loc) \in Nat /\ loc.headerOffset <= loc.dataOffset /\ loc.dataOffset <= EndOf(loc)
           /\ loc = [headerOffset |-> loc.headerOffset, dataOffset |-> loc.dataOffset,
                     diskLength |-> loc.diskLength]
BY DEF Locations, EndOf

\* A section starts behind the end of every one before it.
LEMMA NextSections ==
    ASSUME NEW cells, NEW secs, NEW locs, NEW end, Layout(cells, secs, locs, end),
           NEW i \in 1 .. Len(locs), NEW k \in i + 1 .. Len(locs) + 1
    PROVE  EndOf(locs[i]) <= StartOf(locs, k, end)
<1> DEFINE T == {n \in i + 1 .. Len(locs) + 1 : ~(EndOf(locs[i]) <= StartOf(locs, n, end))}
<1>1. locs \in Seq(Locations) /\ Len(locs) \in Nat
  BY DEF Layout
<1>2. ASSUME NEW j \in 1 .. Len(locs)
      PROVE  /\ EndOf(locs[j]) \in Nat /\ locs[j].headerOffset \in Nat
             /\ locs[j].headerOffset <= EndOf(locs[j])
             /\ EndOf(locs[j]) = StartOf(locs, j + 1, end)
  <2>1. locs[j] \in Locations
    BY <1>1
  <2>2. EndOf(locs[j]) = StartOf(locs, j + 1, end)
    BY DEF Layout
  <2>3. EndOf(locs[j]) \in Nat /\ locs[j].headerOffset \in Nat /\ locs[j].dataOffset \in Nat
        /\ locs[j].headerOffset <= locs[j].dataOffset /\ locs[j].dataOffset <= EndOf(locs[j])
    BY <2>1, LocationsAre
  <2> QED BY <2>2, <2>3
<1>3. CASE T # {}
  <2>1. T \in SUBSET Nat
    BY <1>1
  <2>2. PICK n \in T : \A m \in T : n <= m
    BY <1>3, <2>1, LeastNatural
  <2>3. n \in i + 1 .. Len(locs) + 1 /\ ~(EndOf(locs[i]) <= StartOf(locs, n, end))
    OBVIOUS
  <2>4. EndOf(locs[i]) <= StartOf(locs, i + 1, end)
    BY <1>2
  <2>5. n # i + 1
    BY <2>3, <2>4
  <2>6. n - 1 \in i + 1 .. Len(locs) /\ ~(n <= n - 1) /\ n - 1 + 1 = n
    BY <1>1, <2>3, <2>5
  <2>7. EndOf(locs[i]) <= StartOf(locs, n - 1, end)
    BY <2>2, <2>6
  <2>8. StartOf(locs, n - 1, end) = locs[n - 1].headerOffset
    BY <2>6 DEF StartOf
  <2>9. /\ EndOf(locs[n - 1]) = StartOf(locs, n, end) /\ EndOf(locs[n - 1]) \in Nat
        /\ locs[n - 1].headerOffset \in Nat /\ locs[n - 1].headerOffset <= EndOf(locs[n - 1])
    BY <1>1, <2>6, <1>2
  <2>10. EndOf(locs[i]) \in Nat
    BY <1>2
  <2> QED BY <2>3, <2>7, <2>8, <2>9, <2>10
<1> QED BY <1>3

\* Every section is inside of the file and starts behind the file header.
LEMMA SectionsInside ==
    ASSUME NEW cells, NEW secs, NEW locs, NEW end, Layout(cells, secs, locs, end),
           Len(cells) \in Nat
    PROVE  /\ \A k \in 1 .. Len(locs) + 1 :
                StartOf(locs, k, end) \in 1 .. end
           /\ \A i \in 1 .. Len(locs) :
                /\ locs[i] \in Locations /\ secs[i] \in SectionNames
                /\ locs[i].headerOffset \in 1 .. end /\ locs[i].dataOffset \in 1 .. end
                /\ locs[i].diskLength \in Nat /\ EndOf(locs[i]) \in 1 .. end
                /\ locs[i].headerOffset < locs[i].dataOffset /\ locs[i].dataOffset <= EndOf(locs[i])
           /\ \A i \in 1 .. Len(locs) : \A j \in i + 1 .. Len(locs) :
                EndOf(locs[i]) <= locs[j].headerOffset
<1>1. /\ locs \in Seq(Locations) /\ Len(locs) \in Nat /\ end \in Nat /\ end >= 1
      /\ secs \in Seq(SectionNames) /\ Len(secs) = Len(locs)
  BY DEF Layout
<1>2. ASSUME NEW j \in 1 .. Len(locs)
      PROVE  /\ locs[j] \in Locations /\ secs[j] \in SectionNames
             /\ EndOf(locs[j]) \in Nat /\ locs[j].headerOffset \in Nat /\ locs[j].diskLength \in Nat
             /\ locs[j].dataOffset \in Nat
             /\ locs[j].headerOffset < locs[j].dataOffset /\ locs[j].dataOffset <= EndOf(locs[j])
             /\ EndOf(locs[j]) <= end
  <2>1. locs[j] \in Locations /\ secs[j] \in SectionNames
    BY <1>1
  <2>2. locs[j].headerOffset < locs[j].dataOffset
    BY DEF Layout, Section
  <2>3. j \in 1 .. Len(locs) /\ Len(locs) + 1 \in j + 1 .. Len(locs) + 1
    BY <1>1
  <2>4. EndOf(locs[j]) <= StartOf(locs, Len(locs) + 1, end)
    BY <2>3, NextSections
  <2>5. StartOf(locs, Len(locs) + 1, end) = end
    BY <1>1 DEF StartOf
  <2> QED BY <2>1, <2>2, <2>4, <2>5, LocationsAre
<1>3. StartOf(locs, 1, end) = 1
  BY DEF Layout
<1>4. ASSUME NEW k \in 1 .. Len(locs) + 1 PROVE StartOf(locs, k, end) \in 1 .. end
  <2>1. CASE k = 1
    BY <1>1, <1>3, <2>1
  <2>2. CASE k # 1
    <3>1. k - 1 \in 1 .. Len(locs) /\ 1 \in 1 .. Len(locs) /\ k \in 2 .. Len(locs) + 1 /\ 1 + 1 = 2
      BY <1>1, <2>2
    <3>2. EndOf(locs[1]) <= StartOf(locs, k, end)
      BY <3>1, NextSections
    <3>3. locs[1].headerOffset = 1
      BY <1>3, <3>1 DEF StartOf
    <3>4. StartOf(locs, k, end) = EndOf(locs[k - 1])
      BY <1>1, <3>1 DEF Layout
    <3>5. EndOf(locs[1]) \in Nat /\ EndOf(locs[1]) >= 1
      BY <1>2, <3>1, <3>3
    <3>6. EndOf(locs[k - 1]) \in Nat /\ EndOf(locs[k - 1]) <= end
      BY <1>2, <3>1
    <3> QED BY <1>1, <3>2, <3>4, <3>5, <3>6
  <2> QED BY <2>1, <2>2
<1>5. ASSUME NEW i \in 1 .. Len(locs), NEW j \in i + 1 .. Len(locs)
      PROVE  EndOf(locs[i]) <= locs[j].headerOffset
  BY <1>1, NextSections DEF StartOf
<1>6. ASSUME NEW i \in 1 .. Len(locs)
      PROVE  /\ locs[i].headerOffset \in 1 .. end /\ locs[i].dataOffset \in 1 .. end
             /\ EndOf(locs[i]) \in 1 .. end
  BY <1>1, <1>4, <1>2 DEF StartOf
<1> QED BY <1>2, <1>4, <1>5, <1>6

\* Sections stay where nothing before their end is written.
LEMMA SamePrefix ==
    ASSUME NEW cells \in Seq(Cells), NEW secs, NEW locs, NEW end, NEW writes,
           Whole(cells, secs, locs, end, writes), NEW new \in Seq(Cells),
           end <= Len(new), \A x \in 1 .. end : new[x] = cells[x]
    PROVE  Whole(new, secs, locs, end, writes)
<1>1. Layout(cells, secs, locs, end) /\ Recorded(cells, secs, locs, writes)
  BY DEF Whole
<1>2. /\ locs \in Seq(Locations) /\ Len(locs) \in Nat /\ end \in Nat /\ end >= 1
      /\ secs \in Seq(SectionNames) /\ Len(secs) = Len(locs) /\ Len(new) \in Nat
  BY <1>1 DEF Layout
<1>3. ASSUME NEW i \in 1 .. Len(locs)
      PROVE  /\ Section(new, locs[i], secs[i])
             /\ \A n \in 1 .. locs[i].diskLength :
                  new[locs[i].dataOffset + n] = cells[locs[i].dataOffset + n]
  <2>1. /\ locs[i].headerOffset \in 1 .. end /\ locs[i].dataOffset \in 1 .. end
        /\ locs[i].diskLength \in Nat /\ EndOf(locs[i]) \in 1 .. end
        /\ locs[i].headerOffset < locs[i].dataOffset /\ locs[i].dataOffset <= EndOf(locs[i])
    BY <1>1, SectionsInside
  <2>2. locs[i].headerOffset + 1 \in 1 .. end
    BY <1>2, <2>1
  <2>3. new[locs[i].headerOffset + 1] = cells[locs[i].headerOffset + 1]
    BY <2>2
  <2>4. Section(cells, locs[i], secs[i])
    BY <1>1 DEF Layout
  <2>5. Section(new, locs[i], secs[i])
    BY <1>2, <2>1, <2>3, <2>4 DEF Section
  <2>6. ASSUME NEW n \in 1 .. locs[i].diskLength
        PROVE  new[locs[i].dataOffset + n] = cells[locs[i].dataOffset + n]
    <3>1. locs[i].dataOffset + n \in 1 .. end
      BY <1>2, <2>1 DEF EndOf
    <3> QED BY <3>1
  <2> QED BY <2>5, <2>6
<1>4. Layout(new, secs, locs, end)
  BY <1>2, <1>1, <1>3 DEF Layout
<1>5. Recorded(new, secs, locs, writes)
  BY <1>1, <1>2, <1>3 DEF Recorded, DataAt
<1> QED BY <1>4, <1>5 DEF Whole

\* One more section behind them.
LEMMA SectionAppended ==
    ASSUME NEW cells \in Seq(Cells), NEW secs, NEW locs, NEW end, NEW writes,
           Whole(cells, secs, locs, end, writes),
           NEW name \in SectionNames, name \notin DOMAIN writes, secs = <<>> => name = FrameCapture,
           NEW loc \in Locations, loc.headerOffset = end, Section(cells, loc, name),
           NEW write, DataAt(cells, loc.dataOffset, loc.diskLength, write)
    PROVE  Whole(cells, Append(secs, name), Append(locs, loc), EndOf(loc),
                 With(writes, name, write, loc.diskLength))
<1> DEFINE S == Append(secs, name)  L == Append(locs, loc)
           W == With(writes, name, write, loc.diskLength)
<1>1. Layout(cells, secs, locs, end) /\ Recorded(cells, secs, locs, writes)
  BY DEF Whole
<1>2. /\ locs \in Seq(Locations) /\ Len(locs) \in Nat /\ end \in 1 .. Len(cells) /\ Len(cells) \in Nat
      /\ secs \in Seq(SectionNames) /\ Len(secs) = Len(locs)
  BY <1>1 DEF Layout
<1>3. /\ S \in Seq(SectionNames) /\ Len(S) = Len(secs) + 1 /\ S[Len(secs) + 1] = name
      /\ \A i \in 1 .. Len(secs) : S[i] = secs[i]
  BY <1>2, AppendProperties
<1>4. /\ L \in Seq(Locations) /\ Len(L) = Len(locs) + 1 /\ L[Len(locs) + 1] = loc
      /\ \A i \in 1 .. Len(locs) : L[i] = locs[i]
  BY <1>2, AppendProperties
<1>5. /\ DOMAIN W = DOMAIN writes \cup {name}
      /\ W[name] = [write |-> write, length |-> loc.diskLength]
      /\ \A n \in DOMAIN writes : n # name => W[n] = writes[n]
  BY DEF With
<1>6. EndOf(loc) \in 1 .. Len(cells)
  BY <1>2, LocationsAre DEF Section
<1> HIDE DEF S, L, W
<1>7. Layout(cells, S, L, EndOf(loc))
  <2>1. StartOf(L, 1, EndOf(loc)) = 1
    BY <1>1, <1>2, <1>4 DEF Layout, StartOf
  <2>2. ASSUME NEW i \in 1 .. Len(L)
        PROVE  EndOf(L[i]) = StartOf(L, i + 1, EndOf(loc)) /\ Section(cells, L[i], S[i])
    <3>1. CASE i = Len(locs) + 1
      BY <1>2, <1>3, <1>4, <3>1 DEF StartOf
    <3>2. CASE i # Len(locs) + 1
      BY <1>2, <1>4, <3>2, <1>1, <1>3 DEF Layout, StartOf
    <3> QED BY <3>1, <3>2
  <2> QED BY <1>2, <1>3, <1>4, <1>6, <2>1, <2>2 DEF Layout
<1>8. Recorded(cells, S, L, W)
  <2>1. ASSUME NEW i \in 1 .. Len(S), NEW j \in 1 .. Len(S), S[i] = S[j] PROVE i = j
    BY <1>1, <1>2, <1>3, <2>1 DEF Recorded
  <2>2. DOMAIN W = {S[i] : i \in 1 .. Len(S)}
    <3>1. DOMAIN writes = {secs[i] : i \in 1 .. Len(secs)}
      BY <1>1 DEF Recorded
    <3>2. \A n \in DOMAIN W : \E i \in 1 .. Len(S) : S[i] = n
      BY <1>2, <1>3, <1>5, <3>1
    <3>3. \A i \in 1 .. Len(S) : S[i] \in DOMAIN W
      BY <1>2, <1>3, <1>5, <3>1
    <3> QED BY <3>2, <3>3
  <2>3. ASSUME NEW i \in 1 .. Len(S)
        PROVE  /\ L[i].diskLength = W[S[i]].length
               /\ DataAt(cells, L[i].dataOffset, L[i].diskLength, W[S[i]].write)
    <3>1. CASE i = Len(secs) + 1
      BY <1>2, <1>3, <1>4, <1>5, <3>1
    <3>2. CASE i # Len(secs) + 1
      <4>1. i \in 1 .. Len(secs)
        BY <1>2, <1>3, <3>2
      <4>2. S[i] = secs[i] /\ L[i] = locs[i] /\ secs[i] \in DOMAIN writes
        BY <1>1, <1>2, <1>3, <1>4, <4>1 DEF Recorded
      <4>3. W[S[i]] = writes[secs[i]]
        BY <1>5, <4>2
      <4> QED BY <1>1, <4>1, <4>2, <4>3 DEF Recorded
    <3> QED BY <3>1, <3>2
  <2>4. S[1] = FrameCapture
    <3>1. CASE secs = <<>>
      BY <1>2, <1>3, <3>1
    <3>2. CASE secs # <<>>
      BY <1>1, <1>2, <3>2, EmptySeq, <1>3 DEF Recorded
    <3> QED BY <3>1, <3>2
  <2> QED BY <2>1, <2>2, <2>3, <2>4 DEF Recorded
<1> QED BY <1>7, <1>8 DEF Whole, S, L, W

-----------------------------------------------------------------------------
(* A section is taken out, and those behind it move up.                    *)

\* What the first n of N steps make of the base.
StepByStep(f, S, base, N, step) ==
    f \in [0 .. N -> S] /\ f[0] = base /\ \A n \in 1 .. N : f[n] = step[n][f[n - 1]]

\* A function that is defined step by step exists, and each step holds of it.
LEMMA Recursion ==
    ASSUME NEW S, NEW base \in S, NEW N \in Nat, NEW step \in [1 .. N -> [S -> S]]
    PROVE  \E f : StepByStep(f, S, base, N, step)
<1> USE DEF StepByStep
<1> DEFINE defined(k) == \E f \in [0 .. k -> S] :
                            f[0] = base /\ \A n \in 1 .. k : f[n] = step[n][f[n - 1]]
           T == {k \in 0 .. N : ~defined(k)}
<1>1. CASE T = {}
  <2>1. N \in 0 .. N
    OBVIOUS
  <2>2. \A k \in 0 .. N : defined(k)
    BY <1>1
  <2> QED BY <2>1, <2>2
<1>2. CASE T # {}
  <2>1. T \in SUBSET Nat
    OBVIOUS
  <2>2. PICK k \in T : \A m \in T : k <= m
    BY <1>2, <2>1, LeastNatural
  <2>3. k \in 0 .. N /\ ~defined(k)
    OBVIOUS
  <2>4. CASE k = 0
    <3> DEFINE f == [n \in 0 .. 0 |-> base]
    <3>1. f \in [0 .. 0 -> S] /\ f[0] = base /\ 1 .. 0 = {}
      OBVIOUS
    <3>2. defined(0)
      BY <3>1
    <3> QED BY <2>3, <2>4, <3>2
  <2>5. CASE k # 0
    <3>1. k - 1 \in 0 .. N /\ ~(k <= k - 1) /\ k \in 1 .. N
      BY <2>3, <2>5
    <3>2. defined(k - 1)
      <4>1. k - 1 \notin T
        BY <2>2, <3>1
      <4> QED BY <3>1, <4>1
    <3>3. PICK f \in [0 .. k - 1 -> S] :
            f[0] = base /\ \A n \in 1 .. k - 1 : f[n] = step[n][f[n - 1]]
      BY <3>2
    <3> DEFINE g == [n \in 0 .. k |-> IF n = k THEN step[k][f[k - 1]] ELSE f[n]]
    <3>4. step[k][f[k - 1]] \in S
      BY <3>1
    <3>5. \A n \in 0 .. k : n # k => n \in 0 .. k - 1
      BY <3>1
    <3>6. g \in [0 .. k -> S]
      BY <3>4, <3>5
    <3>7. g[0] = base
      BY <3>1, <3>3
    <3>8. ASSUME NEW n \in 1 .. k PROVE g[n] = step[n][g[n - 1]]
      <4>1. n - 1 \in 0 .. k /\ n \in 0 .. k /\ n - 1 # k
        BY <3>1
      <4>2. g[n - 1] = f[n - 1]
        BY <4>1
      <4>3. CASE n = k
        BY <4>1, <4>2, <4>3
      <4>4. CASE n # k
        BY <3>1, <4>4, <3>3, <4>1, <4>2
      <4> QED BY <4>3, <4>4
    <3> HIDE DEF g
    <3>9. defined(k)
      BY <3>6, <3>7, <3>8
    <3> QED BY <2>3, <3>9
  <2> QED BY <2>4, <2>5
<1> QED BY <1>1, <1>2

\* RemoveAt drops one element and moves those behind it.
LEMMA RemoveAtAre ==
    ASSUME NEW S, NEW s \in Seq(S), NEW i \in 1 .. Len(s)
    PROVE  /\ RemoveAt(s, i) \in Seq(S) /\ Len(RemoveAt(s, i)) = Len(s) - 1
           /\ \A n \in 1 .. Len(s) - 1 : RemoveAt(s, i)[n] = IF n < i THEN s[n] ELSE s[n + 1]
<1> DEFINE a == SubSeq(s, 1, i - 1)  b == SubSeq(s, i + 1, Len(s))
<1>1. Len(s) \in Nat /\ \A n \in 1 .. Len(s) : s[n] \in S
  OBVIOUS
<1>2. a \in Seq(S) /\ Len(a) = i - 1 /\ \A n \in 1 .. i - 1 : a[n] = s[n]
  BY <1>1, SubSeqProperties
<1>3. b \in Seq(S) /\ Len(b) = Len(s) - i /\ \A n \in 1 .. Len(s) - i : b[n] = s[n + i]
  BY <1>1, SubSeqProperties
<1> HIDE DEF a, b
<1>4. /\ a \o b \in Seq(S) /\ Len(a \o b) = Len(a) + Len(b)
      /\ \A n \in 1 .. Len(a) + Len(b) : (a \o b)[n] = IF n <= Len(a) THEN a[n] ELSE b[n - Len(a)]
  BY <1>2, <1>3, ConcatProperties
<1>5. RemoveAt(s, i) = a \o b
  BY DEF RemoveAt, a, b
<1>6. ASSUME NEW n \in 1 .. Len(s) - 1
      PROVE  (a \o b)[n] = IF n < i THEN s[n] ELSE s[n + 1]
  <2>1. n \in 1 .. Len(a) + Len(b)
    BY <1>1, <1>2, <1>3
  <2>2. CASE n < i
    BY <1>1, <1>2, <1>4, <2>1, <2>2
  <2>3. CASE ~(n < i)
    BY <1>1, <1>2, <2>3, <1>3, <1>4, <2>1
  <2> QED BY <2>2, <2>3
<1> QED BY <1>1, <1>2, <1>3, <1>4, <1>5, <1>6

LEMMA SectionSizes ==
    ASSUME NEW loc \in Locations
    PROVE  SectionSize(loc) \in Nat /\ SectionSize(loc) = EndOf(loc) - loc.headerOffset
BY DEF SectionSize, EndOf, Locations

\* The offsets that MovedUp counts.
MovedTo(off, locations, index, start) ==
    /\ off \in [index .. Len(locations) -> Nat]
    /\ \A i \in index .. Len(locations) :
         off[i] = IF i = index THEN start ELSE off[i - 1] + SectionSize(locations[i - 1])

\* MovedUp places each section where the one before it ends.
LEMMA MovedUpIs ==
    ASSUME NEW locs \in Seq(Locations), NEW index \in Nat \ {0}, NEW start \in Nat,
           NEW off, MovedTo(off, locs, index, start)
    PROVE  MovedUp(locs, index, start) =
             [i \in DOMAIN locs |->
                IF i < index THEN locs[i]
                ELSE [headerOffset |-> off[i], diskLength |-> locs[i].diskLength,
                      dataOffset   |-> off[i] + locs[i].dataOffset - locs[i].headerOffset]]
<1> DEFINE eq(f) == f = [i \in index .. Len(locs) |->
                           IF i = index THEN start ELSE f[i - 1] + SectionSize(locs[i - 1])]
           offset == CHOOSE f : eq(f)
<1>1. eq(off)
  BY DEF MovedTo
<1>2. eq(offset)
  BY <1>1
<1>3. ASSUME NEW f, eq(f), NEW i \in index .. Len(locs) PROVE f[i] = off[i]
  <2> DEFINE T == {n \in index .. Len(locs) : f[n] # off[n]}
  <2>1. Len(locs) \in Nat /\ T \in SUBSET Nat
    OBVIOUS
  <2>2. CASE T # {}
    <3>1. PICK n \in T : \A k \in T : n <= k
      BY <2>1, <2>2, LeastNatural
    <3>2. n \in index .. Len(locs) /\ f[n] # off[n]
      OBVIOUS
    <3>3. f[n] = IF n = index THEN start ELSE f[n - 1] + SectionSize(locs[n - 1])
      BY <1>3, <3>2
    <3>4. off[n] = IF n = index THEN start ELSE off[n - 1] + SectionSize(locs[n - 1])
      BY <3>2 DEF MovedTo
    <3>5. n # index
      BY <3>2, <3>3, <3>4
    <3>6. n - 1 \in index .. Len(locs) /\ ~(n <= n - 1)
      BY <2>1, <3>2, <3>5
    <3>7. n - 1 \notin T
      BY <3>1, <3>6
    <3>8. f[n - 1] = off[n - 1]
      BY <3>6, <3>7
    <3> QED BY <3>2, <3>3, <3>4, <3>5, <3>8
  <2> QED BY <2>2
<1>4. \A i \in index .. Len(locs) : offset[i] = off[i]
  BY <1>2, <1>3
<1>5. MovedUp(locs, index, start) =
        [i \in DOMAIN locs |->
           IF i < index THEN locs[i]
           ELSE [headerOffset |-> offset[i], diskLength |-> locs[i].diskLength,
                 dataOffset   |-> offset[i] + locs[i].dataOffset - locs[i].headerOffset]]
  BY DEF MovedUp
<1> HIDE DEF offset
<1>6. \A i \in DOMAIN locs : ~(i < index) => i \in index .. Len(locs)
  OBVIOUS
<1> QED BY <1>4, <1>5, <1>6

\* Sections in front of the index stay where they are.
LEMMA MovedUpAre ==
    ASSUME NEW locs \in Seq(Locations), NEW index \in Nat \ {0}, NEW start \in Nat
    PROVE  /\ MovedUp(locs, index, start) \in Seq(Locations)
           /\ Len(MovedUp(locs, index, start)) = Len(locs)
           /\ \A i \in 1 .. Len(locs) :
                /\ i < index => MovedUp(locs, index, start)[i] = locs[i]
                /\ i = index => MovedUp(locs, index, start)[i].headerOffset = start
                /\ i >= index => MovedUp(locs, index, start)[i].headerOffset >= start
<1>1. Len(locs) \in Nat /\ \A i \in 1 .. Len(locs) : locs[i] \in Locations
  OBVIOUS
<1>2. \E off : MovedTo(off, locs, index, start) /\ \A i \in index .. Len(locs) : off[i] >= start
  <2>1. CASE index > Len(locs)
    <3> DEFINE off == [i \in index .. Len(locs) |-> 0]
    <3>1. index .. Len(locs) = {}
      BY <1>1, <2>1
    <3>2. MovedTo(off, locs, index, start) /\ \A i \in index .. Len(locs) : off[i] >= start
      BY <3>1 DEF MovedTo
    <3> QED BY <3>2
  <2>2. CASE index <= Len(locs)
    <3> DEFINE N == Len(locs) - index
               above == {n \in Nat : n >= start}
               step == [n \in 1 .. N |-> [o \in above |-> o + SectionSize(locs[index + n - 1])]]
    <3>1. N \in Nat /\ start \in above
      BY <1>1, <2>2
    <3>2. ASSUME NEW n \in 1 .. N, NEW o \in above
          PROVE  o + SectionSize(locs[index + n - 1]) \in above
      <4>1. index + n - 1 \in 1 .. Len(locs)
        BY <1>1, <2>2
      <4>2. SectionSize(locs[index + n - 1]) \in Nat
        BY <1>1, <4>1, SectionSizes
      <4> QED BY <4>2
    <3>3. step \in [1 .. N -> [above -> above]]
      BY <3>2
    <3> HIDE DEF above
    <3>4. PICK f : StepByStep(f, above, start, N, step)
      BY <3>1, <3>3, Recursion
    <3>41. /\ f \in [0 .. N -> above] /\ f[0] = start
           /\ \A n \in 1 .. N : f[n] = step[n][f[n - 1]]
      BY <3>4 DEF StepByStep
    <3>42. \A n \in 0 .. N : f[n] \in above
      BY <3>41
    <3> DEFINE off == [i \in index .. Len(locs) |-> f[i - index]]
    <3>5. ASSUME NEW i \in index .. Len(locs)
          PROVE  /\ off[i] \in above
                 /\ off[i] = IF i = index THEN start ELSE off[i - 1] + SectionSize(locs[i - 1])
      <4>1. i - index \in 0 .. N /\ off[i] = f[i - index]
        BY <1>1, <2>2
      <4>2. f[i - index] \in above
        BY <3>42, <4>1
      <4>3. CASE i = index
        BY <3>41, <4>1, <4>2, <4>3
      <4>4. CASE i # index
        <5>1. i - 1 \in index .. Len(locs) /\ i - index \in 1 .. N /\ i - index - 1 = i - 1 - index
              /\ index + (i - index) - 1 = i - 1
          BY <1>1, <2>2, <4>4
        <5>2. off[i - 1] = f[i - 1 - index] /\ f[i - 1 - index] \in above
          BY <5>1, <3>42
        <5>3. f[i - index] = step[i - index][f[i - index - 1]]
          BY <3>41, <5>1
        <5>4. step[i - index][f[i - index - 1]] = f[i - index - 1] + SectionSize(locs[i - 1])
          BY <5>1, <5>2
        <5> HIDE DEF off, step
        <5> QED BY <4>1, <4>2, <4>4, <5>1, <5>2, <5>3, <5>4
      <4> QED BY <4>3, <4>4
    <3>6. \A i \in index .. Len(locs) : off[i] \in Nat /\ off[i] >= start
      BY <3>5 DEF above
    <3>7. MovedTo(off, locs, index, start)
      BY <3>5, <3>6 DEF MovedTo
    <3> QED BY <3>6, <3>7
  <2> QED BY <1>1, <2>1, <2>2
<1>3. PICK off : MovedTo(off, locs, index, start) /\ \A i \in index .. Len(locs) : off[i] >= start
  BY <1>2
<1> DEFINE at(i) == IF i < index THEN locs[i]
                    ELSE [headerOffset |-> off[i], diskLength |-> locs[i].diskLength,
                          dataOffset   |-> off[i] + locs[i].dataOffset - locs[i].headerOffset]
<1>4. MovedUp(locs, index, start) = [i \in DOMAIN locs |-> at(i)]
  BY <1>3, MovedUpIs
<1>5. ASSUME NEW i \in 1 .. Len(locs)
      PROVE  /\ at(i) \in Locations /\ (i < index => at(i) = locs[i])
             /\ i = index => at(i).headerOffset = start
             /\ i >= index => at(i).headerOffset >= start
  <2>1. locs[i] \in Locations
    BY <1>1
  <2>2. CASE i < index
    BY <1>1, <2>1, <2>2
  <2>3. CASE ~(i < index)
    <3>1. i \in index .. Len(locs)
      BY <1>1, <2>3
    <3>2. off[i] \in Nat /\ off[i] >= start /\ (i = index => off[i] = start)
      BY <1>3, <3>1 DEF MovedTo
    <3>3. /\ locs[i].dataOffset \in Nat /\ locs[i].headerOffset \in Nat /\ locs[i].diskLength \in Nat
          /\ locs[i].headerOffset <= locs[i].dataOffset
      BY <2>1, LocationsAre
    <3>4. off[i] + locs[i].dataOffset - locs[i].headerOffset \in Nat
          /\ off[i] <= off[i] + locs[i].dataOffset - locs[i].headerOffset
      BY <3>2, <3>3
    <3> QED BY <2>3, <3>2, <3>3, <3>4 DEF Locations
  <2> QED BY <2>2, <2>3
<1> HIDE DEF at
<1>6. DOMAIN locs = 1 .. Len(locs)
  OBVIOUS
<1>7. /\ [i \in 1 .. Len(locs) |-> at(i)] \in Seq(Locations)
      /\ Len([i \in 1 .. Len(locs) |-> at(i)]) = Len(locs)
  BY <1>1, <1>5
<1>8. \A i \in 1 .. Len(locs) : MovedUp(locs, index, start)[i] = at(i)
  BY <1>4, <1>6
<1> QED BY <1>4, <1>5, <1>6, <1>7, <1>8

\* The cells of the first n of some sections.
UpTo(g, cells, locs) ==
    /\ DOMAIN g = 0 .. Len(locs) /\ g = [n \in 0 .. Len(locs) |-> g[n]]
    /\ \A n \in 0 .. Len(locs) :
         /\ g[n] \in Seq(Cells)
         /\ g[n] = IF n = 0 THEN <<>>
                   ELSE g[n - 1] \o Read(cells, locs[n].headerOffset, SectionSize(locs[n]))

\* CellsOf appends the sections in their order.
LEMMA CellsOfIs ==
    ASSUME NEW cells \in Seq(Cells), NEW locs \in Seq(Locations), NEW g, UpTo(g, cells, locs)
    PROVE  CellsOf(cells, locs) = g[Len(locs)]
<1> DEFINE eq(f) == f = [n \in 0 .. Len(locs) |->
                           IF n = 0 THEN <<>>
                           ELSE f[n - 1] \o Read(cells, locs[n].headerOffset, SectionSize(locs[n]))]
           upTo == CHOOSE f : eq(f)
<1>1. Len(locs) \in Nat
  OBVIOUS
<1>2. eq(g)
  BY DEF UpTo
<1>3. eq(upTo)
  BY <1>2
<1>4. ASSUME NEW f, eq(f) PROVE f[Len(locs)] = g[Len(locs)]
  <2> DEFINE T == {n \in 0 .. Len(locs) : f[n] # g[n]}
  <2>1. T \in SUBSET Nat
    OBVIOUS
  <2>2. CASE T # {}
    <3>1. PICK n \in T : \A k \in T : n <= k
      BY <2>1, <2>2, LeastNatural
    <3>2. n \in 0 .. Len(locs) /\ f[n] # g[n]
      OBVIOUS
    <3> DEFINE here == Read(cells, locs[n].headerOffset, SectionSize(locs[n]))
    <3>3. f[n] = IF n = 0 THEN <<>> ELSE f[n - 1] \o here
      BY <1>4, <3>2
    <3>4. g[n] = IF n = 0 THEN <<>> ELSE g[n - 1] \o here
      BY <3>2 DEF UpTo
    <3> HIDE DEF here
    <3>5. n # 0
      BY <3>2, <3>3, <3>4
    <3>6. n - 1 \in 0 .. Len(locs) /\ ~(n <= n - 1)
      BY <1>1, <3>2, <3>5
    <3>7. n - 1 \notin T
      BY <3>1, <3>6
    <3>8. f[n - 1] = g[n - 1]
      BY <3>6, <3>7
    <3> QED BY <3>2, <3>3, <3>4, <3>5, <3>8
  <2>3. CASE T = {}
    BY <1>1, <2>3
  <2> QED BY <2>2, <2>3
<1>5. upTo[Len(locs)] = g[Len(locs)]
  BY <1>3, <1>4
<1>6. CellsOf(cells, locs) = upTo[Len(locs)]
  BY DEF CellsOf
<1> QED BY <1>5, <1>6

LEMMA CellsOfAreCells ==
    ASSUME NEW cells \in Seq(Cells), NEW locs \in Seq(Locations)
    PROVE  CellsOf(cells, locs) \in Seq(Cells)
<1> DEFINE here(n) == Read(cells, locs[n].headerOffset, SectionSize(locs[n]))
           N == Len(locs)
           all == Seq(Cells)
           step == [n \in 1 .. N |-> [s \in all |-> s \o here(n)]]
<1>1. N \in Nat
  OBVIOUS
<1>2. ASSUME NEW n \in 1 .. N PROVE here(n) \in Seq(Cells)
  <2>1. locs[n] \in Locations
    OBVIOUS
  <2>2. locs[n].headerOffset \in Nat /\ SectionSize(locs[n]) \in Nat
    BY <2>1, LocationsAre, SectionSizes
  <2> QED BY <2>2, ReadCells
<1> HIDE DEF here
<1>3. ASSUME NEW n \in 1 .. N, NEW s \in all PROVE s \o here(n) \in all
  BY <1>2, ConcatProperties
<1>4. <<>> \in all
  BY EmptySeq
<1> HIDE DEF all
<1>5. step \in [1 .. N -> [all -> all]]
  BY <1>3
<1>6. PICK f : StepByStep(f, all, <<>>, N, step)
  BY <1>1, <1>4, <1>5, Recursion
<1>7. /\ f \in [0 .. N -> all] /\ f[0] = <<>>
      /\ \A n \in 1 .. N : f[n] = step[n][f[n - 1]]
  BY <1>6 DEF StepByStep
<1>8. \A n \in 0 .. N : f[n] \in all
  BY <1>7
<1>9. ASSUME NEW n \in 0 .. N
      PROVE  f[n] = IF n = 0 THEN <<>> ELSE f[n - 1] \o here(n)
  <2>1. CASE n = 0
    BY <1>7, <2>1
  <2>2. CASE n # 0
    <3>1. n \in 1 .. N /\ n - 1 \in 0 .. N
      BY <1>1, <2>2
    <3>2. f[n - 1] \in all
      BY <1>8, <3>1
    <3>3. step[n][f[n - 1]] = f[n - 1] \o here(n)
      BY <3>1, <3>2
    <3> HIDE DEF step
    <3> QED BY <1>7, <2>2, <3>1, <3>3
  <2> QED BY <2>1, <2>2
<1>10. UpTo(f, cells, locs)
  BY <1>7, <1>8, <1>9 DEF UpTo, all, here
<1>11. CellsOf(cells, locs) = f[N]
  BY <1>10, CellsOfIs
<1>12. N \in 0 .. N
  BY <1>1
<1> QED BY <1>8, <1>11, <1>12 DEF all

\* Sections that follow one another from one offset to another are all there is
\* between the two.
LEMMA CellsOfStretch ==
    ASSUME NEW cells \in Seq(Cells), NEW locs \in Seq(Locations),
           NEW start \in Nat, NEW end \in start .. Len(cells),
           StartOf(locs, 1, end) = start,
           \A i \in 1 .. Len(locs) :
             /\ EndOf(locs[i]) = StartOf(locs, i + 1, end)
             /\ locs[i].headerOffset >= start /\ EndOf(locs[i]) <= end
    PROVE  /\ CellsOf(cells, locs) = SubSeq(cells, start + 1, end)
           /\ CellsOf(cells, locs) \in Seq(Cells)
           /\ Len(CellsOf(cells, locs)) = end - start
           /\ \A x \in 1 .. end - start : CellsOf(cells, locs)[x] = cells[start + x]
<1> DEFINE stop(n) == IF n = 0 THEN start ELSE EndOf(locs[n])
           g == [n \in 0 .. Len(locs) |-> SubSeq(cells, start + 1, stop(n))]
<1>1. Len(locs) \in Nat /\ Len(cells) \in Nat /\ end \in Nat /\ start <= end /\ end <= Len(cells)
  OBVIOUS
<1>2. ASSUME NEW n \in 1 .. Len(locs)
      PROVE  /\ locs[n] \in Locations
             /\ locs[n].headerOffset \in Nat /\ EndOf(locs[n]) \in Nat
             /\ locs[n].headerOffset <= EndOf(locs[n])
             /\ SectionSize(locs[n]) = EndOf(locs[n]) - locs[n].headerOffset
             /\ start <= locs[n].headerOffset /\ EndOf(locs[n]) <= end
             /\ locs[n].headerOffset = stop(n - 1)
  <2>1. locs[n] \in Locations
    OBVIOUS
  <2>2. /\ locs[n].headerOffset \in Nat /\ EndOf(locs[n]) \in Nat
        /\ locs[n].headerOffset <= EndOf(locs[n])
        /\ SectionSize(locs[n]) = EndOf(locs[n]) - locs[n].headerOffset
    <3>1. /\ locs[n].headerOffset \in Nat /\ EndOf(locs[n]) \in Nat
          /\ locs[n].headerOffset <= locs[n].dataOffset /\ locs[n].dataOffset <= EndOf(locs[n])
          /\ locs[n].dataOffset \in Nat
      BY <2>1, LocationsAre
    <3>2. SectionSize(locs[n]) = EndOf(locs[n]) - locs[n].headerOffset
      BY <2>1, SectionSizes
    <3> QED BY <3>1, <3>2
  <2>3. CASE n = 1
    BY <1>1, <2>3, <2>1, <2>2 DEF StartOf
  <2>4. CASE n # 1
    <3>1. n - 1 \in 1 .. Len(locs) /\ n - 1 + 1 = n /\ n - 1 # 0
      BY <1>1, <2>4
    <3>2. EndOf(locs[n - 1]) = StartOf(locs, n - 1 + 1, end)
      BY <3>1
    <3>3. EndOf(locs[n - 1]) = locs[n].headerOffset
      BY <3>1, <3>2 DEF StartOf
    <3> QED BY <2>1, <2>2, <3>1, <3>3
  <2> QED BY <2>3, <2>4
<1>3. ASSUME NEW n \in 0 .. Len(locs)
      PROVE  stop(n) \in Nat /\ start <= stop(n) /\ stop(n) <= end
  <2>1. CASE n = 0
    BY <1>1, <2>1
  <2>2. CASE n # 0
    <3>1. n \in 1 .. Len(locs)
      BY <2>2
    <3>2. stop(n) = EndOf(locs[n])
      BY <2>2
    <3>3. /\ EndOf(locs[n]) \in Nat /\ locs[n].headerOffset \in Nat /\ start <= locs[n].headerOffset
          /\ locs[n].headerOffset <= EndOf(locs[n]) /\ EndOf(locs[n]) <= end
      BY <1>2, <3>1
    <3> HIDE DEF stop
    <3> QED BY <3>2, <3>3
  <2> QED BY <2>1, <2>2
<1>4. stop(Len(locs)) = end
  <2>1. CASE Len(locs) = 0
    BY <2>1 DEF StartOf
  <2>2. CASE Len(locs) # 0
    BY <1>1, <2>2 DEF StartOf
  <2> QED BY <2>1, <2>2
<1> HIDE DEF stop
<1>5. \A n \in 0 .. Len(locs) : g[n] = SubSeq(cells, start + 1, stop(n))
  OBVIOUS
<1>6. ASSUME NEW e \in start .. end
      PROVE  /\ SubSeq(cells, start + 1, e) \in Seq(Cells)
             /\ Len(SubSeq(cells, start + 1, e)) = e - start
             /\ \A x \in 1 .. e - start : SubSeq(cells, start + 1, e)[x] = cells[start + x]
  BY <1>1, SubSeqProperties
<1>7. ASSUME NEW n \in 0 .. Len(locs)
      PROVE  /\ g[n] \in Seq(Cells)
             /\ g[n] = IF n = 0 THEN <<>>
                       ELSE g[n - 1] \o Read(cells, locs[n].headerOffset, SectionSize(locs[n]))
  <2>1. stop(n) \in start .. end
    BY <1>1, <1>3
  <2>2. g[n] \in Seq(Cells)
    BY <1>5, <1>6, <2>1
  <2>3. CASE n = 0
    BY <2>3, SubSeqEmpty, <1>5, <2>2 DEF stop
  <2>4. CASE n # 0
    <3>1. n \in 1 .. Len(locs) /\ n - 1 \in 0 .. Len(locs)
      BY <1>1, <2>4
    <3> DEFINE a == stop(n - 1)  b == stop(n)
    <3>2. a \in Nat /\ b \in Nat /\ start <= a /\ a <= b /\ b <= Len(cells)
          /\ locs[n].headerOffset = a /\ SectionSize(locs[n]) = b - a
      BY <1>1, <1>2, <1>3, <2>4, <3>1 DEF stop
    <3> HIDE DEF a, b
    <3>3. a + (b - a) = b /\ b - a \in Nat
      BY <3>2
    <3>4. Read(cells, a, b - a) = SubSeq(cells, a + 1, b)
      BY <3>2, <3>3 DEF Read
    <3>5. SubSeq(cells, start + 1, a) \o SubSeq(cells, a + 1, b) = SubSeq(cells, start + 1, b)
      <4> DEFINE m == start + 1
      <4>1. m \in 1 .. Len(cells) + 1 /\ a \in m - 1 .. Len(cells) /\ b \in a .. Len(cells)
        BY <1>1, <3>2
      <4> HIDE DEF m
      <4>2. SubSeq(cells, m, a) \o SubSeq(cells, a + 1, b) = SubSeq(cells, m, b)
        BY <4>1, ConcatAdjacentSubSeq
      <4> QED BY <4>2 DEF m
    <3> QED BY <1>5, <2>2, <2>4, <3>1, <3>2, <3>4, <3>5 DEF a, b
  <2> QED BY <2>2, <2>3, <2>4
<1>8. UpTo(g, cells, locs)
  BY <1>7 DEF UpTo
<1>9. CellsOf(cells, locs) = SubSeq(cells, start + 1, end)
  <2>1. Len(locs) \in 0 .. Len(locs)
    BY <1>1
  <2>2. g[Len(locs)] = SubSeq(cells, start + 1, end)
    BY <1>4, <1>5, <2>1
  <2> HIDE DEF g
  <2> QED BY <1>8, <2>2, CellsOfIs
<1> QED BY <1>1, <1>6, <1>9

\* The cells behind a section, and where their sections have moved up to.
Kept(locs, index)  == RemoveAt(locs, index)
Moved(locs, index) == SubSeq(Kept(locs, index), index, Len(Kept(locs, index)))

\* What ReplaceSection moves is all that is behind the section it replaces.
LEMMA CellsBehind ==
    ASSUME NEW cells \in Seq(Cells), NEW secs, NEW locs, Layout(cells, secs, locs, Len(cells)),
           NEW index \in 1 .. Len(locs)
    PROVE  /\ CellsOf(cells, Moved(locs, index)) \in Seq(Cells)
           /\ Len(CellsOf(cells, Moved(locs, index))) = Len(cells) - EndOf(locs[index])
           /\ \A x \in 1 .. Len(cells) - EndOf(locs[index]) :
                CellsOf(cells, Moved(locs, index))[x] = cells[EndOf(locs[index]) + x]
<1> DEFINE M == Moved(locs, index)  K == Kept(locs, index)
           start == EndOf(locs[index])  end == Len(cells)
<1>1. locs \in Seq(Locations) /\ Len(locs) \in Nat /\ Len(cells) \in Nat
  BY DEF Layout
<1>2. /\ K \in Seq(Locations) /\ Len(K) = Len(locs) - 1
      /\ \A n \in 1 .. Len(locs) - 1 : K[n] = IF n < index THEN locs[n] ELSE locs[n + 1]
  BY <1>1, RemoveAtAre DEF Kept
<1>3. /\ M \in Seq(Locations) /\ Len(M) = Len(locs) - index
      /\ \A n \in 1 .. Len(locs) - index : M[n] = locs[index + n]
  <2>1. \A n \in index .. Len(K) : K[n] \in Locations
    BY <1>2
  <2>2. /\ SubSeq(K, index, Len(K)) \in Seq(Locations)
        /\ Len(SubSeq(K, index, Len(K))) = IF index <= Len(K) THEN Len(K) - index + 1 ELSE 0
        /\ \A n \in 1 .. Len(K) - index + 1 : SubSeq(K, index, Len(K))[n] = K[index + n - 1]
    BY <1>1, <1>2, <2>1, SubSeqProperties
  <2>3. ASSUME NEW n \in 1 .. Len(locs) - index PROVE K[index + n - 1] = locs[index + n]
    BY <1>1, <1>2
  <2> HIDE DEF K
  <2> QED BY <1>1, <1>2, <2>2, <2>3 DEF Moved, K
<1> HIDE DEF M, K
<1>4. start \in 1 .. end
  BY <1>1, SectionsInside
<1>5. StartOf(M, 1, end) = start
  <2>1. EndOf(locs[index]) = StartOf(locs, index + 1, end)
    BY DEF Layout
  <2>2. CASE index = Len(locs)
    BY <1>1, <1>3, <2>1, <2>2 DEF StartOf
  <2>3. CASE index # Len(locs)
    BY <1>1, <2>3, <1>3, <2>1 DEF StartOf
  <2> QED BY <2>2, <2>3
<1>6. ASSUME NEW i \in 1 .. Len(M)
      PROVE  /\ EndOf(M[i]) = StartOf(M, i + 1, end)
             /\ M[i].headerOffset >= start /\ EndOf(M[i]) <= end
  <2>1. index + i \in index + 1 .. Len(locs) /\ index + i \in 1 .. Len(locs) /\ M[i] = locs[index + i]
    BY <1>1, <1>3
  <2>2. EndOf(locs[index + i]) = StartOf(locs, index + i + 1, end)
    BY <2>1 DEF Layout
  <2>3. StartOf(locs, index + i + 1, end) = StartOf(M, i + 1, end)
    <3>1. CASE i = Len(M)
      BY <1>1, <1>3, <3>1 DEF StartOf
    <3>2. CASE i # Len(M)
      <4>1. i + 1 \in 1 .. Len(locs) - index /\ index + (i + 1) = index + i + 1
            /\ index + i + 1 <= Len(locs) /\ i + 1 <= Len(M)
        <5>1. Len(M) = Len(locs) - index /\ Len(locs) \in Nat /\ index \in 1 .. Len(locs)
          BY <1>1, <1>3
        <5>2. i \in 1 .. Len(locs) - index /\ i # Len(locs) - index
          BY <3>2, <5>1
        <5> QED BY <5>1, <5>2
      <4> QED BY <1>3, <4>1 DEF StartOf
    <3> QED BY <3>1, <3>2
  <2>4. /\ EndOf(locs[index]) <= locs[index + i].headerOffset
        /\ EndOf(locs[index]) \in Nat /\ locs[index + i].headerOffset \in Nat
        /\ EndOf(locs[index + i]) \in 1 .. end
    <3> DEFINE j == index + i
    <3>1. /\ index \in 1 .. Len(locs) /\ j \in index + 1 .. Len(locs) /\ j \in 1 .. Len(locs)
          /\ Len(cells) \in Nat /\ Layout(cells, secs, locs, end)
      BY <1>1, <2>1
    <3> HIDE DEF j
    <3>2. /\ EndOf(locs[index]) \in 1 .. end /\ EndOf(locs[j]) \in 1 .. end
          /\ locs[j].headerOffset \in 1 .. end /\ EndOf(locs[index]) <= locs[j].headerOffset
      BY <3>1, SectionsInside
    <3>3. end \in Nat
      BY <3>1 DEF Layout
    <3> QED BY <3>2, <3>3 DEF j
  <2> QED BY <2>1, <2>2, <2>3, <2>4
<1> HIDE DEF start, end
<1>7. start \in Nat /\ end \in start .. Len(cells)
  BY <1>1, <1>4 DEF end
<1>8. /\ CellsOf(cells, M) \in Seq(Cells) /\ Len(CellsOf(cells, M)) = end - start
      /\ \A x \in 1 .. end - start : CellsOf(cells, M)[x] = cells[start + x]
  BY <1>3, <1>5, <1>6, <1>7, CellsOfStretch
<1> QED BY <1>8 DEF M, start, end

\* All sections behind it move up by its size.
LEMMA MovedUpBehind ==
    ASSUME NEW cells \in Seq(Cells), NEW secs, NEW locs, Layout(cells, secs, locs, Len(cells)),
           NEW index \in 1 .. Len(locs)
    PROVE  \A i \in index .. Len(locs) - 1 :
             LET new == MovedUp(Kept(locs, index), index, locs[index].headerOffset)[i]
                 n   == SectionSize(locs[index])
             IN  /\ new.headerOffset = locs[i + 1].headerOffset - n
                 /\ new.dataOffset = locs[i + 1].dataOffset - n
                 /\ new.diskLength = locs[i + 1].diskLength
<1> DEFINE K == Kept(locs, index)  size == SectionSize(locs[index])
           start == locs[index].headerOffset
           off == [i \in index .. Len(K) |-> locs[i + 1].headerOffset - size]
<1>1. locs \in Seq(Locations) /\ Len(locs) \in Nat /\ Len(cells) \in Nat
  BY DEF Layout
<1>2. /\ K \in Seq(Locations) /\ Len(K) = Len(locs) - 1
      /\ \A n \in 1 .. Len(locs) - 1 : K[n] = IF n < index THEN locs[n] ELSE locs[n + 1]
  BY <1>1, RemoveAtAre DEF Kept
<1>3. ASSUME NEW j \in 1 .. Len(locs)
      PROVE  /\ locs[j] \in Locations /\ locs[j].headerOffset \in Nat /\ EndOf(locs[j]) \in Nat
             /\ SectionSize(locs[j]) \in Nat
             /\ SectionSize(locs[j]) = EndOf(locs[j]) - locs[j].headerOffset
             /\ j < Len(locs) => EndOf(locs[j]) = locs[j + 1].headerOffset
  <2>1. locs[j] \in Locations
    BY <1>1
  <2>2. EndOf(locs[j]) = StartOf(locs, j + 1, Len(cells))
    BY DEF Layout
  <2>3. j < Len(locs) => EndOf(locs[j]) = locs[j + 1].headerOffset
    BY <1>1, <2>2 DEF StartOf
  <2>4. locs[j].headerOffset \in Nat /\ EndOf(locs[j]) \in Nat
    BY <2>1, LocationsAre
  <2>5. SectionSize(locs[j]) \in Nat /\ SectionSize(locs[j]) = EndOf(locs[j]) - locs[j].headerOffset
    BY <2>1, SectionSizes
  <2> QED BY <2>1, <2>3, <2>4, <2>5
<1>4. start \in Nat /\ size \in Nat /\ size = EndOf(locs[index]) - start
  BY <1>3
<1>5. ASSUME NEW i \in index .. Len(K)
      PROVE  /\ locs[i + 1].headerOffset - size \in Nat
             /\ locs[i + 1].headerOffset - size
                  = IF i = index THEN start
                    ELSE (locs[i].headerOffset - size) + SectionSize(K[i - 1])
  <2>1. i \in 1 .. Len(locs) /\ i + 1 \in 1 .. Len(locs) /\ i < Len(locs) /\ i + 1 \in index + 1 .. Len(locs)
    BY <1>1, <1>2
  <2>2. EndOf(locs[index]) <= locs[i + 1].headerOffset
    BY <1>1, <2>1, SectionsInside
  <2>3. locs[i + 1].headerOffset - size \in Nat
    <3> DEFINE a == locs[i + 1].headerOffset  e == EndOf(locs[index])
    <3>1. a \in Nat /\ e \in Nat /\ e <= a
      BY <1>3, <2>1, <2>2
    <3>2. start \in Nat /\ size = e - start
      BY <1>4
    <3> HIDE DEF a, e, start, size
    <3>3. a - size \in Nat
      BY <3>1, <3>2
    <3> QED BY <3>3 DEF a
  <2>4. EndOf(locs[i]) = locs[i + 1].headerOffset
    BY <1>3, <2>1
  <2>5. CASE i = index
    BY <1>3, <1>4, <2>5, <2>3, <2>4
  <2>6. CASE i # index
    <3>1. i - 1 \in 1 .. Len(locs) - 1 /\ ~(i - 1 < index) /\ i - 1 + 1 = i
      BY <1>1, <1>2, <2>6
    <3>2. K[i - 1] = locs[i]
      BY <1>2, <3>1
    <3>3. SectionSize(K[i - 1]) = EndOf(locs[i]) - locs[i].headerOffset
      BY <1>3, <2>1, <3>2
    <3>4. (locs[i].headerOffset - size) + (EndOf(locs[i]) - locs[i].headerOffset) = EndOf(locs[i]) - size
      <4>1. locs[i].headerOffset \in Nat /\ EndOf(locs[i]) \in Nat
        BY <1>3, <2>1
      <4>2. size \in Nat
        BY <1>4
      <4> HIDE DEF size
      <4> QED BY <4>1, <4>2
    <3> QED BY <2>3, <2>4, <2>6, <3>3, <3>4
  <2> QED BY <2>5, <2>6
<1>6. MovedTo(off, K, index, start)
  <2>1. off \in [index .. Len(K) -> Nat]
    BY <1>5
  <2>2. ASSUME NEW i \in index .. Len(K)
        PROVE  off[i] = IF i = index THEN start ELSE off[i - 1] + SectionSize(K[i - 1])
    BY <1>1, <1>2, <1>5
  <2> HIDE DEF off, size, start, K
  <2> QED BY <2>1, <2>2 DEF MovedTo
<1>7. MovedUp(K, index, start) =
        [i \in DOMAIN K |->
           IF i < index THEN K[i]
           ELSE [headerOffset |-> off[i], diskLength |-> K[i].diskLength,
                 dataOffset   |-> off[i] + K[i].dataOffset - K[i].headerOffset]]
  <2> HIDE DEF off, size, K
  <2>1. index \in Nat \ {0} /\ start \in Nat
    BY <1>1, <1>4
  <2> HIDE DEF start
  <2> QED BY <1>2, <1>6, <2>1, MovedUpIs
<1>8. ASSUME NEW i \in index .. Len(locs) - 1
      PROVE  /\ MovedUp(K, index, start)[i].headerOffset = locs[i + 1].headerOffset - size
             /\ MovedUp(K, index, start)[i].dataOffset = locs[i + 1].dataOffset - size
             /\ MovedUp(K, index, start)[i].diskLength = locs[i + 1].diskLength
  <2>1. i \in DOMAIN K /\ ~(i < index) /\ i \in 1 .. Len(locs) - 1 /\ i \in index .. Len(K)
        /\ i + 1 \in 1 .. Len(locs)
    BY <1>1, <1>2
  <2>2. K[i] = locs[i + 1]
    BY <1>2, <2>1
  <2>3. off[i] = locs[i + 1].headerOffset - size
    BY <2>1
  <2>4. locs[i + 1].headerOffset \in Nat /\ locs[i + 1].dataOffset \in Nat
    BY <1>3, <2>1, LocationsAre
  <2>5. locs[i + 1].headerOffset - size + locs[i + 1].dataOffset - locs[i + 1].headerOffset
          = locs[i + 1].dataOffset - size
    BY <1>4, <2>4
  <2> HIDE DEF off, size, start, K
  <2> QED BY <1>7, <2>1, <2>2, <2>3, <2>5
<1> QED BY <1>8

-----------------------------------------------------------------------------
(* The inductive invariant.                                                *)

Write   == [write : Nat, length : Nat]
Closing == [headerOffset : Nat, dataOffset : Nat, oldLength : Nat, length : Nat \cup {-1},
            write : Nat, good : BOOLEAN]

IsBusy == m_CurrentWritingProps # NoSection
Writes == contents[m_Filename]

Types ==
    /\ disk \in [Paths -> Seq(Cells)] /\ m_Filename \in Paths /\ fileError \in {Ok, Failed}
    /\ m_Sections \in Seq(SectionNames) /\ m_SectionLocations \in Seq(Locations)
    /\ Len(m_Sections) = Len(m_SectionLocations)
    /\ m_CurrentWritingProps \in SectionNames \cup {NoSection} /\ closing \in Closing
    /\ sections \in Nat /\ texts \in Nat /\ intact \in SUBSET Paths
    /\ DOMAIN contents = Paths
    /\ \A p \in Paths : /\ DOMAIN contents[p] \in SUBSET SectionNames
                        /\ contents[p] \in [DOMAIN contents[p] -> Write]

\* The frame capture of this write, with its header, right behind the file header.
FrontEnd(w) == 1 + HeaderSize[FrameCapture] + w.length
InFront(cells, w) ==
    /\ FrontEnd(w) <= Len(cells)
    /\ \A x \in 1 .. HeaderSize[FrameCapture] :
         cells[1 + x] = Header("binary", FrameCapture, w.length)[x]
    /\ DataAt(cells, 1 + HeaderSize[FrameCapture], w.length, w.write)

Fronts == \A p \in Paths : FrameCapture \in DOMAIN contents[p] =>
              InFront(disk[p], contents[p][FrameCapture])

\* A table that can be written with: it has a frame capture, nothing is in front of
\* the first section, and nothing but the frame capture where that was written.
TableFits(secs, locs, writes) ==
    /\ secs # <<>> => /\ \E i \in 1 .. Len(secs) : secs[i] = FrameCapture
                      /\ locs[1].headerOffset = 1
    /\ FrameCapture \in DOMAIN writes =>
         /\ secs # <<>> /\ secs[1] = FrameCapture
         /\ \A i \in 2 .. Len(secs) : locs[i].headerOffset >= FrontEnd(writes[FrameCapture])

Table ==
    fileError = Ok =>
        /\ TableFits(m_Sections, m_SectionLocations, Writes)
        /\ m_Sections = <<>> /\ ~IsBusy => Len(openFile) = 1 /\ DOMAIN Writes = {}

\* The section that is written goes behind the frame capture, or is the first one.
Writing ==
    IsBusy =>
        /\ fileError = Ok
        /\ closing.dataOffset = closing.headerOffset + HeaderSize[m_CurrentWritingProps]
        /\ closing.dataOffset <= Len(openFile)
        /\ m_CurrentWritingProps = FrameCapture =>
             m_Sections = <<>> /\ closing.headerOffset = 1 /\ DOMAIN Writes = {}
        /\ m_CurrentWritingProps # FrameCapture => m_Sections # <<>>
        /\ FrameCapture \in DOMAIN Writes =>
             closing.headerOffset >= FrontEnd(Writes[FrameCapture])
        /\ closing.length # -1 /\ closing.good =>
             /\ closing.dataOffset + closing.length <= Len(openFile)
             /\ DataAt(openFile, closing.dataOffset, closing.length, closing.write)

AllWhole(cells, secs, locs, writes) == Whole(cells, secs, locs, Len(cells), writes)

\* A file that no write failed in has the sections written, and an object that has
\* it open their table.  While one is written they end where it starts, and nothing
\* is behind it that will not be cut off.
Untouched(p) ==
    /\ \E secs, locs : AllWhole(disk[p], secs, locs, contents[p])
    /\ m_Filename = p /\ fileError = Ok =>
         AllWhole(disk[p], m_Sections, m_SectionLocations, contents[p])

Behind ==
    /\ Whole(openFile, m_Sections, m_SectionLocations, closing.headerOffset, Writes)
    /\ closing.good /\ m_CurrentWritingProps \notin DOMAIN Writes
    /\ \/ Len(openFile) <= closing.dataOffset + closing.oldLength
       \/ closing.length # -1 /\ Len(openFile) <= closing.dataOffset + closing.length

Intact == /\ \A p \in intact : ~(p = m_Filename /\ IsBusy) => Untouched(p)
          /\ m_Filename \in intact /\ IsBusy => Behind

SectionsInv == Types /\ Fronts /\ Table /\ Writing /\ Intact

-----------------------------------------------------------------------------
(* What is left when a section is taken out and those behind it moved up.  *)

\* Offsets behind the end e of a section that started at h, once it is removed.
LEMMA OffsetsMove ==
    ASSUME NEW h \in Nat, NEW e \in Nat, NEW a \in Nat, NEW b \in Nat, NEW c \in Nat, NEW n \in Nat,
           h <= e, e <= a, a < b, b <= c, c <= n
    PROVE  /\ a - (e - h) \in Nat /\ b - (e - h) \in Nat /\ c - (e - h) \in Nat
           /\ a - (e - h) < b - (e - h) /\ c - (e - h) <= n - (e - h)
OBVIOUS

\* Without a section, and with those behind it moved over it, a file is whole up to
\* where the last one of them ends now.
LEMMA SectionRemoved ==
    ASSUME NEW cells \in Seq(Cells), NEW secs, NEW locs, NEW writes,
           AllWhole(cells, secs, locs, writes),
           NEW index \in 1 .. Len(locs), secs[index] # FrameCapture,
           NEW new \in Seq(Cells), Len(cells) - SectionSize(locs[index]) <= Len(new),
           \A x \in 1 .. locs[index].headerOffset : new[x] = cells[x],
           \A x \in 1 .. Len(cells) - EndOf(locs[index]) :
             new[locs[index].headerOffset + x] = cells[EndOf(locs[index]) + x]
    PROVE  Whole(new, RemoveAt(secs, index),
                 MovedUp(Kept(locs, index), index, locs[index].headerOffset),
                 Len(cells) - SectionSize(locs[index]), Without(writes, secs[index]))
<1> DEFINE h == locs[index].headerOffset  e == EndOf(locs[index])  size == SectionSize(locs[index])
           S == RemoveAt(secs, index)  K == Kept(locs, index)  L == MovedUp(K, index, h)
           W == Without(writes, secs[index])  N == Len(locs)  end == Len(cells) - size
           old(i) == IF i < index THEN i ELSE i + 1
           shift(i) == IF i < index THEN 0 ELSE size
<1>1. Layout(cells, secs, locs, Len(cells)) /\ Recorded(cells, secs, locs, writes)
  BY DEF Whole, AllWhole
<1>2. /\ locs \in Seq(Locations) /\ N \in Nat /\ Len(cells) \in Nat /\ Len(new) \in Nat
      /\ secs \in Seq(SectionNames) /\ Len(secs) = N /\ index \in 1 .. N
  BY <1>1 DEF Layout
<1>3. index # 1 /\ index \in 2 .. N
  BY <1>1, <1>2 DEF Recorded
<1>4. S \in Seq(SectionNames) /\ Len(S) = N - 1 /\ \A i \in 1 .. N - 1 : S[i] = secs[old(i)]
  BY <1>2, RemoveAtAre
<1>5. /\ K \in Seq(Locations) /\ Len(K) = N - 1
      /\ \A i \in 1 .. N - 1 : K[i] = IF i < index THEN locs[i] ELSE locs[i + 1]
  BY <1>2, RemoveAtAre DEF Kept
<1>6. ASSUME NEW i \in 1 .. N
      PROVE  /\ locs[i] \in Locations /\ locs[i].headerOffset \in Nat /\ locs[i].dataOffset \in Nat
             /\ locs[i].diskLength \in Nat /\ EndOf(locs[i]) \in Nat
             /\ EndOf(locs[i]) = locs[i].dataOffset + locs[i].diskLength
             /\ locs[i].headerOffset < locs[i].dataOffset /\ locs[i].dataOffset <= EndOf(locs[i])
             /\ EndOf(locs[i]) <= Len(cells) /\ EndOf(locs[i]) = StartOf(locs, i + 1, Len(cells))
             /\ Section(cells, locs[i], secs[i]) /\ locs[i].headerOffset >= 1
  <2>1. EndOf(locs[i]) = StartOf(locs, i + 1, Len(cells)) /\ Section(cells, locs[i], secs[i])
    BY <1>1 DEF Layout
  <2>2. /\ locs[i] \in Locations /\ locs[i].headerOffset \in 1 .. Len(cells)
        /\ locs[i].dataOffset \in 1 .. Len(cells) /\ EndOf(locs[i]) \in 1 .. Len(cells)
        /\ locs[i].diskLength \in Nat
        /\ locs[i].headerOffset < locs[i].dataOffset /\ locs[i].dataOffset <= EndOf(locs[i])
    BY <1>1, <1>2, SectionsInside
  <2> QED BY <1>2, <2>1, <2>2 DEF EndOf
<1>7. /\ h \in Nat /\ e \in Nat /\ size \in Nat /\ size = e - h /\ h <= e /\ e <= Len(cells)
      /\ h <= end /\ end = Len(cells) - size
  BY <1>2, <1>6, SectionSizes
<1>8. L \in Seq(Locations) /\ Len(L) = N - 1 /\ \A i \in 1 .. N - 1 : i < index => L[i] = K[i]
  <2>1. index \in Nat \ {0} /\ h \in Nat
    BY <1>2, <1>7
  <2> HIDE DEF h, K
  <2> QED BY <1>5, <2>1, MovedUpAre
<1>9. \A i \in index .. N - 1 : /\ L[i].headerOffset = locs[i + 1].headerOffset - size
                                /\ L[i].dataOffset = locs[i + 1].dataOffset - size
                                /\ L[i].diskLength = locs[i + 1].diskLength
  BY <1>1, MovedUpBehind
<1> HIDE DEF S, K, L, W, N, h, e, size
<1>10. ASSUME NEW i \in 1 .. N - 1
       PROVE  /\ old(i) \in 1 .. N /\ old(i) # index
              /\ shift(i) \in {0, size} /\ shift(i) \in Nat
              /\ L[i].headerOffset = locs[old(i)].headerOffset - shift(i)
              /\ L[i].dataOffset = locs[old(i)].dataOffset - shift(i)
              /\ L[i].diskLength = locs[old(i)].diskLength
              /\ EndOf(L[i]) = EndOf(locs[old(i)]) - shift(i)
              /\ L[i].headerOffset \in Nat /\ L[i].dataOffset \in Nat /\ EndOf(L[i]) \in Nat
              /\ L[i].headerOffset < L[i].dataOffset /\ EndOf(L[i]) <= end
  <2>1. CASE i < index
    <3>1. old(i) = i /\ shift(i) = 0 /\ i \in 1 .. N /\ i # index /\ index \in i + 1 .. N
      BY <1>2, <2>1
    <3>2. L[i] = locs[i]
      BY <1>5, <1>8, <2>1
    <3>3. EndOf(locs[i]) <= h
      BY <1>1, <1>2, <3>1, SectionsInside DEF N, h
    <3>4. EndOf(locs[i]) \in Nat
      BY <1>6, <3>1
    <3>5. EndOf(locs[i]) <= end
      BY <1>2, <1>7, <3>3, <3>4
    <3>6. /\ locs[i].headerOffset \in Nat /\ locs[i].dataOffset \in Nat
          /\ locs[i].headerOffset < locs[i].dataOffset
      BY <1>6, <3>1
    <3>7. /\ locs[i].headerOffset - 0 = locs[i].headerOffset
          /\ locs[i].dataOffset - 0 = locs[i].dataOffset /\ EndOf(locs[i]) - 0 = EndOf(locs[i])
      BY <3>4, <3>6
    <3> HIDE DEF end, old, shift
    <3>8. L[old(i)] = locs[old(i)] /\ locs[old(i)] = locs[i]
      BY <3>1, <3>2
    <3>9. shift(i) \in {0, size} /\ shift(i) \in Nat
      BY <1>7, <3>1
    <3> QED BY <3>1, <3>2, <3>4, <3>5, <3>6, <3>7, <3>9
  <2>2. CASE ~(i < index)
    <3>1. old(i) = i + 1 /\ shift(i) = size /\ i + 1 \in 1 .. N /\ i \in index .. N - 1
          /\ i + 1 \in index + 1 .. N /\ i + 1 # index
      BY <1>2, <2>2
    <3>2. e <= locs[i + 1].headerOffset
      BY <1>1, <1>2, <3>1, SectionsInside DEF N, e
    <3>3. /\ L[i].headerOffset = locs[i + 1].headerOffset - size
          /\ L[i].dataOffset = locs[i + 1].dataOffset - size
          /\ L[i].diskLength = locs[i + 1].diskLength
      BY <1>9, <3>1
    <3>4. /\ locs[i + 1].headerOffset \in Nat /\ locs[i + 1].dataOffset \in Nat
          /\ locs[i + 1].diskLength \in Nat /\ EndOf(locs[i + 1]) \in Nat
          /\ EndOf(locs[i + 1]) = locs[i + 1].dataOffset + locs[i + 1].diskLength
          /\ locs[i + 1].headerOffset < locs[i + 1].dataOffset
          /\ locs[i + 1].dataOffset <= EndOf(locs[i + 1]) /\ EndOf(locs[i + 1]) <= Len(cells)
      BY <1>6, <3>1
    <3>5. EndOf(L[i]) = EndOf(locs[i + 1]) - size
      <4>1. EndOf(L[i]) = L[i].dataOffset + L[i].diskLength
        BY DEF EndOf
      <4> DEFINE d == locs[i + 1].dataOffset  n == locs[i + 1].diskLength
      <4>2. d \in Nat /\ n \in Nat /\ EndOf(locs[i + 1]) = d + n /\ EndOf(L[i]) = (d - size) + n
        BY <3>3, <3>4, <4>1
      <4>3. size \in Nat
        BY <1>7
      <4> HIDE DEF d, n
      <4> QED BY <4>2, <4>3
    <3>6. /\ locs[i + 1].headerOffset - size \in Nat /\ locs[i + 1].dataOffset - size \in Nat
          /\ EndOf(locs[i + 1]) - size \in Nat
          /\ locs[i + 1].headerOffset - size < locs[i + 1].dataOffset - size
          /\ EndOf(locs[i + 1]) - size <= end
      <4>1. Len(cells) \in Nat /\ end = Len(cells) - size
        BY <1>2
      <4> DEFINE a == locs[i + 1].headerOffset  b == locs[i + 1].dataOffset  c == EndOf(locs[i + 1])
      <4>2. a \in Nat /\ b \in Nat /\ c \in Nat /\ e <= a /\ a < b /\ b <= c /\ c <= Len(cells)
        BY <3>2, <3>4
      <4> HIDE DEF a, b, c, end
      <4>3. /\ a - (e - h) \in Nat /\ b - (e - h) \in Nat /\ c - (e - h) \in Nat
            /\ a - (e - h) < b - (e - h) /\ c - (e - h) <= Len(cells) - (e - h)
        BY <1>7, <4>1, <4>2, OffsetsMove
      <4> QED BY <1>7, <4>1, <4>3 DEF a, b, c
    <3> QED BY <1>7, <3>1, <3>3, <3>5, <3>6
  <2> QED BY <2>1, <2>2
<1>11. ASSUME NEW i \in 1 .. N - 1,
              NEW x \in locs[old(i)].headerOffset + 1 .. EndOf(locs[old(i)])
       PROVE  x - shift(i) \in Nat /\ new[x - shift(i)] = cells[x]
  <2>1. old(i) \in 1 .. N
    BY <1>10
  <2>2. locs[old(i)].headerOffset \in Nat /\ EndOf(locs[old(i)]) \in Nat /\ EndOf(locs[old(i)]) <= Len(cells)
    BY <1>6, <2>1
  <2>3. x \in Nat /\ x >= 1 /\ x <= Len(cells)
    <3> DEFINE a == locs[old(i)].headerOffset  b == EndOf(locs[old(i)])
    <3>1. a \in Nat /\ b \in Nat /\ b <= Len(cells) /\ Len(cells) \in Nat /\ x \in a + 1 .. b
      BY <1>2, <2>2
    <3> HIDE DEF a, b
    <3> QED BY <3>1
  <2>4. CASE i < index
    <3>1. old(i) = i /\ shift(i) = 0 /\ i \in 1 .. N /\ index \in i + 1 .. N
      BY <1>2, <2>4
    <3>2. EndOf(locs[i]) <= h
      BY <1>1, <1>2, <3>1, SectionsInside DEF N, h
    <3>3. x \in 1 .. h
      BY <1>7, <2>2, <2>3, <3>1, <3>2
    <3>4. x - 0 = x
      BY <2>3
    <3> QED BY <2>3, <3>1, <3>3, <3>4 DEF h
  <2>5. CASE ~(i < index)
    <3>1. old(i) = i + 1 /\ shift(i) = size /\ i + 1 \in index + 1 .. N
      BY <1>2, <2>5
    <3>2. e <= locs[i + 1].headerOffset
      BY <1>1, <1>2, <3>1, SectionsInside DEF N, e
    <3>3. x - e \in 1 .. Len(cells) - e /\ h + (x - e) = x - size /\ e + (x - e) = x
          /\ x - size \in Nat
      BY <1>2, <3>1, <2>2, <2>3, <1>7, <3>2
    <3>4. new[h + (x - e)] = cells[e + (x - e)]
      BY <3>3 DEF h, e
    <3> QED BY <3>1, <3>3, <3>4
  <2> QED BY <2>4, <2>5
<1> HIDE DEF old, shift, end
<1>12. end \in Nat /\ end >= 1 /\ end <= Len(new) /\ end = Len(cells) - size
  <2>1. h >= 1
    BY <1>2, <1>6 DEF h
  <2> QED BY <1>2, <1>7, <2>1 DEF end, size
<1>13. ASSUME NEW i \in 1 .. N - 1 PROVE Section(new, L[i], S[i])
  <2> DEFINE o == locs[old(i)]  first == o.headerOffset + 1
  <2>1. old(i) \in 1 .. N /\ S[i] = secs[old(i)]
    BY <1>4, <1>10
  <2>2. /\ o.headerOffset \in Nat /\ o.dataOffset \in Nat /\ EndOf(o) \in Nat
        /\ o.headerOffset < o.dataOffset /\ o.dataOffset <= EndOf(o)
    BY <1>6, <2>1
  <2>3. first \in o.headerOffset + 1 .. EndOf(o)
    BY <2>2
  <2>4. new[first - shift(i)] = cells[first]
    BY <1>11, <2>3
  <2>5. /\ L[i].headerOffset = o.headerOffset - shift(i) /\ L[i].dataOffset = o.dataOffset - shift(i)
        /\ L[i].diskLength = o.diskLength /\ EndOf(L[i]) <= end
        /\ L[i].headerOffset < L[i].dataOffset /\ shift(i) \in Nat /\ EndOf(L[i]) \in Nat
        /\ L[i].headerOffset \in Nat
    BY <1>10
  <2>6. L[i].headerOffset + 1 = first - shift(i)
    BY <2>2, <2>5
  <2>7. /\ cells[first].kind \in {"binary", "text"} /\ cells[first].name = secs[old(i)]
        /\ cells[first].n = o.diskLength
        /\ o.dataOffset = o.headerOffset + SizeOf(cells[first].kind, secs[old(i)])
    BY <1>6, <2>1 DEF Section
  <2>8. new[L[i].headerOffset + 1] = cells[first]
    BY <2>4, <2>6
  <2>9. SizeOf(cells[first].kind, secs[old(i)]) \in Nat
    <3>1. secs[old(i)] \in SectionNames
      BY <1>2, <2>1
    <3> QED BY <2>7, <3>1, SizeOfHeaders
  <2> HIDE DEF o, first
  <2>10. L[i].dataOffset = L[i].headerOffset + SizeOf(cells[first].kind, secs[old(i)])
    <3> DEFINE n == SizeOf(cells[first].kind, secs[old(i)])  s == shift(i)  at == o.headerOffset
    <3>1. /\ n \in Nat /\ s \in Nat /\ at \in Nat /\ L[i].dataOffset = (at + n) - s
          /\ L[i].headerOffset = at - s
      BY <2>2, <2>5, <2>7, <2>9
    <3> HIDE DEF n, s, at
    <3>2. L[i].dataOffset = L[i].headerOffset + n
      BY <3>1
    <3> QED BY <3>2 DEF n
  <2>11. EndOf(L[i]) <= Len(new)
    BY <1>2, <1>12, <2>5
  <2> QED BY <2>1, <2>5, <2>7, <2>8, <2>10, <2>11 DEF Section
<1>14. ASSUME NEW i \in 1 .. N - 1 PROVE EndOf(L[i]) = StartOf(L, i + 1, end)
  <2>1. /\ old(i) \in 1 .. N /\ EndOf(L[i]) = EndOf(locs[old(i)]) - shift(i)
        /\ EndOf(locs[old(i)]) = StartOf(locs, old(i) + 1, Len(cells))
        /\ EndOf(locs[old(i)]) \in Nat
    BY <1>6, <1>10
  <2>2. CASE i + 1 < index
    <3>1. old(i) = i /\ old(i + 1) = i + 1 /\ shift(i) = 0 /\ shift(i + 1) = 0 /\ i + 1 \in 1 .. N - 1
      BY <1>2, <2>2 DEF old, shift
    <3>2. L[i + 1].headerOffset = locs[i + 1].headerOffset - 0 /\ locs[i + 1].headerOffset \in Nat
      BY <1>2, <3>1, <1>6, <1>10
    <3>3. EndOf(locs[i]) = locs[i + 1].headerOffset
      BY <1>2, <2>1, <3>1 DEF StartOf, N
    <3> QED BY <1>8, <2>1, <3>1, <3>2, <3>3 DEF StartOf
  <2>3. CASE i + 1 = index
    <3>1. old(i) = i /\ shift(i) = 0
      BY <1>2, <2>3 DEF old, shift
    <3>2. EndOf(locs[i]) = h
      BY <1>2, <2>1, <2>3, <3>1 DEF StartOf, N, h
    <3>3. EndOf(L[i]) = h
      BY <1>7, <2>1, <3>1, <3>2
    <3>4. e = StartOf(locs, index + 1, Len(cells))
      BY <1>2, <1>6 DEF e
    <3>5. CASE index = N
      <4>1. e = Len(cells) /\ ~(i + 1 <= N - 1)
        BY <1>2, <2>3, <3>4, <3>5 DEF StartOf, N
      <4>2. StartOf(L, i + 1, end) = end
        BY <1>8, <4>1 DEF StartOf
      <4> QED BY <1>7, <1>12, <3>3, <4>1, <4>2
    <3>6. CASE index # N
      <4>1. index \in 1 .. N - 1 /\ index + 1 \in 1 .. N /\ index + 1 <= N
        BY <1>2, <3>6
      <4>2. e = locs[index + 1].headerOffset
        BY <3>4, <4>1 DEF StartOf, N
      <4>3. old(index) = index + 1 /\ shift(index) = size
        BY <1>2 DEF old, shift
      <4>4. L[index].headerOffset = e - size
        BY <1>10, <4>1, <4>2, <4>3
      <4>5. StartOf(L, i + 1, end) = e - size
        BY <1>8, <2>3, <4>1, <4>4 DEF StartOf
      <4> QED BY <1>7, <3>3, <4>5
    <3> QED BY <3>5, <3>6
  <2>4. CASE i + 1 > index
    <3>1. old(i) = i + 1 /\ shift(i) = size /\ i + 1 \in 1 .. N
      BY <1>2, <2>4 DEF old, shift
    <3>2. CASE i = N - 1
      <4>1. ~(i + 1 <= N - 1) /\ ~(old(i) + 1 <= N)
        BY <1>2, <3>1, <3>2
      <4>2. EndOf(locs[old(i)]) = Len(cells) /\ StartOf(L, i + 1, end) = end
        BY <1>8, <2>1, <4>1 DEF StartOf, N
      <4> QED BY <1>12, <2>1, <3>1, <4>2
    <3>3. CASE i # N - 1
      <4>1. i + 1 \in 1 .. N - 1 /\ old(i + 1) = old(i) + 1 /\ shift(i + 1) = size /\ old(i) + 1 <= N
        BY <1>2, <2>4, <3>1, <3>3 DEF old, shift
      <4>2. L[i + 1].headerOffset = locs[old(i) + 1].headerOffset - size
        BY <1>10, <4>1
      <4>3. EndOf(locs[old(i)]) = locs[old(i) + 1].headerOffset
        BY <2>1, <4>1 DEF StartOf, N
      <4>4. StartOf(L, i + 1, end) = L[i + 1].headerOffset
        BY <1>8, <4>1 DEF StartOf
      <4> QED BY <2>1, <3>1, <4>2, <4>3, <4>4
    <3> QED BY <3>2, <3>3
  <2> QED BY <1>2, <2>2, <2>3, <2>4
<1>15. Layout(new, S, L, end)
  <2>1. StartOf(L, 1, end) = 1
    <3>1. 1 \in 1 .. N - 1 /\ 1 < index /\ 1 \in 1 .. N
      BY <1>2, <1>3
    <3>2. StartOf(locs, 1, Len(cells)) = 1
      BY <1>1 DEF Layout
    <3>3. L[1] = locs[1] /\ 1 <= Len(L)
      BY <1>5, <1>8, <3>1
    <3> QED BY <3>1, <3>2, <3>3 DEF StartOf, N
  <2>2. end \in 1 .. Len(new)
    BY <1>2, <1>12
  <2> QED BY <1>2, <1>4, <1>8, <1>13, <1>14, <2>1, <2>2 DEF Layout
<1>16. /\ \A i, j \in 1 .. N : secs[i] = secs[j] => i = j
       /\ DOMAIN writes = {secs[i] : i \in 1 .. N} /\ secs[1] = FrameCapture
       /\ \A i \in 1 .. N : /\ locs[i].diskLength = writes[secs[i]].length
                            /\ DataAt(cells, locs[i].dataOffset, locs[i].diskLength, writes[secs[i]].write)
  BY <1>1, <1>2, <1>3 DEF Recorded
<1>17. DOMAIN W = DOMAIN writes \ {secs[index]} /\ \A n \in DOMAIN writes : n # secs[index] => W[n] = writes[n]
  BY WritesWithout DEF W
<1>18. ASSUME NEW i \in 1 .. N - 1
       PROVE  /\ S[i] = secs[old(i)] /\ secs[old(i)] \in DOMAIN writes /\ secs[old(i)] # secs[index]
              /\ W[S[i]] = writes[secs[old(i)]]
  BY <1>4, <1>10, <1>2, <1>16, <1>17
<1>19. Recorded(new, S, L, W)
  <2>1. ASSUME NEW i \in 1 .. Len(S), NEW j \in 1 .. Len(S), S[i] = S[j] PROVE i = j
    <3>1. i \in 1 .. N - 1 /\ j \in 1 .. N - 1
      BY <1>4
    <3>2. old(i) = old(j)
      <4>1. old(i) \in 1 .. N /\ old(j) \in 1 .. N
        BY <1>10, <3>1
      <4>2. secs[old(i)] = secs[old(j)]
        BY <1>18, <2>1, <3>1
      <4> QED BY <1>16, <4>1, <4>2
    <3> QED BY <1>2, <3>1, <3>2 DEF old
  <2>2. DOMAIN W = {S[i] : i \in 1 .. Len(S)}
    <3>1. \A n \in DOMAIN W : \E i \in 1 .. Len(S) : S[i] = n
      <4> TAKE n \in DOMAIN W
      <4>1. PICK j \in 1 .. N : secs[j] = n
        BY <1>16, <1>17
      <4>2. j # index
        BY <1>17, <4>1
      <4>3. CASE j < index
        <5>1. j \in 1 .. N - 1 /\ old(j) = j
          BY <1>2, <4>3 DEF old
        <5> QED BY <1>4, <4>1, <5>1
      <4>4. CASE ~(j < index)
        <5>1. j - 1 \in 1 .. N - 1 /\ old(j - 1) = j
          BY <1>2, <1>3, <4>2, <4>4 DEF old
        <5> QED BY <1>4, <4>1, <5>1
      <4> QED BY <4>3, <4>4
    <3>2. \A i \in 1 .. Len(S) : S[i] \in DOMAIN W
      BY <1>4, <1>17, <1>18
    <3> QED BY <3>1, <3>2
  <2>3. ASSUME NEW i \in 1 .. Len(S)
        PROVE  /\ L[i].diskLength = W[S[i]].length
               /\ DataAt(new, L[i].dataOffset, L[i].diskLength, W[S[i]].write)
    <3> DEFINE o == locs[old(i)]  w == writes[secs[old(i)]]
    <3>1. i \in 1 .. N - 1 /\ old(i) \in 1 .. N
      BY <1>4, <1>10
    <3>2. L[i].diskLength = o.diskLength /\ L[i].dataOffset = o.dataOffset - shift(i) /\ shift(i) \in Nat
          /\ L[i].dataOffset \in Nat
      BY <1>10, <3>1
    <3>3. o.diskLength = w.length /\ DataAt(cells, o.dataOffset, o.diskLength, w.write)
      BY <1>16, <3>1
    <3>4. W[S[i]] = w
      BY <1>18, <3>1
    <3>5. /\ o.headerOffset \in Nat /\ o.dataOffset \in Nat /\ EndOf(o) \in Nat /\ o.diskLength \in Nat
          /\ o.headerOffset < o.dataOffset /\ EndOf(o) = o.dataOffset + o.diskLength
      BY <1>6, <3>1
    <3>6. ASSUME NEW n \in 1 .. o.diskLength
          PROVE  new[L[i].dataOffset + n] = Cell("data", NoSection, w.write, n)
      <4>1. o.dataOffset + n \in o.headerOffset + 1 .. EndOf(o)
        <5> DEFINE a == o.headerOffset  b == o.dataOffset  l == o.diskLength
        <5>1. a \in Nat /\ b \in Nat /\ l \in Nat /\ a < b /\ EndOf(o) = b + l /\ n \in 1 .. l
          BY <3>5
        <5> HIDE DEF a, b, l
        <5>2. b + n \in a + 1 .. EndOf(o)
          BY <5>1
        <5> QED BY <5>2 DEF a, b
      <4>2. new[(o.dataOffset + n) - shift(i)] = cells[o.dataOffset + n]
        BY <1>11, <3>1, <4>1
      <4>3. (o.dataOffset + n) - shift(i) = L[i].dataOffset + n
        BY <3>2, <3>5
      <4>4. cells[o.dataOffset + n] = Cell("data", NoSection, w.write, n)
        BY <3>3 DEF DataAt
      <4> QED BY <4>2, <4>3, <4>4
    <3> HIDE DEF o, w
    <3> QED BY <3>2, <3>3, <3>4, <3>6 DEF DataAt
  <2>4. Len(S) > 0 => S[1] = FrameCapture
    BY <1>2, <1>3, <1>4, <1>16 DEF old
  <2> QED BY <2>1, <2>2, <2>3, <2>4 DEF Recorded
<1> QED BY <1>15, <1>19 DEF Whole, S, L, K, W, h, size, end

-----------------------------------------------------------------------------
(* The table that is read from a file.                                     *)

NoTable(err) == [error |-> err, sections |-> <<>>, locations |-> <<>>]

\* What Parsed finds from an offset on, when f is what it finds further on.
Rest(f, cells, lenient, offset) ==
    LET header == cells[offset + 1]
        data   == offset + SizeOf(header.kind, header.name)
        rest   == f[data + header.n]
    IN  IF offset = Len(cells) THEN [error |-> Ok, sections |-> <<>>, locations |-> <<>>]
        ELSE IF header.kind \notin {"binary", "text"} \/ data > Len(cells)
             THEN [error |-> Failed, sections |-> <<>>, locations |-> <<>>]
        ELSE LET here == [headerOffset |-> offset, dataOffset |-> data, diskLength |-> header.n]
             IN  IF data + header.n > Len(cells)
                 THEN [error     |-> IF lenient THEN Ok ELSE Failed,
                       sections  |-> <<header.name>>, locations |-> <<here>>]
                 ELSE [error     |-> rest.error,
                       sections  |-> <<header.name>> \o rest.sections,
                       locations |-> <<here>> \o rest.locations]

RestFrom(f, cells, lenient, k) ==
    /\ DOMAIN f = k .. Len(cells) /\ f = [offset \in k .. Len(cells) |-> f[offset]]
    /\ \A offset \in k .. Len(cells) : f[offset] = Rest(f, cells, lenient, offset)

LEMMA SectionAt ==
    ASSUME NEW cells \in Seq(Cells), NEW offset \in 0 .. Len(cells), offset # Len(cells),
           cells[offset + 1].kind \in {"binary", "text"}
    PROVE  /\ cells[offset + 1].name \in SectionNames /\ cells[offset + 1].n \in Nat
           /\ SizeOf(cells[offset + 1].kind, cells[offset + 1].name) \in Nat \ {0}
BY SizeOfHeaders DEF Cells

\* What Init makes of the rest of a file does not depend on what was in front of it.
LEMMA RestDepends ==
    ASSUME NEW cells \in Seq(Cells), NEW lenient, NEW f, NEW g, NEW offset \in 0 .. Len(cells),
           \A r \in offset + 1 .. Len(cells) : f[r] = g[r]
    PROVE  Rest(f, cells, lenient, offset) = Rest(g, cells, lenient, offset)
<1> DEFINE header == cells[offset + 1]  data == offset + SizeOf(header.kind, header.name)
<1>1. CASE offset = Len(cells) \/ header.kind \notin {"binary", "text"} \/ data > Len(cells)
           \/ data + header.n > Len(cells)
  BY <1>1 DEF Rest
<1>2. CASE ~(offset = Len(cells) \/ header.kind \notin {"binary", "text"} \/ data > Len(cells)
             \/ data + header.n > Len(cells))
  <2>1. header.n \in Nat /\ SizeOf(header.kind, header.name) \in Nat \ {0}
    BY <1>2, SectionAt
  <2>2. Len(cells) \in Nat /\ offset \in Nat
    OBVIOUS
  <2>3. data + header.n \in offset + 1 .. Len(cells)
    BY <1>2, <2>1, <2>2
  <2>4. f[data + header.n] = g[data + header.n]
    BY <2>3
  <2> QED BY <1>2, <2>4 DEF Rest
<1> QED BY <1>1, <1>2

\* The recursion of Parsed is well-founded: every section has a header, so that the
\* next one starts further behind.
LEMMA RestExists ==
    ASSUME NEW cells \in Seq(Cells), NEW lenient
    PROVE  \E f : RestFrom(f, cells, lenient, 0)
<1> DEFINE N == Len(cells)
           T == {d \in 0 .. N : ~(\E f : RestFrom(f, cells, lenient, N - d))}
<1>1. N \in Nat /\ T \in SUBSET Nat
  OBVIOUS
<1>2. CASE T = {}
  BY <1>1, <1>2
<1>3. CASE T # {}
  <2>1. PICK d \in T : \A m \in T : d <= m
    BY <1>1, <1>3, LeastNatural
  <2>2. d \in 0 .. N /\ ~(\E f : RestFrom(f, cells, lenient, N - d))
    OBVIOUS
  <2> DEFINE k == N - d
  <2>3. k \in 0 .. N
    BY <1>1, <2>2
  <2>4. CASE d = 0
    <3> DEFINE f == [offset \in k .. N |-> NoTable(Ok)]
    <3>1. k = N
      BY <1>1, <2>4
    <3>2. \A offset \in k .. N : offset = N
      BY <1>1, <3>1
    <3>3. \A offset \in k .. N : f[offset] = NoTable(Ok)
      OBVIOUS
    <3>4. DOMAIN f = k .. N /\ f = [offset \in k .. N |-> f[offset]]
      OBVIOUS
    <3> HIDE DEF f
    <3>5. \A offset \in k .. N : f[offset] = Rest(f, cells, lenient, offset)
      BY <3>2, <3>3 DEF Rest, NoTable
    <3>6. RestFrom(f, cells, lenient, k)
      BY <3>4, <3>5 DEF RestFrom
    <3> QED BY <2>2, <3>6
  <2>5. CASE d # 0
    <3>1. d - 1 \in 0 .. N /\ ~(d <= d - 1) /\ N - (d - 1) = k + 1
      BY <1>1, <2>2, <2>5
    <3>2. d - 1 \notin T
      BY <2>1, <3>1
    <3>3. PICK f : RestFrom(f, cells, lenient, k + 1)
      BY <3>1, <3>2
    <3> DEFINE g == [offset \in k .. N |-> IF offset = k THEN Rest(f, cells, lenient, k) ELSE f[offset]]
    <3>4. DOMAIN g = k .. N /\ g = [offset \in k .. N |-> g[offset]]
      OBVIOUS
    <3>5. g[k] = Rest(f, cells, lenient, k) /\ \A r \in k + 1 .. N : r \in k .. N /\ g[r] = f[r]
      BY <2>3
    <3> HIDE DEF g
    <3>6. ASSUME NEW offset \in k .. N PROVE g[offset] = Rest(g, cells, lenient, offset)
      <4>1. offset \in 0 .. N
        BY <2>3
      <4>2. \A r \in offset + 1 .. N : r \in k + 1 .. N
        BY <2>3
      <4>3. \A r \in offset + 1 .. N : f[r] = g[r]
        BY <3>5, <4>2
      <4>4. Rest(f, cells, lenient, offset) = Rest(g, cells, lenient, offset)
        BY <4>1, <4>3, RestDepends
      <4>5. CASE offset = k
        BY <3>5, <4>4, <4>5
      <4>6. CASE offset # k
        BY <2>3, <4>6, <3>3, <3>5, <4>4 DEF RestFrom
      <4> QED BY <4>5, <4>6
    <3>7. RestFrom(g, cells, lenient, k)
      BY <3>4, <3>6 DEF RestFrom
    <3> QED BY <2>2, <3>7
  <2> QED BY <2>4, <2>5
<1> QED BY <1>2, <1>3

\* The table that Init makes, section by section.
LEMMA ParsedIs ==
    ASSUME NEW cells \in Seq(Cells), NEW lenient
    PROVE  \E f : /\ RestFrom(f, cells, lenient, 0)
                  /\ Parsed(cells, lenient) = IF FrameCapture \in ToSet(f[1].sections) THEN f[1]
                                              ELSE [f[1] EXCEPT !.error = Failed]
<1> DEFINE eq(f) == f = [offset \in 0 .. Len(cells) |-> Rest(f, cells, lenient, offset)]
           table == CHOOSE f : eq(f)
<1>1. PICK f : RestFrom(f, cells, lenient, 0)
  BY RestExists
<1>2. eq(f)
  BY <1>1 DEF RestFrom
<1>3. eq(table)
  BY <1>2
<1>4. RestFrom(table, cells, lenient, 0)
  BY <1>3 DEF RestFrom
<1>5. Parsed(cells, lenient) = IF FrameCapture \in ToSet(table[1].sections) THEN table[1]
                               ELSE [table[1] EXCEPT !.error = Failed]
  BY DEF Parsed, Rest
<1> HIDE DEF table
<1> QED BY <1>4, <1>5

\* The rows of a table: sections of which the first starts at an offset, if there
\* is one, and no other before it.
Rows(t, offset) ==
    /\ t = [error |-> t.error, sections |-> t.sections, locations |-> t.locations]
    /\ t.error \in {Ok, Failed}
    /\ t.sections \in Seq(SectionNames) /\ t.locations \in Seq(Locations)
    /\ Len(t.sections) = Len(t.locations)
    /\ \A i \in 1 .. Len(t.locations) : t.locations[i].headerOffset >= offset
    /\ Len(t.locations) > 0 => t.locations[1].headerOffset = offset

\* A row and the rest of the rows.
Joined(all, name, loc, t) ==
    all = [error |-> t.error, sections |-> <<name>> \o t.sections, locations |-> <<loc>> \o t.locations]

LEMMA OneRow ==
    ASSUME NEW loc \in Locations, NEW name \in SectionNames, NEW err \in {Ok, Failed}
    PROVE  Rows([error |-> err, sections |-> <<name>>, locations |-> <<loc>>], loc.headerOffset)
BY LocationsAre DEF Rows

LEMMA MoreRows ==
    ASSUME NEW loc \in Locations, NEW name \in SectionNames, NEW t, NEW from \in Nat,
           Rows(t, from), loc.headerOffset <= from,
           NEW all, Joined(all, name, loc, t)
    PROVE  /\ Rows(all, loc.headerOffset)
           /\ Len(all.sections) > 0 /\ all.sections[1] = name
           /\ \A i \in 2 .. Len(all.locations) : all.locations[i].headerOffset >= from
<1> DEFINE S == <<name>> \o t.sections  L == <<loc>> \o t.locations
<1>1. /\ t.sections \in Seq(SectionNames) /\ t.locations \in Seq(Locations)
      /\ Len(t.sections) = Len(t.locations) /\ t.error \in {Ok, Failed} /\ Len(t.locations) \in Nat
      /\ \A i \in 1 .. Len(t.locations) : t.locations[i].headerOffset >= from
  BY DEF Rows
<1>2. /\ <<name>> \in Seq(SectionNames) /\ <<loc>> \in Seq(Locations)
      /\ Len(<<name>>) = 1 /\ Len(<<loc>>) = 1 /\ <<loc>>[1] = loc /\ <<name>>[1] = name
  OBVIOUS
<1>3. /\ S \in Seq(SectionNames) /\ Len(S) = 1 + Len(t.sections)
      /\ \A i \in 1 .. 1 + Len(t.sections) : S[i] = IF i <= 1 THEN <<name>>[i] ELSE t.sections[i - 1]
  BY <1>1, <1>2, ConcatProperties
<1>4. /\ L \in Seq(Locations) /\ Len(L) = 1 + Len(t.locations)
      /\ \A i \in 1 .. 1 + Len(t.locations) : L[i] = IF i <= 1 THEN <<loc>>[i] ELSE t.locations[i - 1]
  BY <1>1, <1>2, ConcatProperties
<1> HIDE DEF S, L
<1>5. S[1] = name /\ L[1] = loc
  BY <1>1, <1>2, <1>3, <1>4
<1>6. ASSUME NEW i \in 2 .. Len(L) PROVE L[i].headerOffset >= from
  <2>1. i \in 1 .. 1 + Len(t.locations) /\ ~(i <= 1) /\ i - 1 \in 1 .. Len(t.locations)
    BY <1>1, <1>4
  <2>2. L[i] = t.locations[i - 1] /\ t.locations[i - 1].headerOffset >= from
    BY <1>1, <1>4, <2>1
  <2> QED BY <2>2
<1>7. loc.headerOffset \in Nat /\ \A i \in 1 .. Len(L) : L[i].headerOffset \in Nat
  <2>1. \A i \in 1 .. Len(L) : L[i] \in Locations
    BY <1>4
  <2> QED BY <2>1, LocationsAre
<1>8. ASSUME NEW i \in 1 .. Len(L) PROVE L[i].headerOffset >= loc.headerOffset
  <2>1. CASE i = 1
    BY <1>5, <1>7, <2>1
  <2>2. CASE i # 1
    BY <1>1, <1>4, <2>2, <1>6, <1>7
  <2> QED BY <2>1, <2>2
<1>9. Len(S) > 0 /\ Len(S) = Len(L)
  BY <1>1, <1>3, <1>4
<1>10. Rows([error |-> t.error, sections |-> S, locations |-> L], loc.headerOffset)
  BY <1>1, <1>3, <1>4, <1>5, <1>8, <1>9 DEF Rows
<1> QED BY <1>5, <1>6, <1>9, <1>10 DEF S, L, Joined

\* What holds of the rows of a table, from any offset on.
LEMMA RowsAre ==
    ASSUME NEW cells \in Seq(Cells), NEW lenient \in BOOLEAN, NEW f, RestFrom(f, cells, lenient, 0)
    PROVE  \A offset \in 0 .. Len(cells) : Rows(f[offset], offset)
<1> DEFINE N == Len(cells)
           T == {d \in 0 .. N : ~Rows(f[N - d], N - d)}
<1>1. N \in Nat /\ T \in SUBSET Nat
  OBVIOUS
<1>2. CASE T = {}
  <2>1. ASSUME NEW offset \in 0 .. N PROVE Rows(f[offset], offset)
    <3>1. N - offset \in 0 .. N /\ N - (N - offset) = offset
      BY <1>1
    <3>2. Rows(f[N - (N - offset)], N - (N - offset))
      BY <1>2, <3>1
    <3> QED BY <3>1, <3>2
  <2> QED BY <2>1
<1>3. CASE T # {}
  <2>1. PICK d \in T : \A m \in T : d <= m
    BY <1>1, <1>3, LeastNatural
  <2>2. d \in 0 .. N /\ ~Rows(f[N - d], N - d)
    OBVIOUS
  <2> DEFINE k == N - d  header == cells[k + 1]  data == k + SizeOf(header.kind, header.name)
             here == [headerOffset |-> k, dataOffset |-> data, diskLength |-> header.n]
  <2>3. k \in 0 .. N /\ k \in Nat
    BY <1>1, <2>2
  <2>4. f[k] = Rest(f, cells, lenient, k)
    BY <2>3 DEF RestFrom
  <2>5. CASE k = N \/ header.kind \notin {"binary", "text"} \/ data > N
    <3>1. f[k] = NoTable(Ok) \/ f[k] = NoTable(Failed)
      BY <2>4, <2>5 DEF Rest, NoTable
    <3>2. \A e \in {Ok, Failed} : Rows(NoTable(e), k)
      BY EmptySeq DEF Rows, NoTable
    <3> QED BY <2>2, <3>1, <3>2
  <2>6. CASE ~(k = N \/ header.kind \notin {"binary", "text"} \/ data > N)
    <3>1. header.name \in SectionNames /\ header.n \in Nat /\ SizeOf(header.kind, header.name) \in Nat \ {0}
      BY <2>3, <2>6, SectionAt
    <3>2. data \in Nat /\ k < data
      BY <2>3, <3>1
    <3>3. here \in Locations /\ here.headerOffset = k
      BY <2>3, <3>1, <3>2 DEF Locations
    <3>4. CASE data + header.n > N
      <4>1. f[k] = [error |-> IF lenient THEN Ok ELSE Failed, sections |-> <<header.name>>,
                    locations |-> <<here>>]
        BY <2>4, <2>6, <3>4 DEF Rest
      <4>2. (IF lenient THEN Ok ELSE Failed) \in {Ok, Failed}
        OBVIOUS
      <4> HIDE DEF header, here, data, k
      <4> QED BY <2>2, <3>1, <3>3, <4>1, <4>2, OneRow DEF k
    <3>5. CASE ~(data + header.n > N)
      <4> DEFINE r == data + header.n
      <4>1. f[k] = [error |-> f[r].error, sections |-> <<header.name>> \o f[r].sections,
                    locations |-> <<here>> \o f[r].locations]
        BY <2>4, <2>6, <3>5 DEF Rest
      <4>2. r \in Nat /\ k < r /\ r <= N
        <5> HIDE DEF header, k, data
        <5> QED BY <1>1, <2>3, <3>1, <3>2, <3>5
      <4>3. N - r \in 0 .. N /\ ~(d <= N - r) /\ N - (N - r) = r
        BY <1>1, <2>2, <4>2
      <4>4. Rows(f[r], r)
        <5>1. N - r \notin T
          BY <2>1, <4>3
        <5>2. Rows(f[N - (N - r)], N - (N - r))
          BY <4>3, <5>1
        <5> HIDE DEF r
        <5> QED BY <4>3, <5>2
      <4> HIDE DEF header, here, data, k, r
      <4>5. Rows(f[k], here.headerOffset)
        <5>1. here.headerOffset <= r
          BY <2>3, <3>3, <4>2
        <5>2. Joined(f[k], header.name, here, f[r])
          BY <4>1 DEF Joined
        <5> QED BY <3>1, <3>3, <4>2, <4>4, <5>1, <5>2, MoreRows
      <4> QED BY <2>2, <3>3, <4>5 DEF k
    <3> QED BY <3>4, <3>5
  <2> QED BY <2>5, <2>6
<1> QED BY <1>2, <1>3

\* The table that is read from a file has a frame capture if it is one at all, and
\* that is the first section when it is the first thing in the file.
LEMMA ParsedTable ==
    ASSUME NEW cells \in Seq(Cells), Len(cells) > 0, NEW lenient \in BOOLEAN,
           NEW t, t = Parsed(cells, lenient)
    PROVE  /\ t.error \in {Ok, Failed}
           /\ t.sections \in Seq(SectionNames) /\ t.locations \in Seq(Locations)
           /\ Len(t.sections) = Len(t.locations)
           /\ t.error = Ok => t.sections # <<>> /\ \E i \in 1 .. Len(t.sections) : t.sections[i] = FrameCapture
           /\ t.sections # <<>> => t.locations[1].headerOffset = 1
           /\ Len(cells) = 1 => t.error = Failed
<1>1. PICK f : /\ RestFrom(f, cells, lenient, 0)
               /\ Parsed(cells, lenient) = IF FrameCapture \in ToSet(f[1].sections) THEN f[1]
                                           ELSE [f[1] EXCEPT !.error = Failed]
  BY ParsedIs
<1> DEFINE all == f[1]
<1>2. 1 \in 0 .. Len(cells)
  OBVIOUS
<1>3. Rows(all, 1)
  BY <1>1, <1>2, RowsAre
<1>4. all = Rest(f, cells, lenient, 1)
  BY <1>1, <1>2 DEF RestFrom
<1>5. t = IF FrameCapture \in ToSet(all.sections) THEN all ELSE [all EXCEPT !.error = Failed]
  BY <1>1
<1> HIDE DEF all
<1>6. t.sections = all.sections /\ t.locations = all.locations /\ t.error \in {Ok, Failed}
      /\ (t.error = Ok => FrameCapture \in ToSet(all.sections))
  <2>1. all = [error |-> all.error, sections |-> all.sections, locations |-> all.locations]
        /\ all.error \in {Ok, Failed}
    BY <1>3 DEF Rows
  <2>2. CASE FrameCapture \in ToSet(all.sections)
    BY <1>5, <2>1, <2>2
  <2>3. CASE FrameCapture \notin ToSet(all.sections)
    BY <1>5, <2>1, <2>3 DEF Ok, Failed
  <2> QED BY <2>2, <2>3
<1>7. /\ all.sections \in Seq(SectionNames) /\ all.locations \in Seq(Locations)
      /\ Len(all.sections) = Len(all.locations)
      /\ Len(all.locations) > 0 => all.locations[1].headerOffset = 1
  BY <1>3 DEF Rows
<1>8. FrameCapture \in ToSet(all.sections) =>
        all.sections # <<>> /\ \E i \in 1 .. Len(all.sections) : all.sections[i] = FrameCapture
  BY <1>7, EmptySeq DEF ToSet
<1>9. all.sections # <<>> => Len(all.locations) > 0
  BY <1>7, EmptySeq
<1>10. ASSUME Len(cells) = 1 PROVE t.error = Failed
  BY <1>4, <1>10, <1>6, <1>8 DEF Rest
<1> QED BY <1>6, <1>7, <1>8, <1>9, <1>10

LEMMA HeaderInFront ==
    ASSUME NEW cells \in Seq(Cells), NEW w \in Write, InFront(cells, w)
    PROVE  /\ cells[2] = Cell("binary", FrameCapture, 0, w.length)
           /\ HeaderSize[FrameCapture] \in Nat \ {0} /\ FrontEnd(w) \in Nat
           /\ FrontEnd(w) > 1 + HeaderSize[FrameCapture] - 1 /\ FrontEnd(w) <= Len(cells)
<1>1. FrameCapture \in SectionNames /\ w.length \in Nat
  BY DEF SectionNames, Write
<1>2. HeaderSize[FrameCapture] \in Nat \ {0} /\ SizeOf("binary", FrameCapture) = HeaderSize[FrameCapture]
  BY <1>1, SizesAre, SizeOfHeaders
<1>3. Header("binary", FrameCapture, w.length)[1] = Cell("binary", FrameCapture, 0, w.length)
  BY <1>1, HeaderCells
<1>4. 1 \in 1 .. HeaderSize[FrameCapture]
  BY <1>2
<1>5. cells[1 + 1] = Header("binary", FrameCapture, w.length)[1]
  BY <1>4 DEF InFront
<1> QED BY <1>1, <1>2, <1>3, <1>5 DEF InFront, FrontEnd

\* When the frame capture is in the front of a file, Init finds it first.
LEMMA ParsedFront ==
    ASSUME NEW cells \in Seq(Cells), NEW lenient \in BOOLEAN, NEW w \in Write, InFront(cells, w),
           NEW t, t = Parsed(cells, lenient)
    PROVE  /\ t.sections # <<>> /\ t.sections[1] = FrameCapture
           /\ \A i \in 2 .. Len(t.sections) : t.locations[i].headerOffset >= FrontEnd(w)
<1>1. PICK f : /\ RestFrom(f, cells, lenient, 0)
               /\ Parsed(cells, lenient) = IF FrameCapture \in ToSet(f[1].sections) THEN f[1]
                                           ELSE [f[1] EXCEPT !.error = Failed]
  BY ParsedIs
<1> DEFINE h == HeaderSize[FrameCapture]  r == FrontEnd(w)
           here == [headerOffset |-> 1, dataOffset |-> 1 + h, diskLength |-> w.length]
<1>2. /\ cells[2] = Cell("binary", FrameCapture, 0, w.length)
      /\ h \in Nat \ {0} /\ r \in Nat /\ r <= Len(cells) /\ w.length \in Nat /\ r = 1 + h + w.length
      /\ FrameCapture \in SectionNames
  BY HeaderInFront DEF FrontEnd, Write, SectionNames
<1> HIDE DEF h, r
<1>3. 1 \in 0 .. Len(cells) /\ 1 # Len(cells) /\ r \in 0 .. Len(cells) /\ 1 + h <= Len(cells)
      /\ r = 1 + h + w.length /\ ~(r > Len(cells)) /\ ~(1 + h > Len(cells)) /\ 1 <= r /\ r > 1
  BY <1>2
<1>4. f[1] = Rest(f, cells, lenient, 1)
  BY <1>1, <1>3 DEF RestFrom
<1>5. /\ cells[1 + 1].kind = "binary" /\ cells[1 + 1].name = FrameCapture /\ cells[1 + 1].n = w.length
      /\ SizeOf("binary", FrameCapture) = h
  BY <1>2 DEF Cell, SizeOf, h
<1>6. f[1] = [error |-> f[r].error, sections |-> <<FrameCapture>> \o f[r].sections,
              locations |-> <<here>> \o f[r].locations]
  BY <1>3, <1>4, <1>5 DEF Rest
<1>7. here \in Locations /\ here.headerOffset = 1
  BY <1>2 DEF Locations
<1>8. Rows(f[r], r)
  BY <1>1, <1>3, RowsAre
<1> HIDE DEF here
<1>9. /\ Rows(f[1], here.headerOffset) /\ Len(f[1].sections) > 0 /\ f[1].sections[1] = FrameCapture
      /\ \A i \in 2 .. Len(f[1].locations) : f[1].locations[i].headerOffset >= r
  <2>1. Joined(f[1], FrameCapture, here, f[r])
    BY <1>6 DEF Joined
  <2>2. here.headerOffset <= r
    BY <1>2, <1>3, <1>7
  <2>3. here.headerOffset \in Nat /\ r \in Nat
    BY <1>2, <1>7
  <2>4. FrameCapture \in SectionNames /\ here \in Locations
    BY <1>2, <1>7
  <2> QED BY <1>8, <2>1, <2>2, <2>3, <2>4, MoreRows
<1>10. /\ f[1].sections \in Seq(SectionNames) /\ Len(f[1].sections) = Len(f[1].locations)
  BY <1>9 DEF Rows
<1>11. FrameCapture \in ToSet(f[1].sections)
  BY <1>9, <1>10 DEF ToSet
<1>12. t = f[1]
  BY <1>1, <1>11
<1> QED BY <1>9, <1>10, <1>12, EmptySeq DEF r

\* The sections that follow one another through all of a file are its table.
LEMMA ParsedLayout ==
    ASSUME NEW cells \in Seq(Cells), NEW secs, NEW locs, NEW writes,
           AllWhole(cells, secs, locs, writes), secs # <<>>, NEW lenient \in BOOLEAN
    PROVE  Parsed(cells, lenient) = [error |-> Ok, sections |-> secs, locations |-> locs]
<1> DEFINE N == Len(locs)  end == Len(cells)
<1>1. PICK f : /\ RestFrom(f, cells, lenient, 0)
               /\ Parsed(cells, lenient) = IF FrameCapture \in ToSet(f[1].sections) THEN f[1]
                                           ELSE [f[1] EXCEPT !.error = Failed]
  BY ParsedIs
<1>2. Layout(cells, secs, locs, end) /\ Recorded(cells, secs, locs, writes)
  BY DEF AllWhole, Whole
<1>3. /\ locs \in Seq(Locations) /\ secs \in Seq(SectionNames) /\ N \in Nat /\ Len(secs) = N
      /\ end \in Nat /\ N > 0 /\ StartOf(locs, 1, end) = 1
  BY <1>2, EmptySeq DEF Layout
<1> DEFINE from(k) == [error |-> Ok, sections |-> SubSeq(secs, k, N), locations |-> SubSeq(locs, k, N)]
           T == {d \in 0 .. N : f[StartOf(locs, N + 1 - d, end)] # from(N + 1 - d)}
<1>4. T = {}
  <2>1. CASE T # {}
    <3>1. PICK d \in T : \A m \in T : d <= m
      <4>1. T \in SUBSET Nat
        BY <1>3
      <4> HIDE DEF T
      <4> QED BY <2>1, <4>1, LeastNatural
    <3>2. d \in 0 .. N /\ f[StartOf(locs, N + 1 - d, end)] # from(N + 1 - d)
      OBVIOUS
    <3>3. CASE d = 0
      <4>1. N + 1 - d = N + 1 /\ ~(N + 1 <= N) /\ N < N + 1 /\ N \in Int /\ N + 1 \in Int
        BY <1>3, <3>3
      <4>2. StartOf(locs, N + 1 - d, end) = end
        BY <4>1 DEF StartOf
      <4>3. end \in 0 .. Len(cells)
        BY <1>3
      <4>4. f[end] = Rest(f, cells, lenient, end)
        BY <1>1, <4>3 DEF RestFrom
      <4>5. f[end] = [error |-> Ok, sections |-> <<>>, locations |-> <<>>]
        BY <4>4 DEF Rest
      <4>6. SubSeq(secs, N + 1, N) = <<>> /\ SubSeq(locs, N + 1, N) = <<>>
        BY <4>1, SubSeqEmpty
      <4> HIDE DEF N, end
      <4> QED BY <3>2, <4>1, <4>2, <4>5, <4>6
    <3>4. CASE d # 0
      <4> DEFINE k == N + 1 - d
      <4>1. k \in 1 .. N /\ d - 1 \in 0 .. N /\ ~(d <= d - 1) /\ N + 1 - (d - 1) = k + 1 /\ k + 1 \in 1 .. N + 1
        BY <1>3, <3>2, <3>4
      <4>2. d - 1 \notin T
        BY <3>1, <4>1
      <4>3. f[StartOf(locs, k + 1, end)] = from(k + 1)
        BY <4>1, <4>2
      <4> HIDE DEF k, T
      <4> DEFINE o == locs[k]
      <4>4. StartOf(locs, k, end) = o.headerOffset
        BY <4>1 DEF StartOf
      <4>5. /\ o \in Locations /\ secs[k] \in SectionNames /\ o.headerOffset \in 1 .. end
            /\ o.dataOffset \in 1 .. end /\ EndOf(o) \in 1 .. end /\ o.diskLength \in Nat
            /\ o.headerOffset < o.dataOffset /\ o.dataOffset <= EndOf(o)
        BY <1>2, <1>3, <4>1, SectionsInside
      <4>6. Section(cells, o, secs[k]) /\ EndOf(o) = StartOf(locs, k + 1, end)
        BY <1>2, <4>1 DEF Layout
      <4> HIDE DEF o, end
      <4> DEFINE header == cells[o.headerOffset + 1]
      <4>7. /\ header.kind \in {"binary", "text"} /\ header.name = secs[k] /\ header.n = o.diskLength
            /\ o.dataOffset = o.headerOffset + SizeOf(header.kind, header.name)
        BY <4>6 DEF Section
      <4>8. /\ o.headerOffset \in 0 .. Len(cells) /\ o.headerOffset # Len(cells)
            /\ ~(o.dataOffset > Len(cells)) /\ ~(EndOf(o) > Len(cells))
            /\ EndOf(o) = o.dataOffset + o.diskLength
        BY <1>3, <4>5 DEF end, EndOf
      <4>9. f[o.headerOffset] = Rest(f, cells, lenient, o.headerOffset)
        BY <1>1, <4>8 DEF RestFrom
      <4>10. o = [headerOffset |-> o.headerOffset, dataOffset |-> o.dataOffset, diskLength |-> o.diskLength]
        BY <4>5, LocationsAre
      <4> DEFINE r == EndOf(o)
      <4>11. f[o.headerOffset] = [error |-> f[r].error, sections |-> <<secs[k]>> \o f[r].sections,
                                  locations |-> <<o>> \o f[r].locations]
        BY <4>7, <4>8, <4>9, <4>10 DEF Rest
      <4>12. f[r] = from(k + 1)
        BY <4>3, <4>6
      <4>13. SubSeq(secs, k, N) = <<secs[k]>> \o SubSeq(secs, k + 1, N)
        BY <1>3, <4>1, SubSeqRecursiveFirst
      <4>14. SubSeq(locs, k, N) = <<o>> \o SubSeq(locs, k + 1, N)
        BY <1>3, <4>1, SubSeqRecursiveFirst DEF o
      <4>15. f[o.headerOffset] = from(k)
        BY <4>11, <4>12, <4>13, <4>14
      <4> QED BY <3>2, <4>4, <4>15 DEF k
    <3> QED BY <3>3, <3>4
  <2> QED BY <2>1
<1>5. f[1] = from(1)
  <2>1. N \in 0 .. N /\ N + 1 - N = 1
    BY <1>3
  <2>2. f[StartOf(locs, N + 1 - N, end)] = from(N + 1 - N)
    BY <1>4, <2>1
  <2> HIDE DEF from, N, end
  <2> QED BY <1>3, <2>1, <2>2
<1>6. f[1] = [error |-> Ok, sections |-> secs, locations |-> locs]
  BY <1>3, <1>5, SubSeqFull
<1>7. FrameCapture \in ToSet(secs)
  BY <1>2, <1>3 DEF Recorded, ToSet
<1> QED BY <1>1, <1>6, <1>7

-----------------------------------------------------------------------------
(* What the invariant says of the properties.                              *)

\* Writing behind the frame capture does not change it.
LEMMA FrontKept ==
    ASSUME NEW cells \in Seq(Cells), NEW w \in Write, InFront(cells, w),
           NEW new \in Seq(Cells), FrontEnd(w) <= Len(new),
           \A x \in 1 .. FrontEnd(w) : new[x] = cells[x]
    PROVE  InFront(new, w)
<1> DEFINE h == HeaderSize[FrameCapture]
<1>1. h \in Nat \ {0} /\ w.length \in Nat /\ FrontEnd(w) = 1 + h + w.length
  BY HeaderInFront DEF Write, FrontEnd
<1> HIDE DEF h
<1>2. ASSUME NEW x \in 1 .. h PROVE new[1 + x] = cells[1 + x]
  BY <1>1
<1>3. ASSUME NEW n \in 1 .. w.length PROVE new[1 + h + n] = cells[1 + h + n]
  BY <1>1
<1> QED BY <1>2, <1>3 DEF InFront, DataAt, h

\* A frame capture in front is what FrameCaptureStays reads there.
LEMMA FrontRead ==
    ASSUME NEW cells \in Seq(Cells), NEW w \in Write, InFront(cells, w),
           NEW section,
           section = Header("binary", FrameCapture, w.length) \o DataCells(w.write, w.length)
    PROVE  Read(cells, 1, Len(section)) = section
<1> DEFINE h == HeaderSize[FrameCapture]
           a == Header("binary", FrameCapture, w.length)  b == DataCells(w.write, w.length)
<1>1. /\ h \in Nat \ {0} /\ w.length \in Nat /\ w.write \in Nat /\ FrontEnd(w) = 1 + h + w.length
      /\ FrameCapture \in SectionNames /\ FrontEnd(w) <= Len(cells)
  BY HeaderInFront DEF Write, FrontEnd, SectionNames
<1>2. a \in Seq(Cells) /\ Len(a) = h
  BY <1>1, HeaderCells, SizeOfHeaders
<1>3. /\ b \in Seq(Cells) /\ Len(b) = w.length
      /\ \A i \in 1 .. w.length : b[i] = Cell("data", NoSection, w.write, i)
  BY <1>1, DataCellsAre
<1>4. /\ \A x \in 1 .. h : cells[1 + x] = a[x]
      /\ \A n \in 1 .. w.length : cells[1 + h + n] = Cell("data", NoSection, w.write, n)
  BY DEF InFront, DataAt
<1> HIDE DEF a, b, h
<1>5. /\ section \in Seq(Cells) /\ Len(section) = h + w.length
      /\ \A i \in 1 .. h + w.length : section[i] = IF i <= h THEN a[i] ELSE b[i - h]
  <2>1. section = a \o b
    BY DEF a, b
  <2>2. /\ a \o b \in Seq(Cells) /\ Len(a \o b) = Len(a) + Len(b)
        /\ \A i \in 1 .. Len(a) + Len(b) : (a \o b)[i] = IF i <= Len(a) THEN a[i] ELSE b[i - Len(a)]
    BY <1>2, <1>3, ConcatProperties
  <2> QED BY <1>2, <1>3, <2>1, <2>2
<1>6. /\ Read(cells, 1, h + w.length) \in Seq(Cells)
      /\ Len(Read(cells, 1, h + w.length)) = h + w.length
      /\ \A i \in 1 .. h + w.length : Read(cells, 1, h + w.length)[i] = cells[1 + i]
  <2>1. h + w.length \in Nat /\ 1 \in Nat /\ 1 + (h + w.length) <= Len(cells)
    BY <1>1
  <2> QED BY <2>1, ReadCells
<1>7. ASSUME NEW i \in 1 .. h + w.length PROVE cells[1 + i] = section[i]
  <2>1. CASE i <= h
    BY <1>1, <2>1, <1>4, <1>5
  <2>2. CASE ~(i <= h)
    <3>1. i - h \in 1 .. w.length /\ 1 + h + (i - h) = 1 + i
      BY <1>1, <2>2
    <3>2. cells[1 + h + (i - h)] = Cell("data", NoSection, w.write, i - h)
      BY <1>4, <3>1
    <3> QED BY <1>3, <1>5, <2>2, <3>1, <3>2
  <2> QED BY <2>1, <2>2
<1>8. \A i \in 1 .. Len(section) : Read(cells, 1, h + w.length)[i] = section[i]
  BY <1>5, <1>6, <1>7
<1> QED BY <1>5, <1>6, <1>8, SeqEqual

\* The frame capture in the front is what a reader finds there.
LEMMA InvFrameCaptureStays == SectionsInv => FrameCaptureStays
BY FrontRead DEF FrameCaptureStays, SectionsInv, Types, Fronts

\* A whole file has every write, where Has reads it.
LEMMA WholeHas ==
    ASSUME NEW cells \in Seq(Cells), NEW secs, NEW locs, NEW writes,
           AllWhole(cells, secs, locs, writes), NEW i \in 1 .. Len(secs),
           writes[secs[i]] \in Write
    PROVE  Has(cells, locs[i], writes[secs[i]])
<1> DEFINE loc == locs[i]  w == writes[secs[i]]
<1>1. Layout(cells, secs, locs, Len(cells)) /\ Recorded(cells, secs, locs, writes)
  BY DEF AllWhole, Whole
<1>2. i \in 1 .. Len(locs) /\ Len(cells) \in Nat
  BY <1>1 DEF Layout
<1>3. /\ loc.dataOffset \in 1 .. Len(cells) /\ EndOf(loc) \in 1 .. Len(cells)
      /\ loc.diskLength \in Nat /\ EndOf(loc) = loc.dataOffset + loc.diskLength
  BY <1>1, <1>2, SectionsInside DEF EndOf
<1>4. loc.diskLength = w.length /\ DataAt(cells, loc.dataOffset, loc.diskLength, w.write) /\ w.write \in Nat
  BY <1>1 DEF Recorded, Write
<1> HIDE DEF loc, w
<1>5. /\ Read(cells, loc.dataOffset, w.length) \in Seq(Cells)
      /\ Len(Read(cells, loc.dataOffset, w.length)) = w.length
      /\ \A n \in 1 .. w.length : Read(cells, loc.dataOffset, w.length)[n] = cells[loc.dataOffset + n]
  <2>1. loc.dataOffset \in Nat /\ w.length \in Nat /\ loc.dataOffset + w.length <= Len(cells)
    BY <1>2, <1>3, <1>4
  <2> QED BY <2>1, ReadCells
<1>6. /\ DataCells(w.write, w.length) \in Seq(Cells) /\ Len(DataCells(w.write, w.length)) = w.length
      /\ \A n \in 1 .. w.length : DataCells(w.write, w.length)[n] = Cell("data", NoSection, w.write, n)
  BY <1>3, <1>4, DataCellsAre
<1>7. \A n \in 1 .. w.length :
        Read(cells, loc.dataOffset, w.length)[n] = DataCells(w.write, w.length)[n]
  BY <1>4, <1>5, <1>6 DEF DataAt
<1>8. Read(cells, loc.dataOffset, w.length) = DataCells(w.write, w.length)
  BY <1>5, <1>6, <1>7, SeqEqual
<1> QED BY <1>4, <1>8 DEF Has, loc, w

LEMMA NoneWritten ==
    ASSUME NEW writes, writes \in [DOMAIN writes -> Write], DOMAIN writes = {}
    PROVE  writes = NoWrites
BY DEF NoWrites

LEMMA TableRows ==
    ASSUME NEW table, NEW err, NEW s, NEW l, table = [error |-> err, sections |-> s, locations |-> l]
    PROVE  table.error = err /\ table.sections = s /\ table.locations = l
OBVIOUS

\* A whole file is parsed to the table that it was written with.
LEMMA InvTableOnDisk == SectionsInv => TableOnDisk
<1> SUFFICES ASSUME Types, Intact, NEW path \in intact, ~Busy(path), contents[path] # NoWrites,
                    NEW table, table = Parsed(disk[path], FALSE)
             PROVE  /\ table.error = Ok /\ table.sections[1] = FrameCapture
                    /\ IsInjective(table.sections) /\ ToSet(table.sections) = DOMAIN contents[path]
                    /\ \A i \in DOMAIN table.sections :
                         Has(disk[path], table.locations[i], contents[path][table.sections[i]])
                    /\ m_Filename = path /\ fileError = Ok =>
                         m_Sections = table.sections /\ m_SectionLocations = table.locations
  BY DEF TableOnDisk, SectionsInv
<1> DEFINE cells == disk[path]  writes == contents[path]
<1>1. /\ path \in Paths /\ cells \in Seq(Cells) /\ writes \in [DOMAIN writes -> Write]
  BY DEF Types
<1>2. Untouched(path)
  BY DEF Busy, IsBusy, Intact
<1>3. PICK secs, locs : AllWhole(cells, secs, locs, writes)
  BY <1>2 DEF Untouched
<1> HIDE DEF cells, writes
<1>4. ASSUME NEW s, NEW l, AllWhole(cells, s, l, writes)
      PROVE  s # <<>> /\ table = [error |-> Ok, sections |-> s, locations |-> l]
  <2>1. Recorded(cells, s, l, writes) /\ s \in Seq(SectionNames)
    BY <1>4 DEF AllWhole, Whole, Layout
  <2>2. s # <<>>
    <3>1. CASE s = <<>>
      <4>1. DOMAIN writes = {s[i] : i \in 1 .. Len(s)} /\ 1 .. Len(s) = {}
        BY <2>1, <3>1, EmptySeq DEF Recorded
      <4>2. DOMAIN writes = {}
        BY <4>1
      <4> QED BY <1>1, <4>2, NoneWritten DEF writes
    <3> QED BY <3>1
  <2> QED BY <1>1, <1>4, <2>2, ParsedLayout DEF cells
<1>5. secs # <<>> /\ table.error = Ok /\ table.sections = secs /\ table.locations = locs
  <2>1. secs # <<>> /\ table = [error |-> Ok, sections |-> secs, locations |-> locs]
    BY <1>3, <1>4
  <2> QED BY <2>1, TableRows
<1>6. Recorded(cells, secs, locs, writes) /\ secs \in Seq(SectionNames)
  BY <1>3 DEF AllWhole, Whole, Layout
<1>7. DOMAIN secs = 1 .. Len(secs) /\ Len(secs) > 0
  BY <1>5, <1>6, EmptySeq
<1>8. IsInjective(secs) /\ ToSet(secs) = DOMAIN writes
  BY <1>6, <1>7 DEF Recorded, IsInjective, ToSet
<1>9. ASSUME NEW i \in DOMAIN secs PROVE Has(cells, locs[i], writes[secs[i]])
  BY <1>6, <1>7, <1>1, <1>3, WholeHas DEF Recorded
<1>10. ASSUME m_Filename = path, fileError = Ok
       PROVE  m_Sections = secs /\ m_SectionLocations = locs
  <2>1. AllWhole(cells, m_Sections, m_SectionLocations, writes)
    BY <1>2, <1>10 DEF Untouched, cells, writes
  <2>2. table = [error |-> Ok, sections |-> m_Sections, locations |-> m_SectionLocations]
    BY <1>4, <2>1
  <2>3. table.sections = m_Sections /\ table.locations = m_SectionLocations
    BY <2>2, TableRows
  <2> QED BY <1>5, <2>3
<1>11. secs[1] = FrameCapture
  BY <1>6, <1>7 DEF Recorded
<1> QED BY <1>5, <1>8, <1>9, <1>10, <1>11 DEF cells, writes

\* A file that was just created has nothing but its header.
LEMMA InitSections == SectionsInit => SectionsInv
<1> SUFFICES ASSUME SectionsInit PROVE SectionsInv
  OBVIOUS
<1>1. /\ m_Filename \in Paths /\ m_Filename # TempPath
      /\ disk = [p \in Paths |-> IF p = m_Filename THEN <<FileHeader>> ELSE <<>>]
      /\ fileError = Ok /\ m_Sections = <<>> /\ m_SectionLocations = <<>>
      /\ m_CurrentWritingProps = NoSection /\ closing = NoClosing
      /\ sections = 0 /\ texts = 0
      /\ contents = [p \in Paths |-> NoWrites] /\ intact = {m_Filename}
  BY DEF SectionsInit
<1>2. <<FileHeader>> \in Seq(Cells) /\ Len(<<FileHeader>>) = 1 /\ <<>> \in Seq(Cells)
  BY JunkIsCell
<1>3. DOMAIN NoWrites = {} /\ NoWrites \in [DOMAIN NoWrites -> Write]
  BY DEF NoWrites
<1>4. /\ <<>> \in Seq(SectionNames) /\ <<>> \in Seq(Locations) /\ Len(<<>>) = 0 /\ 1 .. 0 = {}
  BY EmptySeq
<1>5. NoClosing \in Closing
  BY DEF NoClosing, Closing
<1>6. Types
  BY <1>1, <1>2, <1>3, <1>4, <1>5 DEF Types
<1>7. Fronts
  BY <1>1, <1>3 DEF Fronts
<1>8. Table
  BY <1>1, <1>2, <1>3 DEF Table, TableFits, Writes, openFile
<1>9. ~IsBusy
  BY <1>1 DEF IsBusy
<1>10. AllWhole(<<FileHeader>>, <<>>, <<>>, NoWrites)
  <2>1. Layout(<<FileHeader>>, <<>>, <<>>, 1)
    BY <1>2, <1>4 DEF Layout, StartOf
  <2>2. Recorded(<<FileHeader>>, <<>>, <<>>, NoWrites)
    BY <1>3, <1>4 DEF Recorded
  <2> QED BY <1>2, <2>1, <2>2 DEF AllWhole, Whole
<1>11. Untouched(m_Filename)
  BY <1>1, <1>10 DEF Untouched
<1>12. Intact
  BY <1>1, <1>9, <1>11 DEF Intact
<1> QED BY <1>6, <1>7, <1>8, <1>9, <1>12 DEF SectionsInv, Writing

-----------------------------------------------------------------------------
(* A section is started.                                                   *)

ClosingFor(offset, name, oldLength) ==
    [headerOffset |-> offset, dataOffset |-> offset + HeaderSize[name], oldLength |-> oldLength,
     length |-> -1, write |-> 0, good |-> TRUE]

\* The outcomes of StartSection, when n of the cells are written in front.
Started(offset, cells, name, oldLength, new) ==
    /\ disk' = [disk EXCEPT ![m_Filename] = Overwrite(openFile, offset, new)]
    /\ \/ /\ m_CurrentWritingProps' = name /\ fileError' = fileError
          /\ \E n \in 0 .. Len(cells) :
               /\ closing' = ClosingFor(offset + n, name, oldLength)
               /\ Len(new) = n + HeaderSize[name]
               /\ \/ /\ n = Len(cells) /\ intact' = intact
                     /\ new = cells \o Header("binary", name, 0)
                  \/ intact' = intact \ {m_Filename}
       \/ /\ m_CurrentWritingProps' = m_CurrentWritingProps /\ closing' = closing
          /\ fileError' = Failed /\ intact' = intact \ {m_Filename}

LEMMA PrefixOfCells ==
    ASSUME NEW cells \in Seq(Cells), NEW n \in 0 .. Len(cells)
    PROVE  SubSeq(cells, 1, n) \in Seq(Cells) /\ Len(SubSeq(cells, 1, n)) = n
BY SubSeqProperties

\* All outcomes of StartSection are among those of Started.
LEMMA StartOutcomes ==
    ASSUME Types, NEW offset \in Nat, NEW cells \in Seq(Cells), NEW name \in SectionNames,
           NEW oldLength \in Nat, StartSection(offset, cells, name, oldLength)
    PROVE  \E new \in Seq(Cells) : Started(offset, cells, name, oldLength, new)
<1> DEFINE header == Header("binary", name, 0)  size == HeaderSize[name]
<1>1. header \in Seq(Cells) /\ Len(header) = size /\ size \in Nat \ {0}
  BY HeaderCells, SizeOfHeaders, SizesAre
<1>2. DOMAIN disk = Paths /\ m_Filename \in Paths
  BY DEF Types
<1>3. Len(cells) \in Nat
  OBVIOUS
<1> HIDE DEF header, size
<1>4. ASSUME NEW front \in Seq(Cells)
      PROVE  /\ front \o header \in Seq(Cells) /\ Len(front \o header) = Len(front) + size
             /\ offset + Len(front \o header) = offset + Len(front) + size
  <2>1. front \o header \in Seq(Cells) /\ Len(front \o header) = Len(front) + Len(header)
    BY <1>1, ConcatProperties
  <2>2. Len(front) \in Nat
    OBVIOUS
  <2> QED BY <1>1, <2>1, <2>2
<1>5. ASSUME NEW front \in Seq(Cells), BeginSection(offset, front, name, oldLength)
      PROVE  /\ disk' = [disk EXCEPT ![m_Filename] = Overwrite(openFile, offset, front \o header)]
             /\ m_CurrentWritingProps' = name
             /\ closing' = ClosingFor(offset + Len(front), name, oldLength)
  <2>1. /\ disk' = [disk EXCEPT ![m_Filename] = Overwrite(openFile, offset, front \o header)]
        /\ m_CurrentWritingProps' = name
        /\ closing' = [NoClosing EXCEPT !.headerOffset = offset + Len(front),
                         !.dataOffset = offset + Len(front \o header), !.oldLength = oldLength]
    BY <1>2, <1>5 DEF BeginSection, openFile, header
  <2>2. closing' = [headerOffset |-> offset + Len(front), dataOffset |-> offset + Len(front \o header),
                    oldLength |-> oldLength, length |-> -1, write |-> 0, good |-> TRUE]
    BY <2>1 DEF NoClosing
  <2> QED BY <1>4, <2>1, <2>2 DEF ClosingFor, size
<1>6. CASE BeginSection(offset, cells, name, oldLength) /\ UNCHANGED <<fileError, sectionFailures, intact>>
  <2> DEFINE new == cells \o header
  <2>1. new \in Seq(Cells) /\ Len(new) = Len(cells) + HeaderSize[name] /\ Len(cells) \in 0 .. Len(cells)
    BY <1>3, <1>4 DEF size
  <2>2. Started(offset, cells, name, oldLength, new)
    BY <1>5, <1>6, <2>1 DEF Started, header
  <2> QED BY <2>1, <2>2
<1>7. ASSUME Fail, UNCHANGED fileError, NEW n \in 0 .. Len(cells) - 1,
             BeginSection(offset, SubSeq(cells, 1, n), name, oldLength)
      PROVE  \E new \in Seq(Cells) : Started(offset, cells, name, oldLength, new)
  <2> DEFINE front == SubSeq(cells, 1, n)  new == front \o header
  <2>1. n \in 0 .. Len(cells)
    BY <1>3
  <2>2. front \in Seq(Cells) /\ Len(front) = n
    BY <2>1, PrefixOfCells
  <2> HIDE DEF front
  <2>3. new \in Seq(Cells) /\ Len(new) = n + HeaderSize[name]
    BY <1>4, <2>2 DEF size
  <2>4. intact' = intact \ {m_Filename}
    BY <1>7 DEF Fail
  <2>5. /\ disk' = [disk EXCEPT ![m_Filename] = Overwrite(openFile, offset, new)]
        /\ m_CurrentWritingProps' = name /\ closing' = ClosingFor(offset + n, name, oldLength)
    BY <1>5, <1>7, <2>2 DEF front
  <2> HIDE DEF new
  <2>6. Started(offset, cells, name, oldLength, new)
    BY <1>7, <2>1, <2>3, <2>4, <2>5 DEF Started
  <2> QED BY <2>3, <2>6
<1>8. ASSUME Fail, fileError' = Failed, NEW n \in 0 .. Len(cells) + HeaderSize[name] - 1,
             disk' = [disk EXCEPT ![m_Filename] = Overwrite(@, offset, SubSeq(cells \o header, 1, n))],
             UNCHANGED <<m_CurrentWritingProps, closing>>
      PROVE  \E new \in Seq(Cells) : Started(offset, cells, name, oldLength, new)
  <2> DEFINE new == SubSeq(cells \o header, 1, n)
  <2>1. cells \o header \in Seq(Cells) /\ n \in 0 .. Len(cells \o header)
    <3>1. cells \o header \in Seq(Cells) /\ Len(cells \o header) = Len(cells) + size
      BY <1>4
    <3>2. n \in 0 .. Len(cells) + size - 1
      BY <1>8 DEF size
    <3> QED BY <1>1, <1>3, <3>1, <3>2
  <2>2. new \in Seq(Cells)
    BY <2>1, PrefixOfCells
  <2>3. intact' = intact \ {m_Filename}
    BY <1>8 DEF Fail
  <2>4. disk' = [disk EXCEPT ![m_Filename] = Overwrite(openFile, offset, new)]
    BY <1>2, <1>8 DEF openFile
  <2> HIDE DEF new
  <2>5. Started(offset, cells, name, oldLength, new)
    BY <1>8, <2>3, <2>4 DEF Started
  <2> QED BY <2>2, <2>5
<1> QED BY <1>6, <1>7, <1>8 DEF StartSection, header

\* Starting a section keeps the invariant, in any of the actions that do so.
LEMMA SectionStarts ==
    ASSUME SectionsInv, ~IsBusy, fileError = Ok,
           NEW offset \in Nat, NEW cells \in Seq(Cells), NEW name \in SectionNames,
           NEW oldLength \in Nat, NEW writes, NEW new \in Seq(Cells),
           Started(offset, cells, name, oldLength, new),
           m_Filename' = m_Filename, sections' = sections, texts' = texts,
           DOMAIN contents' = Paths,
           \A p \in Paths : contents'[p] = IF p = m_Filename THEN writes ELSE contents[p],
           DOMAIN writes \in SUBSET SectionNames, writes \in [DOMAIN writes -> Write],
           m_Sections' \in Seq(SectionNames), m_SectionLocations' \in Seq(Locations),
           Len(m_Sections') = Len(m_SectionLocations'),
           TableFits(m_Sections', m_SectionLocations', writes),
           FrameCapture \in DOMAIN writes =>
             /\ FrameCapture \in DOMAIN Writes /\ writes[FrameCapture] = Writes[FrameCapture]
             /\ offset >= FrontEnd(writes[FrameCapture]),
           name = FrameCapture =>
             m_Sections' = <<>> /\ cells = <<>> /\ offset = 1 /\ DOMAIN writes = {},
           name # FrameCapture => m_Sections' # <<>>,
           m_Filename \in intact =>
             /\ name \notin DOMAIN writes
             /\ Len(openFile) <= offset + Len(cells) + HeaderSize[name] + oldLength
             /\ Whole(Overwrite(openFile, offset, cells \o Header("binary", name, 0)),
                      m_Sections', m_SectionLocations', offset + Len(cells), writes)
    PROVE  SectionsInv'
<1> DEFINE newFile == Overwrite(openFile, offset, new)
<1>1. /\ disk \in [Paths -> Seq(Cells)] /\ m_Filename \in Paths /\ openFile \in Seq(Cells)
      /\ intact \in SUBSET Paths /\ sections \in Nat /\ texts \in Nat /\ DOMAIN contents = Paths
      /\ m_CurrentWritingProps = NoSection /\ closing \in Closing
  BY DEF SectionsInv, Types, openFile, IsBusy
<1>2. /\ newFile \in Seq(Cells)
      /\ Len(newFile) = IF Len(openFile) > offset + Len(new) THEN Len(openFile) ELSE offset + Len(new)
      /\ \A x \in 1 .. Len(openFile) : x <= offset \/ x > offset + Len(new) => newFile[x] = openFile[x]
  <2>1. offset \in Nat
    BY <1>1
  <2>2. ASSUME NEW o \in Seq(Cells)
        PROVE  /\ Overwrite(o, offset, new) \in Seq(Cells)
               /\ Len(Overwrite(o, offset, new))
                    = IF Len(o) > offset + Len(new) THEN Len(o) ELSE offset + Len(new)
               /\ \A x \in 1 .. Len(o) :
                    x <= offset \/ x > offset + Len(new) => Overwrite(o, offset, new)[x] = o[x]
    BY <2>1, OverwriteCells
  <2> QED BY <1>1, <2>2
<1>3. disk' = [disk EXCEPT ![m_Filename] = newFile] /\ disk'[m_Filename] = newFile /\ openFile' = newFile
  BY <1>1 DEF Started, openFile
<1>4. contents'[m_Filename] = writes /\ Writes' = writes /\ DOMAIN contents' = Paths
  BY <1>1 DEF Writes
<1> HIDE DEF newFile
<1>5. name # NoSection /\ HeaderSize[name] \in Nat \ {0}
  BY SizesAre
<1>6. ASSUME NEW n \in 0 .. Len(cells), closing' = ClosingFor(offset + n, name, oldLength)
      PROVE  /\ closing' \in Closing /\ closing'.headerOffset = offset + n /\ closing'.length = -1
             /\ closing'.dataOffset = offset + n + HeaderSize[name] /\ closing'.good = TRUE
             /\ closing'.oldLength = oldLength
  BY <1>5, <1>6 DEF ClosingFor, Closing
<1>7. closing' \in Closing
  BY <1>1, <1>6 DEF Started
<1>8. m_CurrentWritingProps' \in SectionNames \cup {NoSection} /\ fileError' \in {Ok, Failed}
      /\ intact' \in SUBSET Paths
  BY <1>1 DEF Started
<1>9. Types'
  <2>1. disk' \in [Paths -> Seq(Cells)]
    BY <1>1, <1>2, <1>3
  <2>2. \A p \in Paths : /\ DOMAIN contents'[p] \in SUBSET SectionNames
                         /\ contents'[p] \in [DOMAIN contents'[p] -> Write]
    BY <1>1, <1>4 DEF SectionsInv, Types
  <2> QED BY <1>1, <1>4, <1>7, <1>8, <2>1, <2>2 DEF Types
<1>10. \A p \in Paths : p # m_Filename => disk'[p] = disk[p] /\ contents'[p] = contents[p]
  BY <1>1, <1>3
<1>11. Fronts'
  <2>1. ASSUME NEW p \in Paths, FrameCapture \in DOMAIN contents'[p]
        PROVE  InFront(disk'[p], contents'[p][FrameCapture])
    <3>1. CASE p # m_Filename
      BY <1>10, <2>1, <3>1 DEF SectionsInv, Fronts
    <3>2. CASE p = m_Filename
      <4> DEFINE w == writes[FrameCapture]
      <4>1. /\ w = Writes[FrameCapture] /\ FrameCapture \in DOMAIN Writes
            /\ offset >= FrontEnd(w) /\ w \in Write
        BY <1>4, <2>1, <3>2
      <4>2. InFront(openFile, w)
        BY <1>1, <4>1 DEF SectionsInv, Fronts, Writes, openFile
      <4> HIDE DEF w
      <4>3. FrontEnd(w) \in Nat /\ FrontEnd(w) <= Len(openFile)
        BY <1>1, <4>1, <4>2, HeaderInFront
      <4>4. \A x \in 1 .. FrontEnd(w) : x \in 1 .. Len(openFile) /\ x <= offset
        BY <1>1, <4>1, <4>3
      <4>5. FrontEnd(w) <= Len(newFile) /\ \A x \in 1 .. FrontEnd(w) : newFile[x] = openFile[x]
        BY <1>1, <1>2, <4>3, <4>4
      <4>6. InFront(newFile, w)
        BY <1>1, <1>2, <4>1, <4>2, <4>5, FrontKept
      <4> QED BY <1>3, <1>4, <3>2, <4>6 DEF w
    <3> QED BY <3>1, <3>2
  <2> QED BY <2>1 DEF Fronts
<1>12. CASE m_CurrentWritingProps' = name /\ fileError' = fileError
            /\ \E n \in 0 .. Len(cells) :
                 /\ closing' = ClosingFor(offset + n, name, oldLength)
                 /\ Len(new) = n + HeaderSize[name]
                 /\ \/ /\ n = Len(cells) /\ intact' = intact
                       /\ new = cells \o Header("binary", name, 0)
                    \/ intact' = intact \ {m_Filename}
  <2>1. PICK n \in 0 .. Len(cells) :
                 /\ closing' = ClosingFor(offset + n, name, oldLength)
                 /\ Len(new) = n + HeaderSize[name]
                 /\ \/ /\ n = Len(cells) /\ intact' = intact
                       /\ new = cells \o Header("binary", name, 0)
                    \/ intact' = intact \ {m_Filename}
    BY <1>12
  <2>2. /\ closing'.headerOffset = offset + n /\ closing'.length = -1
        /\ closing'.dataOffset = offset + n + HeaderSize[name] /\ closing'.good = TRUE
        /\ closing'.oldLength = oldLength
    BY <1>6, <2>1
  <2>3. IsBusy'
    BY <1>5, <1>12 DEF IsBusy
  <2>4. Table'
    BY <1>4, <2>3 DEF Table
  <2>5. Len(newFile) >= offset + n + HeaderSize[name]
    <3>1. Len(new) \in Nat /\ Len(openFile) \in Nat /\ n \in Nat /\ offset \in Nat
      BY <1>1
    <3> QED BY <1>2, <1>5, <2>1, <3>1
  <2>6. Writing'
    <3>1. closing'.dataOffset <= Len(newFile)
      BY <1>2, <1>5, <2>2, <2>5
    <3>2. name = FrameCapture =>
            m_Sections' = <<>> /\ closing'.headerOffset = 1 /\ DOMAIN writes = {}
      BY EmptySeq, <2>2
    <3>3. FrameCapture \in DOMAIN writes => closing'.headerOffset >= FrontEnd(writes[FrameCapture])
      <4>1. ASSUME FrameCapture \in DOMAIN writes PROVE FrontEnd(writes[FrameCapture]) \in Nat
        <5>1. writes[FrameCapture] \in Write /\ FrameCapture \in SectionNames
          BY <4>1
        <5> DEFINE w == writes[FrameCapture]
        <5>2. HeaderSize[FrameCapture] \in Nat /\ w.length \in Nat
          BY <5>1, SizesAre DEF Write
        <5> HIDE DEF w
        <5>3. FrontEnd(w) \in Nat
          BY ONLY <5>2 DEF FrontEnd
        <5> QED BY <5>3 DEF w
      <4> QED BY <2>2, <4>1
    <3> QED BY <1>3, <1>4, <1>12, <2>2, <3>1, <3>2, <3>3 DEF Writing
  <2>7. Intact'
    <3>1. ASSUME NEW p \in intact', ~(p = m_Filename /\ IsBusy') PROVE Untouched(p)'
      <4>1. p # m_Filename /\ p \in intact /\ p \in Paths
        BY <1>1, <2>1, <2>3, <3>1
      <4>2. \E secs, locs : AllWhole(disk[p], secs, locs, contents[p])
        BY <4>1 DEF SectionsInv, Intact, Untouched
      <4> QED BY <1>10, <4>1, <4>2 DEF Untouched
    <3>2. ASSUME m_Filename \in intact' PROVE Behind'
      <4>1. /\ n = Len(cells) /\ intact' = intact /\ m_Filename \in intact
            /\ new = cells \o Header("binary", name, 0)
        BY <2>1, <3>2
      <4>2. Whole(newFile, m_Sections', m_SectionLocations', offset + Len(cells), writes)
        BY <4>1 DEF newFile
      <4>3. Len(newFile) <= offset + n + HeaderSize[name] + oldLength
        <5>1. Len(new) \in Nat /\ Len(openFile) \in Nat /\ n \in Nat /\ offset \in Nat
          BY <1>1
        <5>2. Len(openFile) <= offset + n + HeaderSize[name] + oldLength
          BY <4>1
        <5>3. offset + Len(new) <= offset + n + HeaderSize[name] + oldLength
          BY <1>5, <2>1, <5>1
        <5> QED BY <1>2, <5>2, <5>3
      <4> QED BY <1>3, <1>4, <1>12, <2>2, <4>1, <4>2, <4>3 DEF Behind
    <3> QED BY <2>3, <3>1, <3>2 DEF Intact
  <2> QED BY <1>9, <1>11, <2>4, <2>6, <2>7 DEF SectionsInv
<1>13. CASE m_CurrentWritingProps' = m_CurrentWritingProps /\ closing' = closing
            /\ fileError' = Failed /\ intact' = intact \ {m_Filename}
  <2>1. ~IsBusy' /\ fileError' # Ok
    BY <1>1, <1>13 DEF IsBusy, Ok, Failed
  <2>2. Table' /\ Writing'
    BY <2>1 DEF Table, Writing
  <2>3. ASSUME NEW p \in intact' PROVE Untouched(p)'
    BY <1>1, <1>13, <2>3, <1>10 DEF SectionsInv, Intact, Untouched
  <2>4. Intact'
    BY <2>1, <2>3 DEF Intact
  <2> QED BY <1>9, <1>11, <2>2, <2>4 DEF SectionsInv
<1> QED BY <1>12, <1>13 DEF Started

\* Where a section of this name is, if there is one.
LEMMA IndexOf ==
    ASSUME m_Sections \in Seq(SectionNames), NEW name
    PROVE  /\ SectionIndex(name) = 0 => \A i \in 1 .. Len(m_Sections) : m_Sections[i] # name
           /\ SectionIndex(name) # 0 =>
                SectionIndex(name) \in 1 .. Len(m_Sections) /\ m_Sections[SectionIndex(name)] = name
<1> DEFINE I == {i \in 1 .. Len(m_Sections) : m_Sections[i] = name}
<1>1. SectionIndex(name) = IF I # {} THEN CHOOSE i \in I : \A j \in I : i <= j ELSE 0
  BY DEF SectionIndex, SelectInSeq, Min
<1>2. CASE I = {}
  BY <1>1, <1>2
<1>3. CASE I # {}
  <2>1. I \in SUBSET Nat
    OBVIOUS
  <2>2. \E i \in I : \A j \in I : i <= j
    BY <1>3, <2>1, LeastNatural
  <2>3. SectionIndex(name) \in I
    BY <1>1, <1>3, <2>2
  <2> QED BY <2>3
<1> QED BY <1>2, <1>3

\* A new section starts at the end of the file.
LEMMA AppendSectionKeeps ==
    ASSUME SectionsInv, NEW name \in SectionNames, AppendSection(name)
    PROVE  SectionsInv'
<1> DEFINE offset == Len(openFile)
<1>1. /\ Types /\ Fronts /\ Table /\ Intact
      /\ disk \in [Paths -> Seq(Cells)] /\ m_Filename \in Paths /\ openFile \in Seq(Cells)
      /\ m_Sections \in Seq(SectionNames) /\ m_SectionLocations \in Seq(Locations)
      /\ Len(m_Sections) = Len(m_SectionLocations) /\ DOMAIN contents = Paths
      /\ DOMAIN Writes \in SUBSET SectionNames /\ Writes \in [DOMAIN Writes -> Write]
  BY DEF SectionsInv, Types, openFile, Writes
<1>2. /\ fileError = Ok /\ ~IsBusy /\ SectionIndex(name) = 0
      /\ m_Sections = <<>> => name = FrameCapture
      /\ StartSection(offset, <<>>, name, 0)
      /\ m_Filename' = m_Filename /\ m_Sections' = m_Sections
      /\ m_SectionLocations' = m_SectionLocations
      /\ sections' = sections /\ texts' = texts /\ contents' = contents
  BY DEF AppendSection, MayWrite, IsBusy
<1>3. offset \in Nat /\ <<>> \in Seq(Cells) /\ Len(<<>>) = 0
  BY <1>1, EmptySeq
<1>4. TableFits(m_Sections, m_SectionLocations, Writes)
      /\ (m_Sections = <<>> => offset = 1 /\ DOMAIN Writes = {})
  BY <1>1, <1>2 DEF Table
<1>5. \A i \in 1 .. Len(m_Sections) : m_Sections[i] # name
  BY <1>1, <1>2, IndexOf
<1>6. name = FrameCapture => m_Sections = <<>>
  BY <1>4, <1>5 DEF TableFits
<1>7. ASSUME FrameCapture \in DOMAIN Writes PROVE offset >= FrontEnd(Writes[FrameCapture])
  <2>1. InFront(openFile, Writes[FrameCapture]) /\ Writes[FrameCapture] \in Write
    BY <1>1, <1>7 DEF Fronts, openFile, Writes
  <2>2. FrontEnd(Writes[FrameCapture]) \in Nat
    BY <1>1, <2>1, HeaderInFront
  <2> QED BY <1>3, <2>1, <2>2 DEF InFront
<1>8. ASSUME m_Filename \in intact
      PROVE  /\ name \notin DOMAIN Writes
             /\ Whole(Overwrite(openFile, offset, <<>> \o Header("binary", name, 0)),
                      m_Sections, m_SectionLocations, offset + Len(<<>>), Writes)
  <2> DEFINE header == <<>> \o Header("binary", name, 0)
  <2>1. AllWhole(openFile, m_Sections, m_SectionLocations, Writes)
    BY <1>1, <1>2, <1>8 DEF Intact, Untouched, openFile, Writes
  <2>2. DOMAIN Writes = {m_Sections[i] : i \in 1 .. Len(m_Sections)}
    BY <2>1 DEF AllWhole, Whole, Recorded
  <2>3. name \notin DOMAIN Writes
    BY <1>5, <2>2
  <2>4. header \in Seq(Cells)
    BY HeaderCells, <1>3, ConcatProperties
  <2> HIDE DEF header
  <2>5. /\ Overwrite(openFile, offset, header) \in Seq(Cells)
        /\ offset <= Len(Overwrite(openFile, offset, header))
        /\ \A x \in 1 .. offset : Overwrite(openFile, offset, header)[x] = openFile[x]
    <3>1. /\ Overwrite(openFile, offset, header) \in Seq(Cells)
          /\ Len(Overwrite(openFile, offset, header))
                = IF Len(openFile) > offset + Len(header) THEN Len(openFile) ELSE offset + Len(header)
          /\ \A x \in 1 .. Len(openFile) :
                x <= offset \/ x > offset + Len(header) =>
                  Overwrite(openFile, offset, header)[x] = openFile[x]
      BY <1>1, <1>3, <2>4, OverwriteCells
    <3>2. Len(header) \in Nat
      BY <2>4
    <3> QED BY <1>3, <3>1, <3>2
  <2>6. Whole(Overwrite(openFile, offset, header), m_Sections, m_SectionLocations, offset, Writes)
    BY <1>1, <2>1, <2>5, SamePrefix DEF AllWhole
  <2>7. offset + Len(<<>>) = offset
    BY <1>3
  <2> QED BY <2>3, <2>6, <2>7 DEF header
<1> HIDE DEF offset
<1>9. PICK new \in Seq(Cells) : Started(offset, <<>>, name, 0, new)
  BY <1>1, <1>2, <1>3, StartOutcomes
<1>10. \A p \in Paths : contents'[p] = IF p = m_Filename THEN Writes ELSE contents[p]
  BY <1>2 DEF Writes
<1>11. Len(openFile) <= offset + Len(<<>>) + HeaderSize[name] + 0
  BY <1>3, SizesAre DEF offset
<1>12. m_Filename \in intact =>
         /\ name \notin DOMAIN Writes
         /\ Len(openFile) <= offset + Len(<<>>) + HeaderSize[name] + 0
         /\ Whole(Overwrite(openFile, offset, <<>> \o Header("binary", name, 0)),
                  m_Sections', m_SectionLocations', offset + Len(<<>>), Writes)
  BY <1>2, <1>8, <1>11 DEF offset
<1>13. /\ m_Sections' \in Seq(SectionNames) /\ m_SectionLocations' \in Seq(Locations)
       /\ Len(m_Sections') = Len(m_SectionLocations')
       /\ TableFits(m_Sections', m_SectionLocations', Writes) /\ DOMAIN contents' = Paths
       /\ name = FrameCapture => m_Sections' = <<>> /\ offset = 1 /\ DOMAIN Writes = {}
       /\ name # FrameCapture => m_Sections' # <<>>
  BY <1>1, <1>2, <1>4, <1>6
<1> QED BY <1>1, <1>2, <1>3, <1>7, <1>9, <1>10, <1>12, <1>13, SectionStarts

\* The only section is written over.
LEMMA OverwriteFrameCaptureKeeps ==
    ASSUME SectionsInv, OverwriteFrameCapture
    PROVE  SectionsInv'
<1> DEFINE old == m_SectionLocations[1]
<1>1. /\ Types /\ Fronts /\ Table /\ Intact
      /\ disk \in [Paths -> Seq(Cells)] /\ m_Filename \in Paths /\ openFile \in Seq(Cells)
      /\ m_Sections \in Seq(SectionNames) /\ m_SectionLocations \in Seq(Locations)
      /\ Len(m_Sections) = Len(m_SectionLocations) /\ DOMAIN contents = Paths
  BY DEF SectionsInv, Types, openFile
<1>2. /\ fileError = Ok /\ ~IsBusy /\ Len(m_Sections) = 1
      /\ StartSection(old.headerOffset, <<>>, FrameCapture, old.diskLength)
      /\ m_Filename' = m_Filename /\ m_Sections' = <<>> /\ m_SectionLocations' = <<>>
      /\ sections' = sections /\ texts' = texts
      /\ contents' = [contents EXCEPT ![m_Filename] = NoWrites]
  BY DEF OverwriteFrameCapture, MayWrite, IsBusy
<1>3. old \in Locations /\ old.headerOffset = 1 /\ m_Sections[1] = FrameCapture
  <2>1. TableFits(m_Sections, m_SectionLocations, Writes) /\ m_Sections # <<>>
    <3>1. m_Sections # <<>>
      <4>1. Len(<<>>) = 0
        BY EmptySeq
      <4> QED BY <1>2, <4>1
    <3> QED BY <1>1, <1>2, <3>1 DEF Table
  <2>2. PICK i \in 1 .. Len(m_Sections) : m_Sections[i] = FrameCapture
    BY <2>1 DEF TableFits
  <2>3. i = 1 /\ 1 \in 1 .. Len(m_SectionLocations)
    BY <1>1, <1>2
  <2> QED BY <1>1, <2>1, <2>2, <2>3 DEF TableFits
<1>4. old.diskLength \in Nat /\ old.dataOffset \in Nat
  BY <1>3, LocationsAre
<1>5. /\ <<>> \in Seq(Cells) /\ <<>> \in Seq(SectionNames) /\ <<>> \in Seq(Locations) /\ Len(<<>>) = 0
      /\ DOMAIN NoWrites = {} /\ NoWrites \in [DOMAIN NoWrites -> Write] /\ 1 .. 0 = {}
  BY EmptySeq DEF NoWrites
<1>6. TableFits(<<>>, <<>>, NoWrites)
  BY <1>5 DEF TableFits
<1>7. FrameCapture \in SectionNames
  BY DEF SectionNames
<1>8. ASSUME m_Filename \in intact
      PROVE  Len(openFile) <= 1 + 0 + HeaderSize[FrameCapture] + old.diskLength
  <2>1. AllWhole(openFile, m_Sections, m_SectionLocations, Writes)
    BY <1>1, <1>2, <1>8 DEF Intact, Untouched, openFile, Writes
  <2>2. /\ EndOf(old) = StartOf(m_SectionLocations, 1 + 1, Len(openFile))
        /\ Section(openFile, old, FrameCapture)
    BY <1>1, <1>2, <1>3, <2>1 DEF AllWhole, Whole, Layout
  <2>3. EndOf(old) = Len(openFile)
    <3>1. ~(1 + 1 <= Len(m_SectionLocations))
      BY <1>1, <1>2
    <3> HIDE DEF old
    <3> QED BY <2>2, <3>1 DEF StartOf
  <2>4. PICK kind \in {"binary", "text"} : old.dataOffset = 1 + SizeOf(kind, FrameCapture)
    BY <1>3, <2>2 DEF Section
  <2>5. SizeOf(kind, FrameCapture) \in Nat /\ SizeOf(kind, FrameCapture) <= HeaderSize[FrameCapture]
        /\ HeaderSize[FrameCapture] \in Nat
    BY <1>7, SizesAre, SizeOfHeaders
  <2> HIDE DEF old
  <2> QED BY <1>4, <2>3, <2>4, <2>5 DEF EndOf
<1>9. Whole(Overwrite(openFile, 1, <<>> \o Header("binary", FrameCapture, 0)), <<>>, <<>>, 1, NoWrites)
  <2> DEFINE header == <<>> \o Header("binary", FrameCapture, 0)  newFile == Overwrite(openFile, 1, header)
  <2>1. header \in Seq(Cells)
    BY <1>7, HeaderCells, <1>5, ConcatProperties
  <2>2. 1 \in 1 .. Len(newFile)
    <3> HIDE DEF header
    <3>1. Len(newFile) = IF Len(openFile) > 1 + Len(header) THEN Len(openFile) ELSE 1 + Len(header)
      BY <1>1, <2>1, OverwriteCells
    <3>2. Len(header) \in Nat /\ Len(openFile) \in Nat
      BY <1>1, <2>1
    <3> QED BY <3>1, <3>2
  <2> HIDE DEF newFile
  <2>3. Layout(newFile, <<>>, <<>>, 1)
    BY <1>5, <2>2 DEF Layout, StartOf
  <2>4. Recorded(newFile, <<>>, <<>>, NoWrites)
    BY <1>5 DEF Recorded
  <2> QED BY <2>3, <2>4 DEF Whole, newFile
<1> HIDE DEF old
<1>10. PICK new \in Seq(Cells) : Started(1, <<>>, FrameCapture, old.diskLength, new)
  BY <1>1, <1>2, <1>3, <1>4, <1>5, <1>7, StartOutcomes
<1>11. /\ \A p \in Paths : contents'[p] = IF p = m_Filename THEN NoWrites ELSE contents[p]
       /\ DOMAIN contents' = Paths
  BY <1>1, <1>2
<1>12. m_Filename \in intact =>
         /\ FrameCapture \notin DOMAIN NoWrites
         /\ Len(openFile) <= 1 + Len(<<>>) + HeaderSize[FrameCapture] + old.diskLength
         /\ Whole(Overwrite(openFile, 1, <<>> \o Header("binary", FrameCapture, 0)),
                  m_Sections', m_SectionLocations', 1 + Len(<<>>), NoWrites)
  BY <1>5, <1>2, <1>8, <1>9
<1>13. /\ m_Sections' \in Seq(SectionNames) /\ m_SectionLocations' \in Seq(Locations)
       /\ Len(m_Sections') = Len(m_SectionLocations') /\ m_Sections' = <<>>
       /\ TableFits(m_Sections', m_SectionLocations', NoWrites)
       /\ DOMAIN NoWrites \in SUBSET SectionNames
  BY <1>2, <1>5, <1>6
<1> QED BY <1>2, <1>4, <1>5, <1>7, <1>10, <1>11, <1>12, <1>13, SectionStarts

\* The object changes to the temporary file and can write no more.
LEMMA RewriteFrameCaptureKeeps ==
    ASSUME SectionsInv, RewriteFrameCapture
    PROVE  SectionsInv'
<1>1. /\ Types /\ Fronts /\ Intact
      /\ disk \in [Paths -> Seq(Cells)] /\ intact \in SUBSET Paths /\ DOMAIN contents = Paths
      /\ closing \in Closing /\ sections \in Nat /\ texts \in Nat
  BY DEF SectionsInv, Types
<1>2. /\ m_CurrentWritingProps = NoSection
      /\ disk' = [disk EXCEPT ![TempPath] = <<FileHeader>>]
      /\ m_Filename' = TempPath /\ fileError' = Failed /\ m_Sections' = <<>> /\ m_SectionLocations' = <<>>
      /\ contents' = [contents EXCEPT ![TempPath] = NoWrites] /\ intact' = intact \ {TempPath}
      /\ m_CurrentWritingProps' = m_CurrentWritingProps /\ closing' = closing
      /\ sections' = sections /\ texts' = texts
  BY DEF RewriteFrameCapture, MayWrite
<1>3. <<FileHeader>> \in Seq(Cells) /\ TempPath \in Paths
  BY JunkIsCell, SizesAre
<1>4. /\ <<>> \in Seq(SectionNames) /\ <<>> \in Seq(Locations) /\ Len(<<>>) = 0
      /\ DOMAIN NoWrites = {} /\ NoWrites \in [DOMAIN NoWrites -> Write]
  BY EmptySeq DEF NoWrites
<1>5. \A p \in Paths : p # TempPath => disk'[p] = disk[p] /\ contents'[p] = contents[p]
  BY <1>1, <1>2
<1>6. contents'[TempPath] = NoWrites /\ DOMAIN contents' = Paths
  BY <1>1, <1>2, <1>3
<1>7. Types'
  BY <1>1, <1>2, <1>3, <1>4, <1>5, <1>6 DEF Types
<1>8. Fronts'
  BY <1>1, <1>4, <1>5, <1>6 DEF Fronts
<1>9. ~IsBusy' /\ ~IsBusy /\ fileError' # Ok
  BY <1>2 DEF IsBusy, Ok, Failed
<1>10. Table' /\ Writing'
  BY <1>9 DEF Table, Writing
<1>11. ASSUME NEW p \in intact' PROVE Untouched(p)'
  BY <1>1, <1>2, <1>11, <1>9, <1>5 DEF Intact, Untouched
<1>12. Intact'
  BY <1>9, <1>11 DEF Intact
<1> QED BY <1>7, <1>8, <1>10, <1>12 DEF SectionsInv

LEMMA KeptAre ==
    ASSUME NEW locs \in Seq(Locations), NEW index \in 1 .. Len(locs), NEW start \in Nat
    PROVE  LET K == Kept(locs, index) IN
           /\ K \in Seq(Locations) /\ Len(K) = Len(locs) - 1
           /\ \A n \in 1 .. Len(locs) - 1 : K[n] = IF n < index THEN locs[n] ELSE locs[n + 1]
           /\ Moved(locs, index) \in Seq(Locations)
           /\ MovedUp(K, index, start) \in Seq(Locations)
           /\ Len(MovedUp(K, index, start)) = Len(locs) - 1
           /\ \A n \in 1 .. Len(locs) - 1 :
                /\ n < index => MovedUp(K, index, start)[n] = locs[n]
                /\ n = index => MovedUp(K, index, start)[n].headerOffset = start
                /\ n >= index => MovedUp(K, index, start)[n].headerOffset >= start
<1> DEFINE K == Kept(locs, index)
<1>1. Len(locs) \in Nat /\ index \in Nat \ {0}
  OBVIOUS
<1>2. /\ K \in Seq(Locations) /\ Len(K) = Len(locs) - 1
      /\ \A n \in 1 .. Len(locs) - 1 : K[n] = IF n < index THEN locs[n] ELSE locs[n + 1]
  BY RemoveAtAre DEF Kept
<1> HIDE DEF K
<1>3. Moved(locs, index) \in Seq(Locations)
  BY <1>1, <1>2, SubSeqProperties DEF Moved, K
<1>4. /\ MovedUp(K, index, start) \in Seq(Locations) /\ Len(MovedUp(K, index, start)) = Len(K)
      /\ \A i \in 1 .. Len(K) :
           /\ i < index => MovedUp(K, index, start)[i] = K[i]
           /\ i = index => MovedUp(K, index, start)[i].headerOffset = start
           /\ i >= index => MovedUp(K, index, start)[i].headerOffset >= start
  BY <1>1, <1>2, MovedUpAre
<1>5. \A n \in 1 .. Len(locs) - 1 : n < index => MovedUp(K, index, start)[n] = locs[n]
  BY <1>2, <1>4
<1> QED BY <1>2, <1>3, <1>4, <1>5 DEF K

\* A table without one of its sections, which is not the frame capture, still fits.
LEMMA TableWithout ==
    ASSUME NEW secs \in Seq(SectionNames), NEW locs \in Seq(Locations), Len(secs) = Len(locs),
           NEW writes, writes \in [DOMAIN writes -> Write], TableFits(secs, locs, writes),
           NEW index \in 1 .. Len(secs), secs[index] # FrameCapture
    PROVE  /\ RemoveAt(secs, index) # <<>>
           /\ TableFits(RemoveAt(secs, index),
                        MovedUp(Kept(locs, index), index, locs[index].headerOffset),
                        Without(writes, secs[index]))
           /\ FrameCapture \in DOMAIN Without(writes, secs[index]) =>
                /\ FrameCapture \in DOMAIN writes
                /\ Without(writes, secs[index])[FrameCapture] = writes[FrameCapture]
                /\ locs[index].headerOffset >= FrontEnd(writes[FrameCapture])
<1> DEFINE S == RemoveAt(secs, index)  start == locs[index].headerOffset
           L == MovedUp(Kept(locs, index), index, start)  W == Without(writes, secs[index])
           N == Len(secs)
<1>1. N \in Nat /\ index \in 1 .. N /\ locs[index] \in Locations /\ start \in Nat
  BY LocationsAre
<1>2. S \in Seq(SectionNames) /\ Len(S) = N - 1
      /\ \A n \in 1 .. N - 1 : S[n] = IF n < index THEN secs[n] ELSE secs[n + 1]
  BY RemoveAtAre
<1>3. /\ Len(L) = N - 1 /\ L \in Seq(Locations)
      /\ \A n \in 1 .. N - 1 : /\ n < index => L[n] = locs[n]
                               /\ n = index => L[n].headerOffset = start
                               /\ n >= index => L[n].headerOffset >= start
  <2>1. N = Len(locs) /\ index \in 1 .. Len(locs)
    OBVIOUS
  <2> HIDE DEF start, N
  <2>2. /\ Len(L) = Len(locs) - 1 /\ L \in Seq(Locations)
        /\ \A n \in 1 .. Len(locs) - 1 : /\ n < index => L[n] = locs[n]
                                         /\ n = index => L[n].headerOffset = start
                                         /\ n >= index => L[n].headerOffset >= start
    BY <1>1, <2>1, KeptAre
  <2> HIDE DEF L
  <2> QED BY <2>1, <2>2
<1>4. DOMAIN W = DOMAIN writes \ {secs[index]} /\ \A n \in DOMAIN writes : n # secs[index] => W[n] = writes[n]
  BY WritesWithout
<1>5. secs # <<>>
  BY EmptySeq
<1>6. (\E i \in 1 .. N : secs[i] = FrameCapture) /\ locs[1].headerOffset = 1
  BY <1>5 DEF TableFits
<1> HIDE DEF S, L, W
<1>7. \E i \in 1 .. N - 1 : S[i] = FrameCapture
  <2>1. PICK i \in 1 .. N : secs[i] = FrameCapture
    BY <1>6
  <2>2. i # index
    BY <2>1
  <2>3. CASE i < index
    BY <1>1, <2>3, <1>2, <2>1
  <2>4. CASE ~(i < index)
    <3>1. i - 1 \in 1 .. N - 1 /\ ~(i - 1 < index) /\ i - 1 + 1 = i
      BY <1>1, <2>2, <2>4
    <3> QED BY <1>2, <2>1, <3>1
  <2> QED BY <2>3, <2>4
<1>8. S # <<>> /\ N - 1 >= 1
  BY <1>1, <1>7, EmptySeq, <1>2
<1>9. L[1].headerOffset = 1
  <2>1. 1 \in 1 .. N - 1
    BY <1>1, <1>8
  <2>2. CASE index = 1
    BY <1>3, <1>6, <2>1, <2>2
  <2>3. CASE index # 1
    <3>1. 1 < index
      BY <1>1, <2>3
    <3> QED BY <1>3, <1>6, <2>1, <3>1
  <2> QED BY <2>2, <2>3
<1>10. ASSUME FrameCapture \in DOMAIN W
       PROVE  /\ FrameCapture \in DOMAIN writes /\ W[FrameCapture] = writes[FrameCapture]
              /\ start >= FrontEnd(writes[FrameCapture])
              /\ S[1] = FrameCapture
              /\ \A i \in 2 .. Len(S) : L[i].headerOffset >= FrontEnd(W[FrameCapture])
  <2> DEFINE w == writes[FrameCapture]
  <2>1. FrameCapture \in DOMAIN writes /\ W[FrameCapture] = w
    BY <1>4, <1>10
  <2>2. secs[1] = FrameCapture /\ \A i \in 2 .. N : locs[i].headerOffset >= FrontEnd(w)
    BY <2>1 DEF TableFits
  <2>3. index \in 2 .. N /\ start >= FrontEnd(w)
    BY <1>1, <2>2
  <2>4. FrontEnd(w) \in Nat
    BY <2>1, SizesAre DEF SectionNames, FrontEnd, Write
  <2> HIDE DEF w
  <2>5. S[1] = FrameCapture
    <3>1. 1 \in 1 .. N - 1 /\ 1 < index
      BY <1>1, <1>8, <2>3
    <3> QED BY <1>2, <2>2, <3>1
  <2>6. ASSUME NEW i \in 2 .. Len(S) PROVE L[i].headerOffset >= FrontEnd(w)
    <3>1. i \in 1 .. N - 1 /\ i \in 2 .. N
      BY <1>1, <1>2
    <3>2. CASE i < index
      BY <1>3, <2>2, <3>1, <3>2
    <3>3. CASE ~(i < index)
      <4>1. L[i].headerOffset >= start
        BY <1>1, <1>3, <3>1, <3>3
      <4>2. L[i].headerOffset \in Nat
        <5>1. L[i] \in Locations
          BY <1>3, <3>1
        <5> QED BY <5>1, LocationsAre
      <4> HIDE DEF start
      <4> QED BY <1>1, <2>3, <2>4, <4>1, <4>2
    <3> QED BY <3>2, <3>3
  <2> QED BY <2>1, <2>3, <2>5, <2>6 DEF w
<1>11. TableFits(S, L, W)
  BY <1>2, <1>7, <1>8, <1>9, <1>10 DEF TableFits
<1> QED BY <1>8, <1>10, <1>11 DEF S, L, W

LEMMA LengthsAdd ==
    ASSUME NEW all \in Nat, NEW moved \in Nat, NEW end \in Nat, NEW data \in Nat, NEW length \in Nat,
           NEW offset \in Nat, NEW header \in Nat, NEW size \in Nat,
           moved = all - end, end = data + length, data = offset + header, header <= size
    PROVE  all <= offset + moved + size + length
OBVIOUS

\* The sections behind the one that is replaced move over it.
LEMMA ReplaceSectionKeeps ==
    ASSUME SectionsInv, NEW name \in SectionNames, ReplaceSection(name)
    PROVE  SectionsInv'
<1> DEFINE index == SectionIndex(name)  old == m_SectionLocations[index]  offset == old.headerOffset
           moved == CellsOf(openFile, Moved(m_SectionLocations, index))
           writes == Without(Writes, name)  size == HeaderSize[name]
<1>1. /\ Types /\ Fronts /\ Table /\ Intact
      /\ m_Filename \in Paths /\ openFile \in Seq(Cells)
      /\ m_Sections \in Seq(SectionNames) /\ m_SectionLocations \in Seq(Locations)
      /\ Len(m_Sections) = Len(m_SectionLocations) /\ DOMAIN contents = Paths
      /\ DOMAIN Writes \in SUBSET SectionNames /\ Writes \in [DOMAIN Writes -> Write]
  BY DEF SectionsInv, Types, openFile, Writes
<1>2. /\ fileError = Ok /\ ~IsBusy /\ name # FrameCapture /\ index # 0
      /\ StartSection(offset, moved, name, old.diskLength)
      /\ m_Filename' = m_Filename /\ m_Sections' = RemoveAt(m_Sections, index)
      /\ m_SectionLocations' = MovedUp(Kept(m_SectionLocations, index), index, offset)
      /\ sections' = sections /\ texts' = texts
      /\ contents' = [contents EXCEPT ![m_Filename] = writes]
  BY <1>1 DEF ReplaceSection, MayWrite, IsBusy, Kept, Moved, Writes
<1>3. index \in 1 .. Len(m_Sections) /\ m_Sections[index] = name
      /\ index \in 1 .. Len(m_SectionLocations)
  BY <1>1, <1>2, IndexOf
<1>4. old \in Locations /\ offset \in Nat /\ old.diskLength \in Nat /\ old.dataOffset \in Nat
      /\ EndOf(old) \in Nat /\ EndOf(old) = old.dataOffset + old.diskLength
  BY <1>1, <1>3, LocationsAre DEF EndOf
<1>5. size \in Nat
  BY SizesAre
<1> HIDE DEF index, old, offset, size
<1>6. moved \in Seq(Cells)
  BY <1>1, <1>3, <1>4, KeptAre, CellsOfAreCells
<1> HIDE DEF moved
<1>7. TableFits(m_Sections, m_SectionLocations, Writes)
  BY <1>1, <1>2 DEF Table
<1>8. /\ m_Sections' # <<>> /\ TableFits(m_Sections', m_SectionLocations', writes)
      /\ FrameCapture \in DOMAIN writes =>
           /\ FrameCapture \in DOMAIN Writes /\ writes[FrameCapture] = Writes[FrameCapture]
           /\ offset >= FrontEnd(Writes[FrameCapture])
  BY <1>1, <1>2, <1>3, <1>7, TableWithout DEF old, offset
<1>9. /\ m_Sections' \in Seq(SectionNames) /\ m_SectionLocations' \in Seq(Locations)
      /\ Len(m_Sections') = Len(m_SectionLocations')
  BY <1>1, <1>3, RemoveAtAre, <1>4, KeptAre, <1>2
<1>10. /\ DOMAIN writes = DOMAIN Writes \ {name} /\ DOMAIN writes \in SUBSET SectionNames
       /\ writes \in [DOMAIN writes -> Write]
  BY WritesWithout, <1>1 DEF Without, Restrict
<1>11. ASSUME m_Filename \in intact
       PROVE  /\ Len(openFile) <= offset + Len(moved) + size + old.diskLength
              /\ Whole(Overwrite(openFile, offset, moved \o Header("binary", name, 0)),
                       m_Sections', m_SectionLocations', offset + Len(moved), writes)
  <2> DEFINE header == Header("binary", name, 0)  new == moved \o header
             newFile == Overwrite(openFile, offset, new)
  <2>1. AllWhole(openFile, m_Sections, m_SectionLocations, Writes)
    BY <1>1, <1>2, <1>11 DEF Intact, Untouched, openFile, Writes
  <2>2. Layout(openFile, m_Sections, m_SectionLocations, Len(openFile))
    BY <2>1 DEF AllWhole, Whole
  <2>3. /\ Len(moved) = Len(openFile) - EndOf(old)
        /\ \A x \in 1 .. Len(openFile) - EndOf(old) : moved[x] = openFile[EndOf(old) + x]
    BY <1>1, <1>3, <2>2, CellsBehind DEF moved, old
  <2>4. Section(openFile, old, name) /\ EndOf(old) <= Len(openFile)
    BY <1>3, <2>2 DEF Layout, old, Section
  <2>5. PICK kind \in {"binary", "text"} : old.dataOffset = offset + SizeOf(kind, name)
    BY <2>4 DEF Section, offset
  <2>6. SizeOf(kind, name) \in Nat /\ SizeOf(kind, name) <= size
    BY SizeOfHeaders DEF size
  <2>7. SectionSize(old) = EndOf(old) - offset
    BY <1>4, SectionSizes DEF offset
  <2>8. Len(openFile) \in Nat /\ Len(moved) \in Nat
    BY <1>1, <1>6
  <2>9. Len(openFile) <= offset + Len(moved) + size + old.diskLength
    BY <2>3, <1>4, <1>5, <2>5, <2>6, <2>8, LengthsAdd
  <2>10. offset <= Len(openFile) /\ offset + Len(moved) = Len(openFile) - SectionSize(old)
    <3>1. Len(moved) = Len(openFile) - EndOf(old) /\ EndOf(old) <= Len(openFile)
      BY <2>3, <2>4
    <3>2. offset <= EndOf(old)
      BY <1>4, <2>5, <2>6
    <3> QED BY <1>4, <2>7, <2>8, <3>1, <3>2
  <2>11. /\ header \in Seq(Cells) /\ new \in Seq(Cells) /\ Len(new) = Len(moved) + Len(header)
         /\ \A x \in 1 .. Len(moved) : new[x] = moved[x]
    BY HeaderCells, <1>6, ConcatProperties, <2>8
  <2> HIDE DEF header, new
  <2>12. /\ newFile \in Seq(Cells)
         /\ Len(newFile) = IF Len(openFile) > offset + Len(new) THEN Len(openFile) ELSE offset + Len(new)
         /\ \A x \in 1 .. Len(new) : newFile[offset + x] = new[x]
         /\ \A x \in 1 .. Len(openFile) :
              x <= offset \/ x > offset + Len(new) => newFile[x] = openFile[x]
    BY <1>1, <1>4, <2>11, OverwriteCells
  <2> HIDE DEF newFile
  <2>13. Len(openFile) - SectionSize(old) <= Len(newFile)
    BY <2>11, <1>4, <2>8, <2>10, <2>12
  <2>14. \A x \in 1 .. offset : newFile[x] = openFile[x]
    <3>1. \A x \in 1 .. Len(openFile) : x <= offset => newFile[x] = openFile[x]
      BY <2>12
    <3>2. offset \in Nat /\ Len(openFile) \in Nat /\ offset <= Len(openFile)
      BY <1>4, <2>8, <2>10
    <3> HIDE DEF offset
    <3>3. \A x \in 1 .. offset : x \in 1 .. Len(openFile) /\ x <= offset
      BY <3>2
    <3> QED BY <3>1, <3>3
  <2>15. ASSUME NEW x \in 1 .. Len(openFile) - EndOf(old)
         PROVE  newFile[offset + x] = openFile[EndOf(old) + x]
    <3>1. x \in 1 .. Len(moved) /\ x \in 1 .. Len(new)
      BY <2>11, <2>3, <2>8
    <3> QED BY <2>3, <2>11, <2>12, <3>1
  <2>16. Whole(newFile, RemoveAt(m_Sections, index),
               MovedUp(Kept(m_SectionLocations, index), index, offset),
               Len(openFile) - SectionSize(old), writes)
    BY <1>1, <1>2, <1>3, <2>1, <2>12, <2>13, <2>14, <2>15, SectionRemoved DEF old, offset
  <2> QED BY <1>2, <2>9, <2>10, <2>16 DEF newFile, new, header
<1> HIDE DEF writes
<1>12. PICK new \in Seq(Cells) : Started(offset, moved, name, old.diskLength, new)
  BY <1>1, <1>2, <1>4, <1>6, StartOutcomes
<1>13. DOMAIN contents' = Paths /\ \A p \in Paths : contents'[p] = IF p = m_Filename THEN writes ELSE contents[p]
  BY <1>1, <1>2
<1>14. m_Filename \in intact =>
         /\ name \notin DOMAIN writes
         /\ Len(openFile) <= offset + Len(moved) + HeaderSize[name] + old.diskLength
         /\ Whole(Overwrite(openFile, offset, moved \o Header("binary", name, 0)),
                  m_Sections', m_SectionLocations', offset + Len(moved), writes)
  BY <1>10, <1>11 DEF size
<1>15. FrameCapture \in DOMAIN writes =>
         /\ FrameCapture \in DOMAIN Writes /\ writes[FrameCapture] = Writes[FrameCapture]
         /\ offset >= FrontEnd(writes[FrameCapture])
  BY <1>8
<1> QED BY <1>2, <1>4, <1>6, <1>8, <1>9, <1>10, <1>12, <1>13, <1>14, <1>15, SectionStarts

-----------------------------------------------------------------------------
(* Files are opened, copied and added to by hand.                          *)

\* What is read from a file that has the sections written is their table.
LEMMA ParsedWhole ==
    ASSUME NEW cells \in Seq(Cells), NEW writes, NEW secs, NEW locs, AllWhole(cells, secs, locs, writes),
           Len(cells) > 0, NEW lenient \in BOOLEAN, NEW t, t = Parsed(cells, lenient), t.error = Ok
    PROVE  AllWhole(cells, t.sections, t.locations, writes)
<1>1. Layout(cells, secs, locs, Len(cells))
  BY DEF AllWhole, Whole
<1>2. CASE secs # <<>>
  BY <1>2, ParsedLayout, TableRows
<1>3. CASE secs = <<>>
  <2>1. Len(secs) = 0
    BY <1>3, EmptySeq
  <2>2. Len(locs) = 0 /\ StartOf(locs, 1, Len(cells)) = 1
    BY <1>1, <2>1 DEF Layout
  <2>3. Len(cells) = 1
    BY <2>2 DEF StartOf
  <2>4. t.error = Failed
    BY <2>3, ParsedTable
  <2> QED BY <2>4 DEF Ok, Failed
<1> QED BY <1>2, <1>3

\* The table of a file that is opened fits what was written to it.
LEMMA ParsedFits ==
    ASSUME NEW cells \in Seq(Cells), Len(cells) > 0, NEW writes, writes \in [DOMAIN writes -> Write],
           FrameCapture \in DOMAIN writes => InFront(cells, writes[FrameCapture]),
           NEW lenient \in BOOLEAN, NEW t, t = Parsed(cells, lenient)
    PROVE  /\ t.error \in {Ok, Failed}
           /\ t.sections \in Seq(SectionNames) /\ t.locations \in Seq(Locations)
           /\ Len(t.sections) = Len(t.locations)
           /\ t.error = Ok => t.sections # <<>> /\ TableFits(t.sections, t.locations, writes)
<1>1. /\ t.error \in {Ok, Failed}
      /\ t.sections \in Seq(SectionNames) /\ t.locations \in Seq(Locations)
      /\ Len(t.sections) = Len(t.locations)
      /\ t.error = Ok => t.sections # <<>> /\ \E i \in 1 .. Len(t.sections) : t.sections[i] = FrameCapture
      /\ t.sections # <<>> => t.locations[1].headerOffset = 1
  BY ParsedTable
<1>2. ASSUME FrameCapture \in DOMAIN writes
      PROVE  /\ t.sections # <<>> /\ t.sections[1] = FrameCapture
             /\ \A i \in 2 .. Len(t.sections) :
                  t.locations[i].headerOffset >= FrontEnd(writes[FrameCapture])
  BY <1>2, ParsedFront
<1> QED BY <1>1, <1>2 DEF TableFits

\* A file is read again, perhaps after whoever wrote it died.
LEMMA OpenKeeps ==
    ASSUME SectionsInv, NEW path \in Paths, NEW lenient \in BOOLEAN, Open(path, lenient)
    PROVE  SectionsInv'
<1> DEFINE cells == disk[path]  t == Parsed(cells, lenient)
<1>1. /\ Types /\ Fronts /\ Intact
      /\ disk \in [Paths -> Seq(Cells)] /\ cells \in Seq(Cells) /\ DOMAIN contents = Paths
      /\ contents[path] \in [DOMAIN contents[path] -> Write]
      /\ intact \in SUBSET Paths /\ sections \in Nat /\ texts \in Nat
      /\ m_CurrentWritingProps \in SectionNames \cup {NoSection}
  BY DEF SectionsInv, Types
<1>2. /\ cells # <<>> /\ fileError' = t.error
      /\ m_Sections' = t.sections /\ m_SectionLocations' = t.locations
      /\ m_Filename' = path /\ m_CurrentWritingProps' = NoSection /\ closing' = NoClosing
      /\ disk' = disk /\ sections' = sections /\ texts' = texts /\ contents' = contents
      /\ \/ ~IsBusy /\ intact' = intact
         \/ IsBusy /\ intact' = intact \ {m_Filename}
  BY DEF Open, Fail, IsBusy
<1> HIDE DEF t
<1>3. Len(cells) > 0
  BY <1>1, <1>2, EmptySeq
<1>4. FrameCapture \in DOMAIN contents[path] => InFront(cells, contents[path][FrameCapture])
  BY <1>1 DEF Fronts
<1>5. /\ t.error \in {Ok, Failed}
      /\ t.sections \in Seq(SectionNames) /\ t.locations \in Seq(Locations)
      /\ Len(t.sections) = Len(t.locations)
      /\ t.error = Ok => t.sections # <<>> /\ TableFits(t.sections, t.locations, contents[path])
  BY <1>1, <1>3, <1>4, ParsedFits DEF t
<1>6. NoClosing \in Closing
  BY DEF NoClosing, Closing
<1>7. intact' \in SUBSET Paths
  BY <1>1, <1>2
<1>8. Types'
  BY <1>1, <1>2, <1>5, <1>6, <1>7 DEF Types
<1>9. Fronts'
  BY <1>1, <1>2 DEF Fronts
<1>10. ~IsBusy'
  BY <1>2 DEF IsBusy
<1>11. Table' /\ Writing'
  BY <1>2, <1>5, <1>10 DEF Table, Writing, Writes
<1>12. ASSUME NEW p \in intact' PROVE Untouched(p)'
  <2>1. p \in intact /\ ~(p = m_Filename /\ IsBusy)
    BY <1>2, <1>12
  <2>2. PICK secs, locs : AllWhole(disk[p], secs, locs, contents[p])
    BY <1>1, <2>1 DEF Intact, Untouched
  <2>3. ASSUME p = path, t.error = Ok PROVE AllWhole(disk[p], t.sections, t.locations, contents[p])
    BY <1>1, <1>3, <2>2, <2>3, ParsedWhole DEF t
  <2> HIDE DEF cells
  <2> QED BY <1>2, <2>2, <2>3 DEF Untouched
<1>13. Intact'
  BY <1>10, <1>12 DEF Intact
<1> QED BY <1>8, <1>9, <1>11, <1>13 DEF SectionsInv

\* A copy has what the file had.
LEMMA CopyFileToKeeps ==
    ASSUME SectionsInv, NEW path \in Paths, CopyFileTo(path)
    PROVE  SectionsInv'
<1>1. /\ Types /\ Fronts /\ Table /\ Intact
      /\ disk \in [Paths -> Seq(Cells)] /\ m_Filename \in Paths /\ openFile \in Seq(Cells)
      /\ DOMAIN contents = Paths /\ intact \in SUBSET Paths
  BY DEF SectionsInv, Types, openFile
<1>2. /\ m_CurrentWritingProps = NoSection /\ path # m_Filename
      /\ disk' = [disk EXCEPT ![path] = openFile] /\ m_Filename' = path
      /\ contents' = [contents EXCEPT ![path] = contents[m_Filename]]
      /\ intact' = IF m_Filename \in intact THEN intact \cup {path} ELSE intact \ {path}
      /\ fileError' = fileError /\ m_Sections' = m_Sections /\ m_SectionLocations' = m_SectionLocations
      /\ m_CurrentWritingProps' = m_CurrentWritingProps /\ closing' = closing
      /\ sections' = sections /\ texts' = texts
  BY DEF CopyFileTo
<1>3. /\ disk'[path] = openFile /\ contents'[path] = Writes /\ DOMAIN contents' = Paths
      /\ openFile' = openFile /\ Writes' = Writes
      /\ \A p \in Paths : p # path => disk'[p] = disk[p] /\ contents'[p] = contents[p]
  BY <1>1, <1>2 DEF openFile, Writes
<1>4. Types'
  BY <1>1, <1>2, <1>3 DEF Types, Writes
<1>5. Fronts'
  BY <1>1, <1>3 DEF Fronts, openFile, Writes
<1>6. ~IsBusy' /\ ~IsBusy
  BY <1>2 DEF IsBusy
<1>7. Table' /\ Writing'
  BY <1>1, <1>2, <1>3, <1>6 DEF Table, Writing
<1>8. ASSUME NEW p \in intact' PROVE Untouched(p)'
  <2>1. CASE p # path
    <3>1. p \in intact /\ p \in Paths
      BY <1>1, <1>2, <1>8, <2>1
    <3>2. \E secs, locs : AllWhole(disk[p], secs, locs, contents[p])
      BY <1>1, <1>6, <3>1 DEF Intact, Untouched
    <3> QED BY <1>2, <1>3, <2>1, <3>1, <3>2 DEF Untouched
  <2>2. CASE p = path
    <3>1. m_Filename \in intact
      BY <1>2, <1>8, <2>2
    <3>2. /\ \E secs, locs : AllWhole(openFile, secs, locs, Writes)
          /\ fileError = Ok => AllWhole(openFile, m_Sections, m_SectionLocations, Writes)
      BY <1>1, <1>6, <3>1 DEF Intact, Untouched, openFile, Writes
    <3> QED BY <1>2, <1>3, <2>2, <3>2 DEF Untouched
  <2> QED BY <2>1, <2>2
<1>9. Intact'
  BY <1>6, <1>8 DEF Intact
<1> QED BY <1>4, <1>5, <1>7, <1>9 DEF SectionsInv

AreWrites(writes) == writes \in [DOMAIN writes -> Write] /\ DOMAIN writes \in SUBSET SectionNames

\* The last writes, with one more.
LEMMA WithIsWrites ==
    ASSUME NEW writes, AreWrites(writes),
           NEW name \in SectionNames, NEW write \in Nat, NEW length \in Nat
    PROVE  AreWrites(With(writes, name, write, length))
BY DEF AreWrites, With, Write

\* The file after a section of text was added to it.
WithText(new, cells, name, length, write) ==
    new = cells \o Header("text", name, length) \o DataCells(write, length)

\* A file is still whole with a section in text behind the others.
LEMMA TextAppended ==
    ASSUME NEW cells \in Seq(Cells), NEW secs, NEW locs, NEW writes, AllWhole(cells, secs, locs, writes),
           secs # <<>>, NEW name \in SectionNames, name \notin DOMAIN writes,
           NEW length \in Nat, NEW write \in Nat,
           NEW new, WithText(new, cells, name, length, write)
    PROVE  /\ new \in Seq(Cells) /\ Len(new) >= Len(cells)
           /\ \A x \in 1 .. Len(cells) : new[x] = cells[x]
           /\ \E s, l : AllWhole(new, s, l, With(writes, name, write, length))
<1> DEFINE header == Header("text", name, length)  data == DataCells(write, length)
           N == Len(cells)  h == TextHeaderSize  front == cells \o header
           loc == [headerOffset |-> N, dataOffset |-> N + h, diskLength |-> length]
<1>1. /\ header \in Seq(Cells) /\ Len(header) = h /\ h \in Nat \ {0}
      /\ header[1] = Cell("text", name, 0, length) /\ SizeOf("text", name) = h
  BY HeaderCells, SizesAre DEF SizeOf
<1>2. /\ data \in Seq(Cells) /\ Len(data) = length
      /\ \A i \in 1 .. length : data[i] = Cell("data", NoSection, write, i)
  BY DataCellsAre
<1>3. N \in Nat
  OBVIOUS
<1> HIDE DEF header, data, h, N
<1>4. /\ front \in Seq(Cells) /\ Len(front) = N + h
      /\ \A i \in 1 .. N + h : front[i] = IF i <= N THEN cells[i] ELSE header[i - N]
  BY <1>1, ConcatProperties DEF N
<1> HIDE DEF front
<1>5. /\ new \in Seq(Cells) /\ Len(new) = N + h + length
      /\ \A i \in 1 .. N + h + length : new[i] = IF i <= N + h THEN front[i] ELSE data[i - (N + h)]
  BY <1>2, <1>4, ConcatProperties DEF front, header, data, WithText
<1>6. ASSUME NEW x \in 1 .. N PROVE new[x] = cells[x]
  <2>1. x \in 1 .. N + h + length /\ x <= N + h /\ x \in 1 .. N + h /\ x <= N
    BY <1>1, <1>3
  <2> QED BY <1>4, <1>5, <2>1
<1>7. new[N + 1] = Cell("text", name, 0, length)
  <2>1. /\ N + 1 \in 1 .. N + h + length /\ N + 1 <= N + h /\ N + 1 \in 1 .. N + h /\ ~(N + 1 <= N)
        /\ N + 1 - N = 1
    BY <1>1, <1>3
  <2> DEFINE x == N + 1
  <2>2. new[x] = IF x <= N + h THEN front[x] ELSE data[x - (N + h)]
    BY <1>5, <2>1 DEF x
  <2>3. front[x] = IF x <= N THEN cells[x] ELSE header[x - N]
    BY <1>4, <2>1 DEF x
  <2>4. new[N + 1] = header[1]
    BY <1>1, <1>3, <2>2, <2>3 DEF x
  <2> QED BY <1>1, <2>4
<1>8. ASSUME NEW n \in 1 .. length PROVE new[N + h + n] = Cell("data", NoSection, write, n)
  <2>1. /\ N + h + n \in 1 .. N + h + length /\ ~(N + h + n <= N + h) /\ N + h + n - (N + h) = n
    BY <1>1, <1>3
  <2> DEFINE x == N + h + n
  <2>2. new[x] = IF x <= N + h THEN front[x] ELSE data[x - (N + h)]
    BY <1>5, <2>1 DEF x
  <2>3. new[N + h + n] = data[n]
    BY <1>1, <1>3, <2>2 DEF x
  <2> QED BY <1>2, <2>3
<1>9. /\ loc \in Locations /\ loc.headerOffset = N /\ loc.dataOffset = N + h
      /\ loc.diskLength = length /\ EndOf(loc) = Len(new)
  BY <1>1, <1>3, <1>5 DEF Locations, EndOf
<1> HIDE DEF loc
<1>10. Len(new) \in Nat /\ N <= Len(new) /\ N + h > N
  BY <1>1, <1>3, <1>5
<1>11. Whole(new, secs, locs, N, writes)
  BY <1>5, <1>6, <1>10, SamePrefix DEF AllWhole, N
<1>12. Section(new, loc, name)
  BY <1>7, <1>1, <1>9, <1>10 DEF Cell, Section
<1>13. DataAt(new, loc.dataOffset, loc.diskLength, write)
  BY <1>8, <1>9 DEF DataAt
<1>14. Whole(new, Append(secs, name), Append(locs, loc), EndOf(loc), With(writes, name, write, loc.diskLength))
  BY <1>5, <1>9, <1>11, <1>12, <1>13, SectionAppended
<1> QED BY <1>5, <1>6, <1>9, <1>10, <1>14 DEF AllWhole, N

\* A section is added to a file that nobody has open.
LEMMA AppendByHandKeeps ==
    ASSUME SectionsInv, NEW path \in Paths, NEW name \in Names, NEW length \in SectionLengths,
           AppendByHand(path, name, length)
    PROVE  SectionsInv'
<1> DEFINE write == MaxSections + texts'  old == disk[path]
           cells == old \o Header("text", name, length) \o DataCells(write, length)
           t == Parsed(cells, FALSE)  writes == With(contents[path], name, write, length)
<1>1. /\ Types /\ Fronts /\ Intact
      /\ disk \in [Paths -> Seq(Cells)] /\ old \in Seq(Cells) /\ DOMAIN contents = Paths
      /\ contents[path] \in [DOMAIN contents[path] -> Write]
      /\ DOMAIN contents[path] \in SUBSET SectionNames
      /\ intact \in SUBSET Paths /\ sections \in Nat /\ texts \in Nat /\ closing \in Closing
  BY DEF SectionsInv, Types
<1>2. /\ texts' = texts + 1 /\ path \in intact /\ m_CurrentWritingProps = NoSection
      /\ contents[path] # NoWrites /\ name \notin DOMAIN contents[path]
      /\ disk' = [disk EXCEPT ![path] = cells]
      /\ contents' = [contents EXCEPT ![path] = writes]
      /\ m_Filename' = path /\ fileError' = t.error
      /\ m_Sections' = t.sections /\ m_SectionLocations' = t.locations
      /\ m_CurrentWritingProps' = m_CurrentWritingProps /\ closing' = closing
      /\ sections' = sections /\ intact' = intact
  BY <1>1 DEF AppendByHand
<1>3. name \in SectionNames /\ name # FrameCapture /\ length \in Nat /\ write \in Nat /\ texts' \in Nat
  BY <1>1, <1>2, SizesAre, SectionBoundsAssumption DEF SectionNames
<1> HIDE DEF write
<1>4. PICK secs, locs : AllWhole(old, secs, locs, contents[path])
  BY <1>2, <1>1 DEF IsBusy, Intact, Untouched
<1>5. secs # <<>> /\ Len(old) \in Nat /\ Len(old) >= 1
  <2>1. Recorded(old, secs, locs, contents[path]) /\ Layout(old, secs, locs, Len(old))
    BY <1>4 DEF AllWhole, Whole
  <2>2. CASE secs = <<>>
    <3>1. DOMAIN contents[path] = {secs[i] : i \in 1 .. Len(secs)} /\ 1 .. Len(secs) = {}
      BY <2>1, <2>2, EmptySeq DEF Recorded
    <3>2. DOMAIN contents[path] = {}
      BY <3>1
    <3> QED BY <1>1, <1>2, <3>2, NoneWritten
  <2>3. Len(old) \in 1 .. Len(old)
    BY <2>1 DEF Layout
  <2> QED BY <1>1, <2>2, <2>3
<1> HIDE DEF old
<1>6. /\ cells \in Seq(Cells) /\ Len(cells) >= Len(old) /\ \A x \in 1 .. Len(old) : cells[x] = old[x]
      /\ \E s, l : AllWhole(cells, s, l, writes)
  <2>1. old \in Seq(Cells)
    BY <1>1 DEF old
  <2>2. WithText(cells, old, name, length, write)
    BY DEF WithText
  <2>3. AllWhole(old, secs, locs, contents[path]) /\ name \notin DOMAIN contents[path]
    BY <1>2, <1>4
  <2>4. secs # <<>>
    BY <1>5
  <2>5. name \in SectionNames /\ length \in Nat /\ write \in Nat
    BY <1>3
  <2> HIDE DEF cells, t
  <2>6. /\ cells \in Seq(Cells) /\ Len(cells) >= Len(old)
        /\ \A x \in 1 .. Len(old) : cells[x] = old[x]
        /\ \E s, l : AllWhole(cells, s, l, With(contents[path], name, write, length))
    BY ONLY <2>1, <2>2, <2>3, <2>4, <2>5, TextAppended
  <2> QED BY <2>6
<1>7. /\ DOMAIN writes = DOMAIN contents[path] \cup {name} /\ DOMAIN writes \in SUBSET SectionNames
      /\ writes \in [DOMAIN writes -> Write]
      /\ \A n \in DOMAIN contents[path] : n # name => writes[n] = contents[path][n]
  <2>1. /\ contents[path] \in [DOMAIN contents[path] -> Write]
        /\ DOMAIN contents[path] \in SUBSET SectionNames
        /\ name \in SectionNames /\ write \in Nat /\ length \in Nat
    BY <1>1, <1>3
  <2>2. AreWrites(contents[path])
    BY <2>1 DEF AreWrites
  <2>3. AreWrites(writes)
    BY <2>1, <2>2, WithIsWrites
  <2>4. /\ DOMAIN writes = DOMAIN contents[path] \cup {name}
        /\ \A n \in DOMAIN contents[path] : n # name => writes[n] = contents[path][n]
    BY DEF With
  <2> QED BY <2>3, <2>4 DEF AreWrites
<1> HIDE DEF cells, writes, t
<1>8. FrameCapture \in DOMAIN writes => InFront(cells, writes[FrameCapture])
  <2> SUFFICES ASSUME FrameCapture \in DOMAIN writes PROVE InFront(cells, writes[FrameCapture])
    OBVIOUS
  <2> DEFINE w == contents[path][FrameCapture]
  <2>1. FrameCapture \in DOMAIN contents[path] /\ writes[FrameCapture] = w
    BY <1>3, <1>7
  <2>2. InFront(old, w) /\ w \in Write
    BY <1>1, <2>1 DEF Fronts, old
  <2> HIDE DEF w
  <2>3. FrontEnd(w) \in Nat /\ FrontEnd(w) <= Len(old)
    BY <1>1, <2>2, HeaderInFront
  <2>4. FrontEnd(w) <= Len(cells) /\ \A x \in 1 .. FrontEnd(w) : cells[x] = old[x]
    BY <1>6, <1>5, <2>3
  <2>5. InFront(cells, w)
    BY <1>1, <1>6, <2>2, <2>4, FrontKept
  <2> QED BY <2>1, <2>5
<1>9. Len(cells) > 0
  BY <1>6, <1>5
<1>10. /\ t.error \in {Ok, Failed}
       /\ t.sections \in Seq(SectionNames) /\ t.locations \in Seq(Locations)
       /\ Len(t.sections) = Len(t.locations)
       /\ t.error = Ok => t.sections # <<>> /\ TableFits(t.sections, t.locations, writes)
  BY <1>6, <1>7, <1>8, <1>9, ParsedFits DEF t
<1>11. t.error = Ok => AllWhole(cells, t.sections, t.locations, writes)
  BY <1>6, <1>9, ParsedWhole DEF t
<1>12. /\ disk'[path] = cells /\ contents'[path] = writes /\ DOMAIN contents' = Paths
       /\ openFile' = cells /\ Writes' = writes
       /\ \A p \in Paths : p # path => disk'[p] = disk[p] /\ contents'[p] = contents[p]
  BY <1>1, <1>2 DEF openFile, Writes
<1>13. Types'
  <2>1. disk' \in [Paths -> Seq(Cells)]
    BY <1>1, <1>2, <1>6
  <2>2. \A p \in Paths : /\ DOMAIN contents'[p] \in SUBSET SectionNames
                         /\ contents'[p] \in [DOMAIN contents'[p] -> Write]
    BY <1>1, <1>7, <1>12 DEF Types
  <2> QED BY <1>1, <1>2, <1>3, <1>10, <1>12, <2>1, <2>2 DEF Types
<1>14. Fronts'
  BY <1>1, <1>8, <1>12 DEF Fronts
<1>15. ~IsBusy' /\ ~IsBusy
  BY <1>2 DEF IsBusy
<1>16. Table' /\ Writing'
  BY <1>2, <1>10, <1>12, <1>15 DEF Table, Writing
<1>17. ASSUME NEW p \in intact' PROVE Untouched(p)'
  <2>1. CASE p # path
    <3>1. p \in intact /\ p \in Paths
      BY <1>1, <1>2, <1>17
    <3>2. \E s, l : AllWhole(disk[p], s, l, contents[p])
      BY <1>1, <1>15, <3>1 DEF Intact, Untouched
    <3> QED BY <1>2, <1>12, <2>1, <3>1, <3>2 DEF Untouched
  <2>2. CASE p = path
    BY <1>2, <1>6, <1>11, <1>12, <2>2 DEF Untouched
  <2> QED BY <2>1, <2>2
<1>18. Intact'
  BY <1>15, <1>17 DEF Intact
<1> QED BY <1>13, <1>14, <1>16, <1>18 DEF SectionsInv

-----------------------------------------------------------------------------
(* The data of a section, and the callbacks.                               *)

\* What WriteSectionData leaves behind when n of the cells are written.
DataWritten(length, n) ==
    /\ disk' = [disk EXCEPT ![m_Filename] =
                  Overwrite(openFile, closing.dataOffset, DataCells(sections', n))]
    /\ \/ /\ n = length /\ intact' = intact
          /\ closing' = [closing EXCEPT !.length = length, !.write = sections']
       \/ /\ intact' = intact \ {m_Filename}
          /\ \E m \in 0 .. length : closing' = [closing EXCEPT !.length = m, !.good = FALSE]

\* Of the captured values only the length, the write and "good" change.
LEMMA ClosingKnows ==
    ASSUME closing \in Closing, NEW length \in Nat, NEW n \in 0 .. length, sections' \in Nat,
           DataWritten(length, n)
    PROVE  /\ closing' \in Closing /\ closing'.length \in Nat
           /\ closing'.headerOffset = closing.headerOffset /\ closing'.dataOffset = closing.dataOffset
           /\ closing'.oldLength = closing.oldLength
           /\ \/ /\ n = length /\ intact' = intact /\ closing'.good = closing.good
                 /\ closing'.length = length /\ closing'.write = sections'
              \/ intact' = intact \ {m_Filename} /\ closing'.good = FALSE
<1>1. CASE n = length /\ intact' = intact
           /\ closing' = [closing EXCEPT !.length = length, !.write = sections']
  BY <1>1 DEF Closing
<1>2. ASSUME NEW m \in 0 .. length, closing' = [closing EXCEPT !.length = m, !.good = FALSE],
             intact' = intact \ {m_Filename}
      PROVE  /\ closing' \in Closing /\ closing'.length \in Nat
             /\ closing'.headerOffset = closing.headerOffset /\ closing'.dataOffset = closing.dataOffset
             /\ closing'.oldLength = closing.oldLength /\ closing'.good = FALSE
  <2>1. m \in Nat
    BY <1>2
  <2>2. closing = [headerOffset |-> closing.headerOffset, dataOffset |-> closing.dataOffset,
                   oldLength |-> closing.oldLength, length |-> closing.length,
                   write |-> closing.write, good |-> closing.good]
    BY DEF Closing
  <2>3. closing' = [headerOffset |-> closing.headerOffset, dataOffset |-> closing.dataOffset,
                    oldLength |-> closing.oldLength, length |-> m,
                    write |-> closing.write, good |-> FALSE]
    BY <1>2, <2>2
  <2> QED BY <2>1, <2>3 DEF Closing
<1> QED BY <1>1, <1>2 DEF DataWritten

\* The data goes behind the header of the section, all of it or a part.
LEMMA WriteSectionDataKeeps ==
    ASSUME SectionsInv, NEW length \in SectionLengths, WriteSectionData(length)
    PROVE  SectionsInv'
<1> DEFINE offset == closing.dataOffset  name == m_CurrentWritingProps
<1>1. /\ Types /\ Fronts /\ Table /\ Writing /\ Intact
      /\ disk \in [Paths -> Seq(Cells)] /\ m_Filename \in Paths /\ openFile \in Seq(Cells)
      /\ Len(openFile) \in Nat /\ intact \in SUBSET Paths
      /\ DOMAIN contents = Paths /\ closing \in Closing /\ sections \in Nat
      /\ DOMAIN Writes \in SUBSET SectionNames /\ Writes \in [DOMAIN Writes -> Write]
  BY DEF SectionsInv, Types, openFile, Writes
<1>2. /\ IsBusy /\ closing.length = -1 /\ sections' = sections + 1 /\ sections' \in Nat
      /\ m_Filename' = m_Filename /\ fileError' = fileError /\ m_Sections' = m_Sections
      /\ m_SectionLocations' = m_SectionLocations
      /\ m_CurrentWritingProps' = m_CurrentWritingProps /\ texts' = texts /\ contents' = contents
  <2>1. sections + 1 \in Nat
    BY <1>1
  <2> QED BY <2>1 DEF WriteSectionData, IsBusy
<1>3. length \in Nat /\ name \in SectionNames
  BY <1>1, <1>2, SizesAre DEF Types, IsBusy
<1>4. PICK n \in 0 .. length : DataWritten(length, n)
  <2>1. CASE /\ disk' = [disk EXCEPT ![m_Filename] = Overwrite(@, offset, DataCells(sections', length))]
             /\ closing' = [closing EXCEPT !.length = length, !.write = sections']
             /\ intact' = intact
    <3>1. length \in 0 .. length
      BY <1>3
    <3>2. disk' = [disk EXCEPT ![m_Filename] = Overwrite(openFile, offset, DataCells(sections', length))]
      BY <2>1 DEF openFile
    <3> QED BY <2>1, <3>1, <3>2 DEF DataWritten
  <2>2. CASE /\ Fail
             /\ \E n \in 0 .. length - 1 :
                  disk' = [disk EXCEPT ![m_Filename] = Overwrite(@, offset, DataCells(sections', n))]
             /\ closing' \in {[closing EXCEPT !.length = m, !.good = FALSE] : m \in 0 .. length}
    <3>1. PICK n \in 0 .. length - 1 :
            disk' = [disk EXCEPT ![m_Filename] = Overwrite(@, offset, DataCells(sections', n))]
      BY <2>2
    <3>2. n \in 0 .. length
      BY <1>3
    <3>3. disk' = [disk EXCEPT ![m_Filename] = Overwrite(openFile, offset, DataCells(sections', n))]
      BY <3>1 DEF openFile
    <3> QED BY <2>2, <3>2, <3>3 DEF DataWritten, Fail
  <2> QED BY <2>1, <2>2 DEF WriteSectionData
<1> DEFINE data == DataCells(sections', n)  new == Overwrite(openFile, offset, data)
<1>5. /\ closing' \in Closing /\ closing'.length \in Nat
      /\ closing'.headerOffset = closing.headerOffset /\ closing'.dataOffset = closing.dataOffset
      /\ closing'.oldLength = closing.oldLength
      /\ \/ /\ n = length /\ intact' = intact /\ closing'.good = closing.good
            /\ closing'.length = length /\ closing'.write = sections'
         \/ intact' = intact \ {m_Filename} /\ closing'.good = FALSE
  BY <1>1, <1>2, <1>3, <1>4, ClosingKnows
<1>6. /\ closing.headerOffset \in Nat /\ HeaderSize[name] \in Nat \ {0}
      /\ offset = closing.headerOffset + HeaderSize[name] /\ offset <= Len(openFile)
      /\ offset \in Nat /\ closing.oldLength \in Nat
  BY <1>1, <1>2, <1>3, SizesAre DEF Writing, Closing
<1>7. /\ data \in Seq(Cells) /\ Len(data) = n
      /\ \A i \in 1 .. n : data[i] = Cell("data", NoSection, sections', i)
  <2>1. n \in Nat
    BY <1>3
  <2> QED BY <1>2, <2>1, DataCellsAre
<1>8. disk' = [disk EXCEPT ![m_Filename] = new]
  BY <1>4 DEF DataWritten
<1> HIDE DEF data, offset, name
<1>9. /\ new \in Seq(Cells)
      /\ Len(new) = IF Len(openFile) > offset + n THEN Len(openFile) ELSE offset + n
      /\ \A x \in 1 .. n : new[offset + x] = data[x]
      /\ \A x \in 1 .. Len(openFile) : x <= offset \/ x > offset + n => new[x] = openFile[x]
  <2>1. /\ new \in Seq(Cells)
        /\ Len(new) = IF Len(openFile) > offset + Len(data) THEN Len(openFile) ELSE offset + Len(data)
        /\ \A x \in 1 .. Len(data) : new[offset + x] = data[x]
        /\ \A x \in 1 .. Len(openFile) : x <= offset \/ x > offset + Len(data) => new[x] = openFile[x]
    BY <1>1, <1>6, <1>7, OverwriteCells
  <2> QED BY <1>7, <2>1
<1> HIDE DEF new
<1>10. /\ Len(new) \in Nat /\ offset <= Len(new) /\ offset + n <= Len(new) /\ Len(openFile) <= Len(new)
       /\ \A x \in 1 .. offset : new[x] = openFile[x]
       /\ DataAt(new, offset, n, sections')
  BY <1>7, <1>9, <1>1, <1>6 DEF DataAt
<1>11. /\ openFile' = new /\ Writes' = Writes
       /\ \A p \in Paths : p # m_Filename => disk'[p] = disk[p]
  BY <1>1, <1>2, <1>8 DEF openFile, Writes
<1>12. Types'
  BY <1>1, <1>8, <1>9, <1>5, <1>2 DEF Types
<1>13. ASSUME FrameCapture \in DOMAIN Writes
       PROVE  /\ FrontEnd(Writes[FrameCapture]) <= closing.headerOffset
              /\ InFront(new, Writes[FrameCapture])
  <2> DEFINE w == Writes[FrameCapture]
  <2>1. w \in Write /\ InFront(openFile, w)
    BY <1>1, <1>13 DEF Fronts, openFile, Writes
  <2>2. closing.headerOffset >= FrontEnd(w)
    BY <1>1, <1>2, <1>13 DEF Writing
  <2> HIDE DEF w
  <2>3. FrontEnd(w) \in Nat
    BY <1>1, <2>1, HeaderInFront
  <2>4. FrontEnd(w) <= offset /\ FrontEnd(w) <= Len(new)
    BY <1>6, <1>10, <2>2, <2>3
  <2>5. \A x \in 1 .. FrontEnd(w) : new[x] = openFile[x]
    BY <1>6, <1>10, <2>3, <2>4
  <2> QED BY <1>1, <1>9, <2>1, <2>2, <2>3, <2>4, <2>5, FrontKept DEF w
<1>14. Fronts'
  BY <1>2, <1>1, <1>11, <1>13 DEF Fronts, openFile, Writes
<1>15. Table'
  BY <1>1, <1>2, <1>11 DEF Table, IsBusy
<1>16. Writing'
  <2>1. /\ fileError = Ok
        /\ m_CurrentWritingProps = FrameCapture =>
             m_Sections = <<>> /\ closing.headerOffset = 1 /\ DOMAIN Writes = {}
        /\ m_CurrentWritingProps # FrameCapture => m_Sections # <<>>
        /\ FrameCapture \in DOMAIN Writes =>
             closing.headerOffset >= FrontEnd(Writes[FrameCapture])
        /\ offset = closing.headerOffset + HeaderSize[m_CurrentWritingProps]
    BY <1>1, <1>2, <1>6 DEF Writing, name
  <2>2. ASSUME closing'.good
        PROVE  /\ offset + closing'.length <= Len(new)
               /\ DataAt(new, offset, closing'.length, closing'.write)
    BY <1>5, <1>10, <2>2
  <2> QED BY <1>2, <1>5, <1>10, <1>11, <2>1, <2>2 DEF Writing, offset
<1>17. ASSUME NEW p \in intact', ~(p = m_Filename') PROVE Untouched(p)'
  BY <1>1, <1>2, <1>5, <1>17, <1>11 DEF Intact, Untouched
<1>18. ASSUME m_Filename \in intact' PROVE Behind'
  <2>1. m_Filename \in intact /\ n = length /\ closing'.good = closing.good /\ closing'.length = length
    BY <1>1, <1>5, <1>18
  <2>2. Behind
    BY <1>1, <1>2, <2>1 DEF Intact
  <2>3. Whole(new, m_Sections, m_SectionLocations, closing.headerOffset, Writes)
    <3>1. Whole(openFile, m_Sections, m_SectionLocations, closing.headerOffset, Writes)
      BY <2>2 DEF Behind
    <3>2. /\ closing.headerOffset <= Len(new)
          /\ \A x \in 1 .. closing.headerOffset : new[x] = openFile[x]
      <4> DEFINE start == closing.headerOffset
      <4>1. start \in Nat /\ offset \in Nat /\ start <= offset
        BY <1>6
      <4> HIDE DEF start
      <4>2. \A x \in 1 .. start : x \in 1 .. offset
        BY <4>1
      <4>3. Len(new) \in Nat /\ offset <= Len(new) /\ \A x \in 1 .. offset : new[x] = openFile[x]
        BY <1>10
      <4> QED BY <4>1, <4>2, <4>3 DEF start
    <3> QED BY <1>1, <1>9, <3>1, <3>2, SamePrefix
  <2>4. Len(openFile) <= offset + closing.oldLength
    BY <1>2, <2>2 DEF Behind, offset
  <2>5. Len(new) <= offset + closing.oldLength \/ Len(new) <= offset + length
    BY <1>1, <1>6, <1>9, <2>1, <2>4
  <2>6. length # -1
    BY <1>3
  <2>7. closing.good /\ m_CurrentWritingProps \notin DOMAIN Writes
    BY <2>2 DEF Behind
  <2> QED BY <1>2, <1>5, <1>11, <2>1, <2>3, <2>5, <2>6, <2>7 DEF Behind, offset
<1>19. Intact'
  BY <1>2, <1>17, <1>18 DEF Intact, IsBusy
<1> QED BY <1>12, <1>14, <1>15, <1>16, <1>19 DEF SectionsInv

\* Nothing is left of a writer while no section is written.
NotWriting == ~IsBusy => closing.length = -1

\* What the truncation leaves, and keeps.
LEMMA TruncatedKeeps ==
    ASSUME NEW cells \in Seq(Cells), closing \in Closing, closing.length \in Nat
    PROVE  LET end == closing.dataOffset + closing.length  new == Truncated(cells) IN
           /\ new \in Seq(Cells)
           /\ Len(new) = IF closing.oldLength > closing.length THEN end ELSE Len(cells)
           /\ \A x \in 1 .. end : x <= Len(cells) => x <= Len(new) /\ new[x] = cells[x]
<1> DEFINE end == closing.dataOffset + closing.length
<1>1. end \in Nat /\ closing.oldLength \in Nat
  BY DEF Closing
<1> HIDE DEF end
<1>2. CASE closing.oldLength > closing.length
  <2>1. Truncated(cells) = TruncateAt(cells, end)
    BY <1>2 DEF Truncated, end
  <2>2. /\ TruncateAt(cells, end) \in Seq(Cells) /\ Len(TruncateAt(cells, end)) = end
        /\ \A x \in 1 .. end : x <= Len(cells) => TruncateAt(cells, end)[x] = cells[x]
    BY <1>1, TruncatedCells
  <2>3. \A x \in 1 .. end : x <= end
    BY <1>1
  <2> QED BY <1>2, <2>1, <2>2, <2>3 DEF end
<1>3. CASE ~(closing.oldLength > closing.length)
  BY <1>3 DEF Truncated, end
<1> QED BY <1>2, <1>3

\* What the callbacks leave: the header of the section is written, or it failed.
Closed(base) ==
    /\ disk' = [disk EXCEPT ![m_Filename] = Truncated(base)]
    /\ \/ /\ fileError' = fileError /\ intact' = intact
          /\ base = Overwrite(openFile, closing.headerOffset,
                              Header("binary", m_CurrentWritingProps, closing.length))
          /\ \/ closing.good /\ contents' = [contents EXCEPT ![m_Filename] =
                     With(Writes, m_CurrentWritingProps, closing.write, closing.length)]
             \/ ~closing.good /\ contents' = contents
       \/ /\ fileError' = Failed /\ intact' = intact \ {m_Filename}
          /\ base = openFile /\ contents' = contents

LEMMA CloseSectionCloses ==
    ASSUME closing \in Closing, CloseSection
    PROVE  \E base : Closed(base)
<1> DEFINE header == Header("binary", m_CurrentWritingProps, closing.length)
           base == Overwrite(openFile, closing.headerOffset, header)
<1>1. CASE /\ disk' = [disk EXCEPT ![m_Filename] =
                         Truncated(Overwrite(@, closing.headerOffset, header))]
           /\ contents' = IF ~closing.good THEN contents
                          ELSE [contents EXCEPT ![m_Filename] =
                                  With(@, m_CurrentWritingProps, closing.write, closing.length)]
           /\ UNCHANGED <<fileError, sectionFailures, intact>>
  BY <1>1 DEF openFile, Writes, Closed
<1>2. CASE /\ Fail /\ fileError' = Failed
           /\ disk' = [disk EXCEPT ![m_Filename] = Truncated(@)] /\ UNCHANGED contents
  BY <1>2 DEF openFile, Closed, Fail
<1> QED BY <1>1, <1>2 DEF CloseSection

\* The header gets its length, and the table the section.
LEMMA CloseSectionKeeps ==
    ASSUME SectionsInv, NotWriting, CloseSection
    PROVE  SectionsInv'
<1> DEFINE name == m_CurrentWritingProps  length == closing.length  start == closing.headerOffset
           data == closing.dataOffset  header == Header("binary", name, length)
           loc == [headerOffset |-> start, dataOffset |-> data, diskLength |-> length]
           h == HeaderSize[name]
<1>1. /\ Types /\ Fronts /\ Table /\ Writing /\ Intact
      /\ disk \in [Paths -> Seq(Cells)] /\ m_Filename \in Paths /\ openFile \in Seq(Cells)
      /\ Len(openFile) \in Nat /\ intact \in SUBSET Paths
      /\ DOMAIN contents = Paths /\ closing \in Closing
      /\ DOMAIN Writes \in SUBSET SectionNames /\ Writes \in [DOMAIN Writes -> Write]
      /\ m_Sections \in Seq(SectionNames) /\ m_SectionLocations \in Seq(Locations)
      /\ Len(m_Sections) = Len(m_SectionLocations)
  BY DEF SectionsInv, Types, openFile, Writes
<1>2. /\ length >= 0 /\ m_Filename' = m_Filename /\ m_CurrentWritingProps' = NoSection
      /\ closing' = NoClosing /\ sections' = sections /\ texts' = texts
      /\ m_Sections' = Append(m_Sections, name)
      /\ m_SectionLocations' = Append(m_SectionLocations, loc)
  BY DEF CloseSection
<1>3. IsBusy /\ length \in Nat /\ ~IsBusy'
  BY <1>1, <1>2 DEF NotWriting, Closing, IsBusy
<1>4. /\ name \in SectionNames /\ h \in Nat \ {0} /\ start \in Nat /\ data \in Nat
      /\ closing.oldLength \in Nat /\ closing.write \in Nat
      /\ data = start + h /\ data <= Len(openFile) /\ start < data /\ start <= data
  <2>1. /\ name \in SectionNames /\ data = start + h /\ data <= Len(openFile)
    BY <1>1, <1>3 DEF Types, IsBusy, Writing
  <2>2. /\ start \in Nat /\ data \in Nat /\ closing.oldLength \in Nat /\ closing.write \in Nat
    BY <1>1 DEF Closing
  <2>3. h \in Nat \ {0}
    BY <2>1, SizesAre
  <2> HIDE DEF name, start, data, h
  <2> QED BY <2>1, <2>2, <2>3
<1>5. /\ fileError = Ok
      /\ name = FrameCapture => m_Sections = <<>> /\ start = 1 /\ DOMAIN Writes = {}
      /\ name # FrameCapture => m_Sections # <<>>
      /\ FrameCapture \in DOMAIN Writes => start >= FrontEnd(Writes[FrameCapture])
      /\ closing.good => /\ data + length <= Len(openFile)
                         /\ DataAt(openFile, data, length, closing.write)
  BY <1>3, <1>1 DEF Writing
<1>6. /\ header \in Seq(Cells) /\ Len(header) = h /\ header[1] = Cell("binary", name, 0, length)
  BY <1>4, SizeOfHeaders, <1>3, HeaderCells
<1>7. PICK base : Closed(base)
  BY <1>1, CloseSectionCloses
<1> DEFINE new == Truncated(base)  written == Overwrite(openFile, start, header)
           added == With(Writes, name, closing.write, length)
<1>8. /\ disk' = [disk EXCEPT ![m_Filename] = new]
      /\ \/ /\ fileError' = fileError /\ intact' = intact /\ base = written
            /\ \/ closing.good /\ contents' = [contents EXCEPT ![m_Filename] = added]
               \/ ~closing.good /\ contents' = contents
         \/ /\ fileError' = Failed /\ intact' = intact \ {m_Filename}
            /\ base = openFile /\ contents' = contents
  BY <1>7 DEF Closed
<1> HIDE DEF header, written
<1>9. /\ written \in Seq(Cells) /\ Len(written) = Len(openFile)
      /\ \A x \in 1 .. h : written[start + x] = header[x]
      /\ \A x \in 1 .. Len(openFile) : x <= start \/ x > data => written[x] = openFile[x]
  <2>1. /\ written \in Seq(Cells)
        /\ Len(written) = IF Len(openFile) > start + h THEN Len(openFile) ELSE start + h
        /\ \A x \in 1 .. h : written[start + x] = header[x]
        /\ \A x \in 1 .. Len(openFile) : x <= start \/ x > start + h => written[x] = openFile[x]
    <3>0. openFile \in Seq(Cells) /\ start \in Nat /\ header \in Seq(Cells)
      BY <1>1, <1>4, <1>6
    <3> HIDE DEF start, h
    <3>1. /\ written \in Seq(Cells)
          /\ Len(written) = IF Len(openFile) > start + Len(header) THEN Len(openFile)
                            ELSE start + Len(header)
          /\ \A x \in 1 .. Len(header) : written[start + x] = header[x]
          /\ \A x \in 1 .. Len(openFile) :
               x <= start \/ x > start + Len(header) => written[x] = openFile[x]
      BY <3>0, OverwriteCells DEF written
    <3> QED BY <1>6, <3>1
  <2>2. Len(written) = Len(openFile)
    BY <1>1, <1>4, <2>1
  <2> HIDE DEF start, data
  <2> QED BY <1>4, <2>1, <2>2
<1> HIDE DEF name, length, start, data, h
<1>10. /\ base \in Seq(Cells) /\ Len(base) = Len(openFile)
       /\ \A x \in 1 .. start : base[x] = openFile[x]
  BY <1>1, <1>4, <1>9, <1>8
<1>11. /\ new \in Seq(Cells)
       /\ Len(new) = IF closing.oldLength > length THEN data + length ELSE Len(base)
       /\ \A x \in 1 .. data + length : x <= Len(base) => x <= Len(new) /\ new[x] = base[x]
  BY <1>1, <1>3, <1>10, TruncatedKeeps DEF length, data
<1> HIDE DEF new
<1>12. /\ Len(new) \in Nat /\ start <= Len(new)
       /\ \A x \in 1 .. start : new[x] = openFile[x]
  <2>1. \A x \in 1 .. start : x \in 1 .. data + length /\ x <= Len(base)
    BY <1>1, <1>3, <1>4, <1>10
  <2>2. Len(new) \in Nat /\ start <= Len(new)
    BY <1>1, <1>3, <1>4, <1>10, <1>11
  <2> QED BY <1>10, <1>11, <2>1, <2>2
<1>13. ASSUME closing.good, base = written
       PROVE  /\ data + length <= Len(new) /\ DataAt(new, data, length, closing.write)
              /\ \A x \in 1 .. h : new[start + x] = header[x]
  <2>1. data + length <= Len(base)
    BY <1>5, <1>10, <1>13
  <2>2. data + length <= Len(new)
    BY <1>1, <1>3, <1>4, <1>10, <1>11, <2>1
  <2>3. ASSUME NEW x \in 1 .. h PROVE new[start + x] = header[x]
    <3>1. start + x \in 1 .. data + length /\ start + x <= Len(base)
      BY <1>3, <1>4, <1>10
    <3> QED BY <1>9, <1>11, <1>13, <3>1
  <2>4. ASSUME NEW n \in 1 .. length
        PROVE  new[data + n] = Cell("data", NoSection, closing.write, n)
    <3>1. /\ data + n \in 1 .. data + length /\ data + n <= Len(base)
          /\ data + n \in 1 .. Len(openFile) /\ data + n > data
      <4>1. /\ data \in Nat /\ length \in Nat /\ data + length <= Len(base)
            /\ Len(base) = Len(openFile) /\ Len(openFile) \in Nat
        BY <1>1, <1>3, <1>4, <1>10, <2>1
      <4> QED BY <4>1
    <3>2. new[data + n] = base[data + n]
      BY <1>11, <3>1
    <3>3. written[data + n] = openFile[data + n]
      BY <1>9, <3>1
    <3>4. openFile[data + n] = Cell("data", NoSection, closing.write, n)
      BY <1>5, <1>13 DEF DataAt
    <3> QED BY <1>13, <3>2, <3>3, <3>4
  <2> QED BY <2>2, <2>3, <2>4 DEF DataAt
<1>14. /\ DOMAIN added = DOMAIN Writes \cup {name} /\ DOMAIN added \in SUBSET SectionNames
       /\ added \in [DOMAIN added -> Write]
       /\ added[name] = [write |-> closing.write, length |-> length]
       /\ \A n \in DOMAIN Writes : n # name => added[n] = Writes[n]
  <2>1. /\ Writes \in [DOMAIN Writes -> Write] /\ DOMAIN Writes \in SUBSET SectionNames
        /\ name \in SectionNames /\ closing.write \in Nat /\ length \in Nat
    BY <1>1, <1>3, <1>4
  <2>2. AreWrites(Writes)
    BY <2>1 DEF AreWrites
  <2>3. AreWrites(added)
    BY <2>1, <2>2, WithIsWrites
  <2>4. /\ DOMAIN added = DOMAIN Writes \cup {name}
        /\ added[name] = [write |-> closing.write, length |-> length]
        /\ \A n \in DOMAIN Writes : n # name => added[n] = Writes[n]
    BY DEF With
  <2> QED BY <2>3, <2>4 DEF AreWrites
<1> HIDE DEF added
<1>15. /\ openFile' = new /\ DOMAIN contents' = Paths
       /\ \A p \in Paths : p # m_Filename => disk'[p] = disk[p] /\ contents'[p] = contents[p]
       /\ Writes' = contents'[m_Filename]
       /\ \/ Writes' = added /\ closing.good /\ base = written
          \/ Writes' = Writes /\ (m_Filename \in intact' => ~closing.good)
  BY <1>1, <1>2, <1>8 DEF openFile, Writes
<1>16. Types'
  <2>1. disk' \in [Paths -> Seq(Cells)]
    BY <1>1, <1>8, <1>11
  <2>2. loc \in Locations
    BY <1>3, <1>4 DEF Locations
  <2>3. /\ m_Sections' \in Seq(SectionNames) /\ m_SectionLocations' \in Seq(Locations)
        /\ Len(m_Sections') = Len(m_SectionLocations')
    BY <1>1, <1>2, <1>4, <2>2, AppendProperties
  <2>4. \A p \in Paths : /\ DOMAIN contents'[p] \in SUBSET SectionNames
                         /\ contents'[p] \in [DOMAIN contents'[p] -> Write]
    BY <1>1, <1>14, <1>15 DEF Types
  <2>5. NoClosing \in Closing
    BY DEF NoClosing, Closing
  <2>6. intact' \in SUBSET Paths /\ fileError' \in {Ok, Failed}
    BY <1>1, <1>8 DEF Types
  <2> QED BY <1>1, <1>2, <1>15, <2>1, <2>3, <2>4, <2>5, <2>6 DEF Types
<1>17. ASSUME FrameCapture \in DOMAIN Writes'
       PROVE  InFront(new, Writes'[FrameCapture])
  <2>1. CASE FrameCapture \in DOMAIN Writes
    <3> DEFINE w == Writes[FrameCapture]
    <3>1. w \in Write /\ InFront(openFile, w)
      BY <1>1, <2>1 DEF Fronts, openFile, Writes
    <3>2. start >= FrontEnd(w) /\ name # FrameCapture
      BY <1>5, <2>1
    <3>3. Writes'[FrameCapture] = w
      BY <1>14, <1>15, <2>1, <3>2
    <3> HIDE DEF w
    <3>4. FrontEnd(w) \in Nat
      BY <1>1, <3>1, HeaderInFront
    <3>5. FrontEnd(w) <= Len(new) /\ \A x \in 1 .. FrontEnd(w) : new[x] = openFile[x]
      BY <1>4, <1>12, <3>2, <3>4
    <3>6. InFront(new, w)
      BY <1>1, <1>11, <3>1, <3>5, FrontKept
    <3> QED BY <3>3, <3>6
  <2>2. CASE FrameCapture \notin DOMAIN Writes
    <3>1. Writes' = added /\ closing.good /\ base = written /\ name = FrameCapture
      BY <1>14, <1>15, <1>17, <2>2
    <3>2. start = 1 /\ h = HeaderSize[FrameCapture] /\ data = 1 + HeaderSize[FrameCapture]
      BY <1>4, <1>5, <3>1 DEF h, name
    <3>3. added[FrameCapture].write = closing.write /\ added[FrameCapture].length = length
      BY <1>14, <3>1
    <3>4. /\ data + length <= Len(new) /\ DataAt(new, data, length, closing.write)
          /\ \A x \in 1 .. h : new[start + x] = header[x]
      BY <1>13, <3>1
    <3>5. header = Header("binary", FrameCapture, length)
      BY <3>1 DEF header, name, length
    <3>6. FrontEnd(added[FrameCapture]) = data + length
      BY <3>2, <3>3 DEF FrontEnd
    <3> QED BY <3>1, <3>2, <3>3, <3>4, <3>5, <3>6 DEF InFront
  <2> QED BY <2>1, <2>2
<1>18. Fronts'
  BY <1>2, <1>15, <1>17, <1>1 DEF Fronts, openFile
<1>19. /\ loc \in Locations /\ loc.headerOffset = start /\ loc.dataOffset = data
       /\ loc.diskLength = length
  BY <1>3, <1>4 DEF Locations
<1> HIDE DEF loc
<1>20. /\ Len(m_Sections') = Len(m_Sections) + 1 /\ m_Sections' # <<>>
       /\ \A i \in 1 .. Len(m_Sections) : m_Sections'[i] = m_Sections[i]
                                          /\ m_SectionLocations'[i] = m_SectionLocations[i]
       /\ m_Sections'[Len(m_Sections) + 1] = name
       /\ m_SectionLocations'[Len(m_Sections) + 1] = loc
       /\ Len(m_Sections) \in Nat /\ m_Sections # <<>> <=> Len(m_Sections) >= 1
  <2>1. /\ Len(Append(m_Sections, name)) = Len(m_Sections) + 1
        /\ \A i \in 1 .. Len(m_Sections) : Append(m_Sections, name)[i] = m_Sections[i]
        /\ Append(m_Sections, name)[Len(m_Sections) + 1] = name
    BY <1>1, <1>4, AppendProperties
  <2>2. /\ \A i \in 1 .. Len(m_SectionLocations) :
             Append(m_SectionLocations, loc)[i] = m_SectionLocations[i]
        /\ Append(m_SectionLocations, loc)[Len(m_SectionLocations) + 1] = loc
    BY <1>1, <1>19, AppendProperties
  <2>3. Len(m_Sections) \in Nat /\ (m_Sections # <<>> <=> Len(m_Sections) >= 1)
    BY <1>1, EmptySeq
  <2>4. Append(m_Sections, name) # <<>>
    BY <2>1, <2>3, EmptySeq
  <2> QED BY <1>1, <1>2, <2>1, <2>2, <2>3, <2>4
<1>21. TableFits(m_Sections, m_SectionLocations, Writes)
  BY <1>1, <1>5 DEF Table
<1>22. Table'
  <2>1. \E i \in 1 .. Len(m_Sections') : m_Sections'[i] = FrameCapture
    <3>1. CASE name = FrameCapture
      BY <1>20, <3>1
    <3>2. CASE name # FrameCapture
      BY <1>5, <1>21, <3>2, <1>20 DEF TableFits
    <3> QED BY <3>1, <3>2
  <2>2. m_SectionLocations'[1].headerOffset = 1
    <3>1. CASE name = FrameCapture
      BY <1>5, <3>1, EmptySeq, <1>20, <1>19
    <3>2. CASE name # FrameCapture
      BY <1>5, <1>20, <3>2, <1>21 DEF TableFits
    <3> QED BY <3>1, <3>2
  <2>3. ASSUME FrameCapture \in DOMAIN Writes'
        PROVE  /\ m_Sections'[1] = FrameCapture
               /\ \A i \in 2 .. Len(m_Sections') :
                    m_SectionLocations'[i].headerOffset >= FrontEnd(Writes'[FrameCapture])
    <3>1. CASE FrameCapture \in DOMAIN Writes
      <4>1. name # FrameCapture /\ start >= FrontEnd(Writes[FrameCapture])
        BY <1>5, <3>1
      <4>2. Writes'[FrameCapture] = Writes[FrameCapture]
        BY <1>14, <1>15, <3>1, <4>1
      <4>3. /\ m_Sections[1] = FrameCapture
            /\ \A i \in 2 .. Len(m_Sections) :
                 m_SectionLocations[i].headerOffset >= FrontEnd(Writes[FrameCapture])
        BY <1>21, <3>1 DEF TableFits
      <4>4. 1 \in 1 .. Len(m_Sections)
        BY <1>5, <1>20, <4>1
      <4>5. ASSUME NEW i \in 2 .. Len(m_Sections')
            PROVE  m_SectionLocations'[i].headerOffset >= FrontEnd(Writes[FrameCapture])
        <5>1. CASE i = Len(m_Sections) + 1
          BY <1>19, <1>20, <4>1, <5>1
        <5>2. CASE i # Len(m_Sections) + 1
          BY <1>20, <5>2, <4>3
        <5> QED BY <5>1, <5>2
      <4> QED BY <1>20, <4>2, <4>3, <4>4, <4>5
    <3>2. CASE FrameCapture \notin DOMAIN Writes
      BY <1>14, <1>15, <2>3, <3>2, <1>5, EmptySeq, <1>20
    <3> QED BY <3>1, <3>2
  <2>4. TableFits(m_Sections', m_SectionLocations', Writes')
    BY <1>20, <2>1, <2>2, <2>3 DEF TableFits
  <2> QED BY <1>20, <2>4 DEF Table
<1>23. ASSUME m_Filename \in intact'
       PROVE  AllWhole(new, m_Sections', m_SectionLocations', Writes')
  <2>1. m_Filename \in intact /\ base = written
    BY <1>8, <1>23
  <2>2. Behind
    BY <1>1, <1>3, <2>1 DEF Intact
  <2>3. /\ Whole(openFile, m_Sections, m_SectionLocations, start, Writes)
        /\ closing.good /\ name \notin DOMAIN Writes
        /\ \/ Len(openFile) <= data + closing.oldLength
           \/ Len(openFile) <= data + length
    BY <2>2 DEF Behind, start, name, data, length
  <2>4. Writes' = added
    BY <1>15, <1>23, <2>3
  <2>5. Whole(new, m_Sections, m_SectionLocations, start, Writes)
    BY <1>1, <1>11, <1>12, <2>3, SamePrefix
  <2>6. /\ data + length <= Len(new) /\ DataAt(new, data, length, closing.write)
        /\ \A x \in 1 .. h : new[start + x] = header[x]
    BY <1>13, <2>1, <2>3
  <2>7. EndOf(loc) = Len(new)
    <3>1. EndOf(loc) = data + length
      BY <1>19 DEF EndOf
    <3>2. data + length <= Len(openFile)
      BY <1>5, <2>3
    <3>3. Len(new) = data + length
      <4>1. Len(openFile) <= data + closing.oldLength \/ Len(openFile) <= data + length
        BY <2>3
      <4>2. CASE closing.oldLength > length
        BY <1>11, <4>2
      <4>3. CASE ~(closing.oldLength > length)
        <5>1. Len(openFile) = data + length
          BY <1>1, <1>3, <1>4, <3>2, <4>1, <4>3
        <5> QED BY <1>10, <1>11, <4>3, <5>1
      <4> QED BY <4>2, <4>3
    <3> QED BY <3>1, <3>3
  <2>8. Section(new, loc, name)
    <3> DEFINE first == new[start + 1]
    <3>1. 1 \in 1 .. h
      BY <1>4
    <3>2. first = [kind |-> "binary", name |-> name, write |-> 0, n |-> length]
      BY <1>6, <2>6, <3>1 DEF Cell
    <3> HIDE DEF first
    <3>3. first.kind = "binary" /\ first.name = name /\ first.n = length
      BY <3>2
    <3>4. SizeOf(first.kind, name) = h
      BY <1>4, <3>3, SizeOfHeaders DEF h
    <3>5. /\ EndOf(loc) <= Len(new) /\ loc.headerOffset < loc.dataOffset
          /\ new[loc.headerOffset + 1] = first /\ loc.dataOffset = loc.headerOffset + h
      BY <1>4, <1>12, <1>19, <2>7 DEF first
    <3> QED BY <1>19, <3>3, <3>4, <3>5 DEF Section
  <2>9. Whole(new, Append(m_Sections, name), Append(m_SectionLocations, loc), EndOf(loc),
              With(Writes, name, closing.write, loc.diskLength))
    <3>1. m_Sections = <<>> => name = FrameCapture
      BY <1>5
    <3>2. DataAt(new, loc.dataOffset, loc.diskLength, closing.write)
      BY <1>19, <2>6
    <3> QED BY <1>4, <1>11, <1>19, <2>3, <2>5, <2>8, <3>1, <3>2, SectionAppended
  <2>10. With(Writes, name, closing.write, loc.diskLength) = Writes'
    BY <1>19, <2>4 DEF added
  <2> QED BY <1>2, <2>7, <2>9, <2>10 DEF AllWhole
<1>24. ASSUME NEW p \in intact' PROVE Untouched(p)'
  <2>1. CASE p = m_Filename
    BY <1>23, <1>24, <2>1, <1>2, <1>15 DEF openFile, Untouched
  <2>2. CASE p # m_Filename
    <3>1. p \in intact /\ p \in Paths
      BY <1>1, <1>8, <1>24
    <3>2. \E secs, locs : AllWhole(disk[p], secs, locs, contents[p])
      BY <1>1, <2>2, <3>1 DEF Intact, Untouched
    <3> QED BY <1>2, <1>15, <2>2, <3>1, <3>2 DEF Untouched
  <2> QED BY <2>1, <2>2
<1>25. Writing' /\ Intact'
  BY <1>3, <1>24 DEF Writing, Intact
<1> QED BY <1>16, <1>18, <1>22, <1>25 DEF SectionsInv

-----------------------------------------------------------------------------
(* Every step.                                                             *)

\* Only the data of a section sets the length of it, and the callbacks follow.
LEMMA IdleKept ==
    ASSUME SectionsInv, NotWriting, SectionsNext
    PROVE  NotWriting'
<1>1. FrameCapture # NoSection /\ \A name \in Names \cup {FrameCapture} : name # NoSection
  BY SizesAre DEF SectionNames
<1>2. closing \in Closing
  BY DEF SectionsInv, Types
<1>3. NoClosing.length = -1
  BY DEF NoClosing
<1>4. ASSUME NEW offset, NEW cells, NEW name, NEW oldLength, name # NoSection,
             m_CurrentWritingProps = NoSection, StartSection(offset, cells, name, oldLength)
      PROVE  NotWriting'
  BY <1>4 DEF NotWriting, IsBusy, StartSection, BeginSection
<1>5. ASSUME NEW path \in Paths, NEW lenient \in BOOLEAN, Open(path, lenient) PROVE NotWriting'
  BY <1>3, <1>5 DEF Open, NotWriting
<1>6. ASSUME NEW path \in Paths, CopyFileTo(path) PROVE NotWriting'
  BY <1>6 DEF CopyFileTo, NotWriting, IsBusy
<1>7. ASSUME NEW path \in Paths, NEW name \in Names, NEW length \in SectionLengths,
             AppendByHand(path, name, length)
      PROVE  NotWriting'
  BY <1>7 DEF AppendByHand, NotWriting, IsBusy
<1>8. ASSUME NEW name \in Names \cup {FrameCapture}, AppendSection(name) PROVE NotWriting'
  BY <1>1, <1>4, <1>8 DEF AppendSection, MayWrite
<1>9. ASSUME NEW name \in Names \cup {FrameCapture}, ReplaceSection(name) PROVE NotWriting'
  BY <1>1, <1>4, <1>9 DEF ReplaceSection, MayWrite
<1>10. CASE OverwriteFrameCapture
  BY <1>1, <1>4, <1>10 DEF OverwriteFrameCapture, MayWrite
<1>11. CASE RewriteFrameCapture
  BY <1>11 DEF RewriteFrameCapture, NotWriting, IsBusy
<1>12. ASSUME NEW length \in SectionLengths, WriteSectionData(length) PROVE NotWriting'
  BY <1>12 DEF WriteSectionData, NotWriting, IsBusy
<1>13. CASE CloseSection
  BY <1>3, <1>13 DEF CloseSection, NotWriting
<1> QED BY <1>5, <1>6, <1>7, <1>8, <1>9, <1>10, <1>11, <1>12, <1>13 DEF SectionsNext

\* One case for each operation on the file.
LEMMA StepKeepsSections ==
    ASSUME SectionsInv, NotWriting, SectionsNext
    PROVE  SectionsInv'
<1>1. \A name \in Names \cup {FrameCapture} : name \in SectionNames
  BY DEF SectionNames
<1>2. ASSUME NEW path \in Paths, NEW lenient \in BOOLEAN, Open(path, lenient) PROVE SectionsInv'
  BY <1>2, OpenKeeps
<1>3. ASSUME NEW path \in Paths, CopyFileTo(path) PROVE SectionsInv'
  BY <1>3, CopyFileToKeeps
<1>4. ASSUME NEW path \in Paths, NEW name \in Names, NEW length \in SectionLengths,
             AppendByHand(path, name, length)
      PROVE  SectionsInv'
  BY <1>4, AppendByHandKeeps
<1>5. ASSUME NEW name \in Names \cup {FrameCapture}, AppendSection(name) PROVE SectionsInv'
  BY <1>1, <1>5, AppendSectionKeeps
<1>6. ASSUME NEW name \in Names \cup {FrameCapture}, ReplaceSection(name) PROVE SectionsInv'
  BY <1>1, <1>6, ReplaceSectionKeeps
<1>7. CASE OverwriteFrameCapture
  BY <1>7, OverwriteFrameCaptureKeeps
<1>8. CASE RewriteFrameCapture
  BY <1>8, RewriteFrameCaptureKeeps
<1>9. ASSUME NEW length \in SectionLengths, WriteSectionData(length) PROVE SectionsInv'
  BY <1>9, WriteSectionDataKeeps
<1>10. CASE CloseSection
  BY <1>10, CloseSectionKeeps
<1> QED BY <1>2, <1>3, <1>4, <1>5, <1>6, <1>7, <1>8, <1>9, <1>10 DEF SectionsNext

\* Nothing happens.
LEMMA StutterKeepsSections ==
    ASSUME SectionsInv, NotWriting, UNCHANGED sectionVars
    PROVE  SectionsInv' /\ NotWriting'
<1>1. /\ disk' = disk /\ m_Filename' = m_Filename /\ fileError' = fileError
      /\ m_Sections' = m_Sections /\ m_SectionLocations' = m_SectionLocations
      /\ m_CurrentWritingProps' = m_CurrentWritingProps /\ closing' = closing
      /\ sections' = sections /\ texts' = texts /\ contents' = contents /\ intact' = intact
  BY DEF sectionVars, objectVars
<1>2. openFile' = openFile /\ Writes' = Writes /\ IsBusy' = IsBusy
  BY <1>1 DEF openFile, Writes, IsBusy
<1>3. Types' /\ Fronts'
  BY <1>1 DEF SectionsInv, Types, Fronts
<1>4. Table' /\ Writing' /\ NotWriting'
  BY <1>1, <1>2 DEF SectionsInv, Table, Writing, NotWriting
<1>5. ASSUME NEW p \in intact', ~(p = m_Filename' /\ IsBusy') PROVE Untouched(p)'
  BY <1>1, <1>2, <1>5 DEF SectionsInv, Intact, Untouched
<1>6. m_Filename' \in intact' /\ IsBusy' => Behind'
  BY <1>1, <1>2 DEF SectionsInv, Intact, Behind
<1> QED BY <1>3, <1>4, <1>5, <1>6 DEF SectionsInv, Intact

\* A capture file in which no write failed can be read again, wherever whoever wrote
\* it stopped: the table that RDCFile::Init makes of it, and that of an object that
\* has it open, have every section that was written and not replaced, with its last
\* data.  And whatever WriteSection moves or adds behind it, the frame capture stays
\* in the front of the file as it was written, in the files in which a write failed
\* too.
THEOREM SectionsLast == SectionsSpec => []SectionsOnDisk
<1>1. SectionsInit => SectionsInv /\ NotWriting
  BY InitSections DEF SectionsInit, NoClosing, NotWriting
<1>2. SectionsInv /\ NotWriting /\ [SectionsNext]_sectionVars => (SectionsInv /\ NotWriting)'
  BY IdleKept, StepKeepsSections, StutterKeepsSections
<1>3. SectionsInv => SectionsOnDisk
  BY InvFrameCaptureStays, InvTableOnDisk DEF SectionsOnDisk
<1> QED BY <1>1, <1>2, <1>3, PTL DEF SectionsSpec
===============================================================================
