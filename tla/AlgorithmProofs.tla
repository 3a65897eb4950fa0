---------------------------- MODULE AlgorithmProofs ---------------------------
(***************************************************************************)
(* Three algorithms, for every input.                                      *)
(*                                                                         *)
(* A breakpoint in a source file is set where that line ended up.          *)
(*                                                                         *)
(* Between calls the map of struct Intervals is the composition, point by  *)
(* point, of all that was ever updated and merged, and has no two          *)
(* neighbours of the same value, for any range of points and any values.   *)
(*                                                                         *)
(* A debug session, of a draw call or of a frame of any traces, is where   *)
(* the front end shows it, and no command passes a breakpoint.             *)
(***************************************************************************)
EXTENDS Intervals, DebugSession, SequenceTheorems, NaturalsInduction, WellFoundedInduction, TLAPS

-----------------------------------------------------------------------------
(* LineBreakpointsMapper.                                                  *)

\* The code reads a text from its beginning.
LEMMA LeastLine ==
    ASSUME NEW T \in SUBSET Nat, T # {}
    PROVE  \E n \in T : \A k \in T : n <= k
  <1>1. PICK n \in T : \A k \in T : <<k, n>> \notin OpToRel(<, Nat)
    BY WFMin, NatLessThanWellFounded
  <1>2. ASSUME NEW k \in T
        PROVE  n <= k
    <2>1. k \in Nat /\ n \in Nat /\ ~(k < n)
      BY <1>1 DEF OpToRel
    <2>2. QED
      BY <2>1
  <1>3. QED
    BY <1>2

\* A section goes on to the next marker, or to the end of the text.
LEMMA NextSection ==
    ASSUME NEW Paths, NEW text \in Seq(Lines(Paths)), NEW sec \in Sections(text)
    PROVE  /\ sec \in Nat
           /\ SectionEnd(text, sec) \in sec + 1 .. Len(text) + 1
           /\ SectionEnd(text, sec) \in DOMAIN text => text[SectionEnd(text, sec)].marker
           /\ \A k \in sec + 1 .. SectionEnd(text, sec) - 1 : ~text[k].marker
  <1> DEFINE T == {other \in sec + 1 .. Len(text) + 1 : other \in DOMAIN text => text[other].marker}
  <1>1. DOMAIN text = 1 .. Len(text) /\ Len(text) \in Nat /\ sec \in 1 .. Len(text)
    BY DEF Sections
  <1>2. Len(text) + 1 \in T /\ T \in SUBSET Nat
    BY <1>1
  <1>3. PICK n \in T : \A k \in T : n <= k
    BY <1>2, LeastLine
  <1>4. \A k \in sec + 1 .. n - 1 : ~text[k].marker
    BY <1>1, <1>3
  <1>5. \E other \in sec + 1 .. Len(text) + 1 :
            /\ other \in DOMAIN text => text[other].marker
            /\ \A k \in sec + 1 .. other - 1 : ~text[k].marker
    BY <1>3, <1>4
  <1>6. /\ SectionEnd(text, sec) \in sec + 1 .. Len(text) + 1
        /\ SectionEnd(text, sec) \in DOMAIN text => text[SectionEnd(text, sec)].marker
        /\ \A k \in sec + 1 .. SectionEnd(text, sec) - 1 : ~text[k].marker
    BY <1>5, Zenon DEF SectionEnd
  <1>7. QED
    BY <1>1, <1>6

\* The numbers of a section.
LEMMA SectionNumbers ==
    ASSUME NEW Paths, NEW text \in Seq(Lines(Paths)), NEW sec \in Sections(text)
    PROVE  /\ sec \in Nat /\ text[sec].line \in Nat
           /\ SectionEnd(text, sec) \in Nat /\ SectionEnd(text, sec) > sec
           /\ SourceEnd(text, sec) = text[sec].line + SectionEnd(text, sec) - sec - 2
  <1>1. sec \in DOMAIN text /\ text[sec] \in Lines(Paths) /\ text[sec].marker
    BY DEF Sections
  <1>2. text[sec].line \in Nat
    BY <1>1 DEF Lines
  <1>3. QED
    BY <1>2, NextSection DEF SourceEnd

\* map_source_line never names a line that is not a copy of the one asked for,
\* whatever the text.
THEOREM MapsToCopies ==
    ASSUME NEW Paths, NEW text \in Seq(Lines(Paths)), NEW path, NEW line \in Nat,
           NEW k \in map_source_line(text, path, line)
    PROVE  ComesFrom(text, k, path, line)
  <1>1. PICK sec \in Found(text, path, line) :
            text[sec].line <= line /\ k = sec + line - text[sec].line + 1
    BY DEF map_source_line
  <1>2. /\ sec \in Sections(text) /\ HasPath(text, sec) /\ SectionPath(text, sec) = path
        /\ line <= SourceEnd(text, sec)
    BY <1>1 DEF Found, Usages
  <1>3. sec < k /\ k < SectionEnd(text, sec) /\ line = text[sec].line + k - sec - 1
    <2>1. PICK first \in Nat, end \in Nat :
              /\ first = text[sec].line /\ end = SectionEnd(text, sec)
              /\ SourceEnd(text, sec) = first + end - sec - 2
      BY <1>2, SectionNumbers
    <2>2. sec \in Nat
      BY <1>2, SectionNumbers
    <2>3. first <= line /\ line <= first + end - sec - 2 /\ k = sec + line - first + 1
      BY <1>1, <1>2, <2>1
    <2>4. sec < k /\ k < end /\ line = first + k - sec - 1
      BY <2>2, <2>3
    <2>5. QED
      BY <2>1, <2>4
  <1>4. QED
    BY <1>2, <1>3 DEF ComesFrom

\* map_source_line finds the copy of a line if no file repeats one: the set of
\* usages keeps each of its sections, and the first that ends no earlier than the
\* line is the one that has it.
THEOREM CopiesAreFound ==
    ASSUME NEW Paths, NEW text \in Seq(Lines(Paths)), NEW path, NEW line \in Nat,
           1 \in Sections(text), NothingTwice(text),
           NEW k \in Nat, ComesFrom(text, k, path, line)
    PROVE  k \in map_source_line(text, path, line)
  <1>1. PICK sec \in Sections(text) :
            /\ sec < k /\ k < SectionEnd(text, sec)
            /\ HasPath(text, sec) /\ SectionPath(text, sec) = path
            /\ line = text[sec].line + k - sec - 1
    BY DEF ComesFrom
  <1>2. /\ text[sec].line <= line /\ line <= SourceEnd(text, sec)
        /\ k = sec + line - text[sec].line + 1
    <2>1. PICK first \in Nat, end \in Nat :
              /\ first = text[sec].line /\ end = SectionEnd(text, sec)
              /\ SourceEnd(text, sec) = first + end - sec - 2
      BY SectionNumbers
    <2>2. sec \in Nat
      BY SectionNumbers
    <2>3. sec < k /\ k < end /\ line = first + k - sec - 1
      BY <1>1, <2>1
    <2>4. first <= line /\ line <= first + end - sec - 2 /\ k = sec + line - first + 1
      BY <2>2, <2>3
    <2>5. QED
      BY <2>1, <2>4
  <1> DEFINE usages == {other \in Sections(text) : HasPath(text, other) /\ SectionPath(text, other) = path}
  <1>3. ASSUME NEW other \in usages, other # sec
        PROVE  SourceEnd(text, sec) < text[other].line \/ SourceEnd(text, other) < text[sec].line
    BY <1>1, <1>3 DEF NothingTwice
  <1>4. ASSUME NEW other \in usages
        PROVE  /\ text[other].line \in Nat /\ SourceEnd(text, other) \in Int
               /\ text[other].line <= SourceEnd(text, other)
    <2>1. SectionEnd(text, other) > other + 1
      BY DEF NothingTwice
    <2>2. PICK first \in Nat, end \in Nat :
              /\ first = text[other].line /\ end = SectionEnd(text, other)
              /\ SourceEnd(text, other) = first + end - other - 2
      BY SectionNumbers
    <2>3. other \in Nat
      BY SectionNumbers
    <2>4. end > other + 1
      BY <2>1, <2>2
    <2>5. first + end - other - 2 \in Int /\ first <= first + end - other - 2
      BY <2>3, <2>4
    <2>6. QED
      BY <2>2, <2>5
  <1>5. sec \in usages
    BY <1>1
  <1>6. \A other \in usages : other < sec => SourceEnd(text, other) # SourceEnd(text, sec)
    <2>1. SUFFICES ASSUME NEW other \in usages, other < sec
                   PROVE  SourceEnd(text, other) # SourceEnd(text, sec)
      OBVIOUS
    <2>2. sec \in Nat /\ other \in Nat
      BY SectionNumbers
    <2>3. other # sec
      BY <2>1, <2>2
    <2>4. SourceEnd(text, sec) < text[other].line \/ SourceEnd(text, other) < text[sec].line
      <3> HIDE DEF usages
      <3>1. QED
        BY <1>3, <2>1, <2>3
    <2>5. /\ text[other].line \in Nat /\ SourceEnd(text, other) \in Int
          /\ text[other].line <= SourceEnd(text, other)
          /\ text[sec].line \in Nat /\ SourceEnd(text, sec) \in Int /\ text[sec].line <= SourceEnd(text, sec)
      BY <1>4, <1>5
    <2>6. QED
      BY <2>4, <2>5
  <1>7. sec \in Usages(text, path)
    <2>1. Len(text) # 0
      BY DEF Sections
    <2>2. QED
      BY <1>5, <1>6, <2>1 DEF Usages
  <1>8. ASSUME NEW other \in Usages(text, path), line <= SourceEnd(text, other)
        PROVE  SourceEnd(text, sec) <= SourceEnd(text, other)
    <2>1. other \in usages
      BY DEF Usages
    <2>2. CASE other = sec
      BY <1>4, <1>5, <2>2
    <2>3. CASE other # sec
      <3>1. SourceEnd(text, sec) < text[other].line \/ SourceEnd(text, other) < text[sec].line
        BY <1>3, <2>1, <2>3
      <3>2. /\ text[other].line \in Nat /\ SourceEnd(text, other) \in Int
            /\ text[other].line <= SourceEnd(text, other)
            /\ text[sec].line \in Nat /\ SourceEnd(text, sec) \in Int /\ line \in Int
        BY <1>4, <1>5, <2>1
      <3>3. text[sec].line <= line /\ line <= SourceEnd(text, other)
        BY <1>2, <1>8
      <3>4. QED
        BY <3>1, <3>2, <3>3
    <2>4. QED
      BY <2>2, <2>3
  <1>9. sec \in Found(text, path, line)
    BY <1>2, <1>7, <1>8 DEF Found
  <1>10. QED
    BY <1>2, <1>9 DEF map_source_line

-----------------------------------------------------------------------------
(* Intervals.  Everything is said of ValueAt, which split and mergeLeft     *)
(* leave alone (SplitKeeps, MergeLeftKeeps), so that one iteration of       *)
(* either loop is the composition of one stretch of points (OneStretch).    *)

USE IntervalsAssumption DEF IntervalPoints

IsMap(m) ==
    /\ m \in [DOMAIN m -> Values]
    /\ 0 \in DOMAIN m /\ DOMAIN m \subseteq IntervalPoints

\* No interval but that at p, if any, has the value of the one before it.
OnlyNeedless(m, p) ==
    \A q \in DOMAIN m \ {0} : q # p => ValueAt(m, q - 1) # ValueAt(m, q)

Calls ==
    {Idle} \cup [name : {"update"}, finish : 1 .. UINT64_MAX, val : Values]
           \cup [name : {"merge"}, other : Maps]

CoreTypes ==
    /\ IsMap(StartPoints) /\ expected \in [IntervalPoints -> Values]
    /\ call \in Calls
    /\ i \in DOMAIN StartPoints \cup {UINT64_MAX}
    /\ call.name = "merge" =>
           i # UINT64_MAX /\ j \in DOMAIN call.other /\ i >= j /\ i < finish(call.other, j)

\* What is still to be composed at a point.
Pending(x) ==
    CASE call.name = "update" /\ i <= x /\ x < call.finish -> comp(ValueAt(StartPoints, x), call.val)
      [] call.name = "merge" /\ i <= x -> comp(ValueAt(StartPoints, x), ValueAt(call.other, x))
      [] OTHER -> ValueAt(StartPoints, x)

WorkIsPending == \A x \in IntervalPoints : expected[x] = Pending(x)

ShortButForOne == OnlyNeedless(StartPoints, IF call = Idle THEN UINT64_MAX ELSE i)

IInv == CoreTypes /\ WorkIsPending /\ ShortButForOne

-----------------------------------------------------------------------------
(* Points and intervals.                                                   *)

\* The code takes them from a sorted map.
LEMMA LeastNatural ==
    ASSUME NEW T \in SUBSET Nat, T # {}
    PROVE  \E n \in T : \A k \in T : n <= k
  <1>1. PICK n \in T : \A k \in T : <<k, n>> \notin OpToRel(<, Nat)
    BY WFMin, NatLessThanWellFounded
  <1>2. ASSUME NEW k \in T
        PROVE  n <= k
    <2>1. k \in Nat /\ n \in Nat /\ ~(k < n)
      BY <1>1 DEF OpToRel
    <2>2. QED
      BY <2>1
  <1>3. QED
    BY <1>2

\* Every point is in the interval that begins last before it.
LEMMA FindFinds ==
    ASSUME NEW m, IsMap(m), NEW x \in IntervalPoints
    PROVE  /\ find(m, x) \in DOMAIN m /\ find(m, x) \in Nat /\ find(m, x) <= x
           /\ \A q \in DOMAIN m : q <= x => q <= find(m, x)
           /\ ValueAt(m, x) \in Values
  <1> DEFINE T == {x - p : p \in {q \in DOMAIN m : q <= x}}
  <1>1. T \in SUBSET Nat /\ T # {}
    BY DEF IsMap
  <1>2. PICK n \in T : \A k \in T : n <= k
    BY <1>1, LeastNatural
  <1>3. PICK p \in DOMAIN m : p <= x /\ n = x - p
    BY <1>2
  <1>4. \A q \in DOMAIN m : q <= x => q <= p
    <2>1. SUFFICES ASSUME NEW q \in DOMAIN m, q <= x PROVE q <= p
      OBVIOUS
    <2>2. x - q \in T
      BY <2>1
    <2>3. x - p <= x - q /\ q \in Int /\ p \in Int /\ x \in Int
      BY <1>2, <1>3, <2>2 DEF IsMap
    <2>4. QED
      BY <2>3
  <1>5. \E r \in DOMAIN m : r <= x /\ \A q \in DOMAIN m : q <= x => q <= r
    BY <1>3, <1>4
  <1>6. find(m, x) \in DOMAIN m /\ find(m, x) <= x /\ \A q \in DOMAIN m : q <= x => q <= find(m, x)
    BY <1>5 DEF find
  <1>7. QED
    BY <1>6 DEF IsMap, ValueAt

\* And there is only one such interval.
LEMMA FindIsUnique ==
    ASSUME NEW m, IsMap(m), NEW x \in IntervalPoints, NEW p \in DOMAIN m, p <= x,
           \A q \in DOMAIN m : q <= x => q <= p
    PROVE  find(m, x) = p
  <1>1. find(m, x) \in DOMAIN m /\ find(m, x) <= x /\ p <= find(m, x)
    BY FindFinds
  <1>2. find(m, x) <= p /\ p \in Int /\ find(m, x) \in Int
    BY <1>1 DEF IsMap
  <1>3. QED
    BY <1>1, <1>2

\* An interval ends where the next one begins, or at the end of all.
LEMMA FinishFollows ==
    ASSUME NEW m, IsMap(m), NEW p \in DOMAIN m
    PROVE  /\ finish(m, p) \in DOMAIN m \cup {UINT64_MAX} /\ finish(m, p) \in Nat
           /\ p < finish(m, p) /\ finish(m, p) <= UINT64_MAX
           /\ \A r \in DOMAIN m : r > p => finish(m, p) <= r
  <1> DEFINE T == {q \in DOMAIN m \cup {UINT64_MAX} : q > p}
  <1>1. T \in SUBSET Nat /\ UINT64_MAX \in T
    BY DEF IsMap
  <1>2. PICK n \in T : \A k \in T : n <= k
    BY <1>1, LeastNatural
  <1>3. \E q \in DOMAIN m \cup {UINT64_MAX} : q > p /\ \A r \in DOMAIN m : r > p => q <= r
    BY <1>2
  <1>4. /\ finish(m, p) \in DOMAIN m \cup {UINT64_MAX} /\ finish(m, p) > p
        /\ \A r \in DOMAIN m : r > p => finish(m, p) <= r
    BY <1>3 DEF finish
  <1>5. QED
    BY <1>4 DEF IsMap

\* The points of an interval.
LEMMA FindWithin ==
    ASSUME NEW m, IsMap(m), NEW p \in DOMAIN m, NEW x \in IntervalPoints
    PROVE  find(m, x) = p <=> p <= x /\ x < finish(m, p)
  <1>1. /\ finish(m, p) \in DOMAIN m \cup {UINT64_MAX} /\ finish(m, p) \in Nat
        /\ p < finish(m, p)
        /\ \A r \in DOMAIN m : r > p => finish(m, p) <= r
    BY FinishFollows
  <1>2. CASE p <= x /\ x < finish(m, p)
    <2>1. \A q \in DOMAIN m : q <= x => q <= p
      BY <1>1, <1>2 DEF IsMap
    <2>2. QED
      BY <1>2, <2>1, FindIsUnique
  <1>3. CASE ~(p <= x /\ x < finish(m, p))
    <2>1. CASE ~(p <= x)
      BY <2>1, FindFinds
    <2>2. CASE finish(m, p) <= x
      <3>1. finish(m, p) \in DOMAIN m
        BY <1>1, <2>2
      <3>2. finish(m, p) <= find(m, x)
        BY <2>2, <3>1, FindFinds
      <3>3. p \in Nat /\ find(m, x) \in Nat /\ finish(m, p) \in Nat /\ p < finish(m, p)
        BY <1>1, FindFinds DEF IsMap
      <3>4. find(m, x) # p
        BY <3>2, <3>3
      <3>5. QED
        BY <1>3, <3>4
    <2>3. QED
      BY <1>1, <1>3, <2>1, <2>2 DEF IsMap
  <1>4. QED
    BY <1>2, <1>3

-----------------------------------------------------------------------------
(* split and mergeLeft.                                                    *)

\* split changes the value of no point, and adds no interval but the one at p.
LEMMA SplitKeeps ==
    ASSUME NEW m, IsMap(m), NEW x \in IntervalPoints
    PROVE  /\ IsMap(split(m, x)) /\ DOMAIN split(m, x) = DOMAIN m \cup {x}
           /\ \A y \in IntervalPoints : ValueAt(split(m, x), y) = ValueAt(m, y)
  <1>1. CASE x \in DOMAIN m
    BY <1>1 DEF split
  <1>2. CASE x \notin DOMAIN m
    <2> DEFINE s == split(m, x)
    <2>1. s = [p \in DOMAIN m \cup {x} |-> IF p = x THEN ValueAt(m, x) ELSE m[p]]
      BY <1>2 DEF split
    <2>2. ValueAt(m, x) \in Values
      BY FindFinds
    <2>3. IsMap(s) /\ DOMAIN s = DOMAIN m \cup {x}
      BY <2>1, <2>2 DEF IsMap
    <2>4. ASSUME NEW y \in IntervalPoints
          PROVE  ValueAt(s, y) = ValueAt(m, y)
      <3>1. /\ find(m, y) \in DOMAIN m /\ find(m, y) <= y
            /\ \A q \in DOMAIN m : q <= y => q <= find(m, y)
            /\ find(m, x) \in DOMAIN m /\ find(m, x) <= x
            /\ \A q \in DOMAIN m : q <= x => q <= find(m, x)
        BY FindFinds
      <3>2. CASE x <= y /\ find(m, y) < x
        <4>1. find(m, y) = find(m, x)
          BY <3>1, <3>2 DEF IsMap
        <4>2. \A q \in DOMAIN s : q <= y => q <= x
          BY <2>3, <3>1, <3>2 DEF IsMap
        <4>3. find(s, y) = x
          BY <2>3, <3>2, <4>2, FindIsUnique
        <4>4. QED
          BY <2>1, <4>1, <4>3 DEF ValueAt
      <3>3. CASE ~(x <= y /\ find(m, y) < x)
        <4>1. \A q \in DOMAIN s : q <= y => q <= find(m, y)
          BY <2>3, <3>1, <3>3 DEF IsMap
        <4>2. find(s, y) = find(m, y)
          BY <2>3, <3>1, <4>1, FindIsUnique
        <4>3. QED
          BY <1>2, <2>1, <3>1, <4>2 DEF ValueAt
      <3>4. QED
        BY <3>2, <3>3
    <2>5. QED
      BY <2>3, <2>4
  <1>3. QED
    BY <1>1, <1>2

\* Nor does mergeLeft, which takes away that interval if it is needless.
LEMMA MergeLeftKeeps ==
    ASSUME NEW m, IsMap(m), NEW p \in DOMAIN m
    PROVE  /\ IsMap(mergeLeft(m, p))
           /\ DOMAIN mergeLeft(m, p) \in {DOMAIN m, DOMAIN m \ {p}}
           /\ \A y \in IntervalPoints : ValueAt(mergeLeft(m, p), y) = ValueAt(m, y)
           /\ p \in DOMAIN mergeLeft(m, p) /\ p # 0 => ValueAt(m, p - 1) # ValueAt(m, p)
  <1>1. p \in IntervalPoints /\ find(m, p) = p /\ ValueAt(m, p) = m[p]
    <2>1. p \in IntervalPoints
      BY DEF IsMap
    <2>2. \A q \in DOMAIN m : q <= p => q <= p
      OBVIOUS
    <2>3. find(m, p) = p
      BY <2>1, <2>2, FindIsUnique DEF IsMap
    <2>4. QED
      BY <2>1, <2>3 DEF ValueAt
  <1>2. CASE ~MergesLeft(m, p)
    BY <1>1, <1>2 DEF mergeLeft, MergesLeft, ValueAt
  <1>3. CASE MergesLeft(m, p)
    <2> DEFINE s == mergeLeft(m, p)
    <2>1. s = [q \in DOMAIN m \ {p} |-> m[q]] /\ p # 0 /\ m[find(m, p - 1)] = m[p]
      BY <1>3 DEF mergeLeft, MergesLeft
    <2>2. IsMap(s) /\ DOMAIN s = DOMAIN m \ {p}
      BY <2>1 DEF IsMap
    <2>3. p - 1 \in IntervalPoints
      BY <1>1, <2>1
    <2>4. ASSUME NEW y \in IntervalPoints
          PROVE  ValueAt(s, y) = ValueAt(m, y)
      <3>1. /\ find(m, y) \in DOMAIN m /\ find(m, y) <= y
            /\ \A q \in DOMAIN m : q <= y => q <= find(m, y)
            /\ find(m, p - 1) \in DOMAIN m /\ find(m, p - 1) <= p - 1
            /\ \A q \in DOMAIN m : q <= p - 1 => q <= find(m, p - 1)
        BY <2>3, FindFinds
      <3>2. CASE find(m, y) = p
        <4>1. find(m, p - 1) \in DOMAIN s /\ find(m, p - 1) <= y
          BY <1>1, <2>2, <3>1, <3>2 DEF IsMap
        <4>2. \A q \in DOMAIN s : q <= y => q <= find(m, p - 1)
          BY <1>1, <2>2, <3>1, <3>2 DEF IsMap
        <4>3. find(s, y) = find(m, p - 1)
          BY <2>2, <4>1, <4>2, FindIsUnique
        <4>4. QED
          BY <2>1, <3>2, <4>1, <4>3 DEF ValueAt
      <3>3. CASE find(m, y) # p
        <4>1. find(m, y) \in DOMAIN s
          BY <2>2, <3>1, <3>3
        <4>2. \A q \in DOMAIN s : q <= y => q <= find(m, y)
          BY <2>2, <3>1
        <4>3. find(s, y) = find(m, y)
          BY <2>2, <3>1, <4>1, <4>2, FindIsUnique
        <4>4. QED
          BY <2>1, <4>1, <4>3 DEF ValueAt
      <3>4. QED
        BY <3>2, <3>3
    <2>5. QED
      BY <2>2, <2>4
  <1>4. QED
    BY <1>2, <1>3

-----------------------------------------------------------------------------
(* One iteration of update or merge.                                       *)

\* Setting the value of an interval sets that of its points.
LEMMA ReplacedValue ==
    ASSUME NEW m, IsMap(m), NEW p \in DOMAIN m, NEW v \in Values
    PROVE  /\ IsMap([m EXCEPT ![p] = v]) /\ DOMAIN [m EXCEPT ![p] = v] = DOMAIN m
           /\ \A y \in IntervalPoints :
                  ValueAt([m EXCEPT ![p] = v], y) =
                      IF p <= y /\ y < finish(m, p) THEN v ELSE ValueAt(m, y)
  <1> DEFINE s == [m EXCEPT ![p] = v]
  <1>1. IsMap(s) /\ DOMAIN s = DOMAIN m
    BY DEF IsMap
  <1>2. ASSUME NEW y \in IntervalPoints
        PROVE  ValueAt(s, y) = IF p <= y /\ y < finish(m, p) THEN v ELSE ValueAt(m, y)
    <2>1. find(m, y) = p <=> p <= y /\ y < finish(m, p)
      BY FindWithin
    <2>2. find(m, y) \in DOMAIN m /\ find(m, y) <= y /\ \A q \in DOMAIN m : q <= y => q <= find(m, y)
      BY FindFinds
    <2>3. find(s, y) = find(m, y)
      BY <1>1, <2>2, FindIsUnique
    <2>4. QED
      BY <2>1, <2>2, <2>3 DEF ValueAt, IsMap
  <1>3. QED
    BY <1>1, <1>2

\* Splitting behind a stretch, composing its value and merging it to the left
\* composes the values of its points and of no others.
LEMMA OneStretch ==
    ASSUME NEW m, IsMap(m), NEW p \in DOMAIN m, NEW bound \in 1 .. UINT64_MAX, p < bound,
           NEW val \in Values, OnlyNeedless(m, p)
    PROVE  LET next == Following(m, p, bound)
               after == Composed(m, p, bound, val)
           IN /\ next \in Nat /\ p < next /\ next <= bound
              /\ IsMap(after) /\ next \in DOMAIN after \cup {UINT64_MAX}
              /\ \A y \in IntervalPoints :
                     ValueAt(after, y) =
                         IF p <= y /\ y < next THEN comp(ValueAt(m, y), val) ELSE ValueAt(m, y)
              /\ OnlyNeedless(after, next)
  <1> DEFINE next == Following(m, p, bound)
             parted == IF finish(m, p) > bound THEN split(m, bound) ELSE m
             composed == [parted EXCEPT ![p] = comp(@, val)]
             after == mergeLeft(composed, p)
  <1>1. /\ finish(m, p) \in DOMAIN m \cup {UINT64_MAX} /\ finish(m, p) \in Nat
        /\ p < finish(m, p) /\ finish(m, p) <= UINT64_MAX
        /\ \A r \in DOMAIN m : r > p => finish(m, p) <= r
    BY FinishFollows
  <1>2. p \in IntervalPoints /\ p \in Nat /\ bound \in Nat
    BY DEF IsMap
  <1>3. next \in Nat /\ p < next /\ next <= bound /\ next <= UINT64_MAX
    BY <1>1, <1>2 DEF Following
  <1>4. /\ IsMap(parted) /\ DOMAIN parted \in {DOMAIN m, DOMAIN m \cup {next}}
        /\ p \in DOMAIN parted /\ next \in DOMAIN parted \cup {UINT64_MAX}
        /\ \A y \in IntervalPoints : ValueAt(parted, y) = ValueAt(m, y)
    <2>1. CASE finish(m, p) > bound
      <3>1. bound \in IntervalPoints /\ next = bound /\ parted = split(m, bound)
        BY <1>1, <1>2, <2>1 DEF Following
      <3>2. /\ IsMap(split(m, bound)) /\ DOMAIN split(m, bound) = DOMAIN m \cup {bound}
            /\ \A y \in IntervalPoints : ValueAt(split(m, bound), y) = ValueAt(m, y)
        BY <3>1, SplitKeeps
      <3>3. QED
        BY <3>1, <3>2
    <2>2. CASE ~(finish(m, p) > bound)
      BY <1>1, <2>2 DEF Following
    <2>3. QED
      BY <2>1, <2>2
  <1>5. finish(parted, p) = next
    <2>1. /\ finish(parted, p) \in DOMAIN parted \cup {UINT64_MAX} /\ finish(parted, p) \in Nat
          /\ p < finish(parted, p) /\ finish(parted, p) <= UINT64_MAX
          /\ \A r \in DOMAIN parted : r > p => finish(parted, p) <= r
      BY <1>4, FinishFollows
    <2>2. finish(parted, p) <= next
      BY <1>3, <1>4, <2>1
    <2>3. next <= finish(m, p)
      BY <1>1, <1>2 DEF Following
    <2>4. next <= finish(parted, p)
      <3>1. CASE finish(parted, p) \in DOMAIN m
        BY <1>1, <1>3, <2>1, <2>3, <3>1
      <3>2. CASE finish(parted, p) \notin DOMAIN m
        BY <1>3, <1>4, <2>1, <3>2
      <3>3. QED
        BY <3>1, <3>2
    <2>5. QED
      BY <1>3, <2>1, <2>2, <2>4
  <1>6. parted[p] = ValueAt(m, p) /\ parted[p] \in Values /\ comp(parted[p], val) \in Values
    <2>1. find(parted, p) = p
      BY <1>2, <1>4, FindIsUnique
    <2>2. parted[p] = ValueAt(parted, p)
      BY <2>1 DEF ValueAt
    <2>3. QED
      BY <1>2, <1>4, <2>2 DEF IsMap, comp
  <1>7. composed = [parted EXCEPT ![p] = comp(parted[p], val)]
    BY <1>4 DEF IsMap
  <1>8. /\ IsMap(composed) /\ DOMAIN composed = DOMAIN parted
        /\ \A y \in IntervalPoints :
               ValueAt(composed, y) =
                   IF p <= y /\ y < next THEN comp(parted[p], val) ELSE ValueAt(parted, y)
    BY <1>4, <1>5, <1>6, <1>7, ReplacedValue
  <1>9. \A y \in IntervalPoints :
            ValueAt(composed, y) =
                IF p <= y /\ y < next THEN comp(ValueAt(m, y), val) ELSE ValueAt(m, y)
    <2>1. \A y \in IntervalPoints : p <= y /\ y < next => ValueAt(m, y) = parted[p]
      <3>1. SUFFICES ASSUME NEW y \in IntervalPoints, p <= y, y < next
                     PROVE  ValueAt(parted, y) = parted[p]
        BY <1>4
      <3>2. find(parted, y) = p
        BY <1>4, <1>5, <3>1, FindWithin
      <3>3. QED
        BY <3>2 DEF ValueAt
    <2>2. QED
      BY <1>4, <1>8, <2>1
  <1>10. /\ IsMap(after) /\ DOMAIN after \in {DOMAIN composed, DOMAIN composed \ {p}}
         /\ \A y \in IntervalPoints : ValueAt(after, y) = ValueAt(composed, y)
         /\ p \in DOMAIN after /\ p # 0 => ValueAt(composed, p - 1) # ValueAt(composed, p)
    <2>1. p \in DOMAIN composed
      BY <1>4, <1>8
    <2>2. HIDE DEF composed
    <2>3. QED
      BY <1>8, <2>1, MergeLeftKeeps
  <1>11. next \in DOMAIN after \cup {UINT64_MAX}
    BY <1>2, <1>3, <1>4, <1>8, <1>10
  <1>12. OnlyNeedless(after, next)
    <2>1. SUFFICES ASSUME NEW q \in DOMAIN after \ {0}, q # next
                   PROVE  ValueAt(after, q - 1) # ValueAt(after, q)
      BY DEF OnlyNeedless
    <2>2. q \in IntervalPoints /\ q - 1 \in IntervalPoints /\ q \in DOMAIN m
      BY <1>4, <1>8, <1>10, <2>1 DEF IsMap
    <2>3. CASE q = p
      BY <1>10, <2>1, <2>2, <2>3
    <2>4. CASE q # p
      <3>1. ValueAt(m, q - 1) # ValueAt(m, q)
        BY <2>1, <2>2, <2>4 DEF OnlyNeedless
      <3>2. q < p \/ q > next
        BY <1>1, <1>2, <1>3, <2>1, <2>2, <2>4 DEF Following
      <3>3. /\ ~(p <= q /\ q < next) /\ ~(p <= q - 1 /\ q - 1 < next)
        BY <1>2, <1>3, <2>2, <3>2
      <3>4. QED
        BY <1>9, <1>10, <2>2, <3>1, <3>3
    <2>5. QED
      BY <2>3, <2>4
  <1>13. next = Following(m, p, bound) /\ after = Composed(m, p, bound, val)
    BY DEF Composed
  <1>14. QED
    BY <1>3, <1>9, <1>10, <1>11, <1>12, <1>13

-----------------------------------------------------------------------------
(* The steps.                                                              *)

\* The maps that merge is given are maps of intervals.
LEMMA MapsAreMaps ==
    ASSUME NEW m \in Maps
    PROVE  IsMap(m)
  <1>1. PICK points \in SUBSET (IntervalPoints \ {0}) : m \in [{0} \cup points -> Values]
    BY DEF Maps
  <1>2. QED
    BY <1>1 DEF IsMap

\* The constructor: one interval with the default value.
LEMMA InitEstablishes == IntervalsInit => IInv
  <1>1. SUFFICES ASSUME IntervalsInit PROVE IInv
    OBVIOUS
  <1>2. IsMap(StartPoints) /\ DOMAIN StartPoints = {0}
    BY <1>1 DEF IntervalsInit, IsMap
  <1>3. ASSUME NEW x \in IntervalPoints
        PROVE  ValueAt(StartPoints, x) = eFrameRef_None
    <2>1. find(StartPoints, x) = 0
      BY <1>2, FindFinds
    <2>2. QED
      BY <1>1, <2>1 DEF ValueAt, IntervalsInit
  <1>4. CoreTypes
    BY <1>1, <1>2 DEF CoreTypes, IntervalsInit, Calls, Idle
  <1>5. WorkIsPending
    BY <1>1, <1>3 DEF WorkIsPending, Pending, IntervalsInit, Idle
  <1>6. ShortButForOne
    BY <1>1, <1>2 DEF ShortButForOne, OnlyNeedless
  <1>7. QED
    BY <1>4, <1>5, <1>6 DEF IInv

\* update splits at its start and leaves the rest to its loop.
LEMMA UpdatePreserves ==
    ASSUME IInv, NEW start \in IntervalPoints, NEW end \in 0 .. UINT64_MAX, NEW val \in Values,
           start < end, Update(start, end, val)
    PROVE  IInv'
  <1>1. /\ call = Idle /\ StartPoints' = split(StartPoints, start) /\ i' = start
        /\ call' = [name |-> "update", finish |-> end, val |-> val]
        /\ expected' = [x \in IntervalPoints |->
                           IF x \in start .. end - 1 THEN comp(expected[x], val) ELSE expected[x]]
    BY DEF Update
  <1>2. IsMap(StartPoints) /\ expected \in [IntervalPoints -> Values]
    BY DEF IInv, CoreTypes
  <1>3. /\ IsMap(StartPoints') /\ DOMAIN StartPoints' = DOMAIN StartPoints \cup {start}
        /\ \A y \in IntervalPoints : ValueAt(StartPoints', y) = ValueAt(StartPoints, y)
    BY <1>1, <1>2, SplitKeeps
  <1>4. expected' \in [IntervalPoints -> Values]
    BY <1>1, <1>2 DEF comp
  <1>5. CoreTypes'
    BY <1>1, <1>3, <1>4 DEF CoreTypes, Calls
  <1>6. \A x \in IntervalPoints : expected[x] = ValueAt(StartPoints, x)
    BY <1>1 DEF IInv, WorkIsPending, Pending, Idle
  <1>7. WorkIsPending'
    <2>1. SUFFICES ASSUME NEW x \in IntervalPoints PROVE expected'[x] = Pending(x)'
      BY DEF WorkIsPending
    <2>2. Pending(x)' = IF start <= x /\ x < end THEN comp(ValueAt(StartPoints', x), val)
                        ELSE ValueAt(StartPoints', x)
      BY <1>1 DEF Pending
    <2>3. x \in start .. end - 1 <=> start <= x /\ x < end
      OBVIOUS
    <2>4. QED
      BY <1>1, <1>3, <1>6, <2>2, <2>3
  <1>8. ShortButForOne'
    <2>1. call' # Idle
      BY <1>1 DEF Idle
    <2>2. OnlyNeedless(StartPoints', start)
      BY <1>1, <1>2, <1>3 DEF IInv, ShortButForOne, OnlyNeedless, IsMap
    <2>3. QED
      BY <1>1, <2>1, <2>2 DEF ShortButForOne
  <1>9. QED
    BY <1>5, <1>7, <1>8 DEF IInv

LEMMA UpdateLoopPreserves ==
    ASSUME IInv, UpdateLoop
    PROVE  IInv'
  <1>1. /\ call.name = "update" /\ i # UINT64_MAX /\ i < call.finish
        /\ StartPoints' = Composed(StartPoints, i, call.finish, call.val)
        /\ i' = Following(StartPoints, i, call.finish)
        /\ UNCHANGED <<j, call, expected>>
    BY DEF UpdateLoop
  <1>2. /\ IsMap(StartPoints) /\ i \in DOMAIN StartPoints /\ i \in Nat
        /\ call.finish \in 1 .. UINT64_MAX /\ call.val \in Values /\ call # Idle
    BY <1>1 DEF IInv, CoreTypes, Calls, Idle, IsMap
  <1>3. OnlyNeedless(StartPoints, i)
    BY <1>2 DEF IInv, ShortButForOne
  <1>4. /\ i' \in Nat /\ i < i' /\ i' <= call.finish
        /\ IsMap(StartPoints') /\ i' \in DOMAIN StartPoints' \cup {UINT64_MAX}
        /\ \A y \in IntervalPoints :
               ValueAt(StartPoints', y) =
                   IF i <= y /\ y < i' THEN comp(ValueAt(StartPoints, y), call.val)
                   ELSE ValueAt(StartPoints, y)
        /\ OnlyNeedless(StartPoints', i')
    BY <1>1, <1>2, <1>3, OneStretch
  <1>5. CoreTypes'
    BY <1>1, <1>4 DEF IInv, CoreTypes
  <1>6. WorkIsPending'
    <2>1. SUFFICES ASSUME NEW x \in IntervalPoints PROVE expected'[x] = Pending(x)'
      BY DEF WorkIsPending
    <2>2. expected[x] = IF i <= x /\ x < call.finish THEN comp(ValueAt(StartPoints, x), call.val)
                        ELSE ValueAt(StartPoints, x)
      BY <1>1 DEF IInv, WorkIsPending, Pending
    <2>3. Pending(x)' = IF i' <= x /\ x < call.finish THEN comp(ValueAt(StartPoints', x), call.val)
                        ELSE ValueAt(StartPoints', x)
      BY <1>1 DEF Pending
    <2>4. QED
      BY <1>1, <1>2, <1>4, <2>2, <2>3
  <1>7. ShortButForOne'
    BY <1>1, <1>2, <1>4 DEF ShortButForOne
  <1>8. QED
    BY <1>5, <1>6, <1>7 DEF IInv

\* The last interval may be needless until now.
LEMMA UpdateReturnPreserves ==
    ASSUME IInv, UpdateReturn
    PROVE  IInv'
  <1>1. /\ call.name = "update" /\ (i = UINT64_MAX \/ i >= call.finish)
        /\ StartPoints' = IF i = UINT64_MAX THEN StartPoints ELSE mergeLeft(StartPoints, i)
        /\ call' = Idle /\ i' = 0 /\ expected' = expected
    BY DEF UpdateReturn
  <1>2. /\ IsMap(StartPoints) /\ i \in DOMAIN StartPoints \cup {UINT64_MAX} /\ i \in Nat
        /\ call.finish \in 1 .. UINT64_MAX /\ call # Idle
        /\ OnlyNeedless(StartPoints, i)
    BY <1>1 DEF IInv, CoreTypes, Calls, Idle, IsMap, ShortButForOne
  <1>3. /\ IsMap(StartPoints')
        /\ \A y \in IntervalPoints : ValueAt(StartPoints', y) = ValueAt(StartPoints, y)
        /\ OnlyNeedless(StartPoints', UINT64_MAX)
    <2>1. CASE i = UINT64_MAX
      BY <1>1, <1>2, <2>1
    <2>2. CASE i # UINT64_MAX
      <3>1. /\ IsMap(StartPoints') /\ DOMAIN StartPoints' \in {DOMAIN StartPoints, DOMAIN StartPoints \ {i}}
            /\ \A y \in IntervalPoints : ValueAt(StartPoints', y) = ValueAt(StartPoints, y)
            /\ i \in DOMAIN StartPoints' /\ i # 0 =>
                   ValueAt(StartPoints, i - 1) # ValueAt(StartPoints, i)
        BY <1>1, <1>2, <2>2, MergeLeftKeeps, ZenonT(60)
      <3>2. SUFFICES ASSUME NEW q \in DOMAIN StartPoints' \ {0}
                     PROVE  ValueAt(StartPoints', q - 1) # ValueAt(StartPoints', q)
        BY <3>1 DEF OnlyNeedless
      <3>3. q \in DOMAIN StartPoints /\ q \in IntervalPoints /\ q - 1 \in IntervalPoints
        BY <3>1, <3>2 DEF IsMap
      <3>4. QED
        BY <1>2, <3>1, <3>2, <3>3 DEF OnlyNeedless
    <2>3. QED
      BY <2>1, <2>2
  <1>4. CoreTypes'
    BY <1>1, <1>3 DEF IInv, CoreTypes, Calls, Idle, IsMap
  <1>5. WorkIsPending'
    <2>1. SUFFICES ASSUME NEW x \in IntervalPoints PROVE expected'[x] = Pending(x)'
      BY DEF WorkIsPending
    <2>2. expected[x] = IF i <= x /\ x < call.finish THEN comp(ValueAt(StartPoints, x), call.val)
                        ELSE ValueAt(StartPoints, x)
      BY <1>1 DEF IInv, WorkIsPending, Pending
    <2>3. ~(i <= x /\ x < call.finish)
      BY <1>1, <1>2
    <2>4. Pending(x)' = ValueAt(StartPoints', x)
      BY <1>1 DEF Pending, Idle
    <2>5. QED
      BY <1>1, <1>3, <2>2, <2>3, <2>4
  <1>6. ShortButForOne'
    BY <1>1, <1>3 DEF ShortButForOne
  <1>7. QED
    BY <1>4, <1>5, <1>6 DEF IInv

\* merge only sets the two iterators to the beginning.
LEMMA MergePreserves ==
    ASSUME IInv, NEW other \in Maps, Merge(other)
    PROVE  IInv'
  <1>1. /\ call = Idle /\ i' = 0 /\ j' = 0 /\ StartPoints' = StartPoints
        /\ call' = [name |-> "merge", other |-> other]
        /\ expected' = [x \in IntervalPoints |-> comp(expected[x], ValueAt(other, x))]
    BY DEF Merge
  <1>2. IsMap(StartPoints) /\ IsMap(other) /\ expected \in [IntervalPoints -> Values]
    BY MapsAreMaps DEF IInv, CoreTypes
  <1>3. expected' \in [IntervalPoints -> Values]
    BY <1>1, <1>2, FindFinds DEF comp
  <1>4. 0 \in DOMAIN other /\ 0 < finish(other, 0)
    <2>1. 0 \in DOMAIN other
      BY <1>2 DEF IsMap
    <2>2. QED
      BY <1>2, <2>1, FinishFollows
  <1>5. CoreTypes'
    BY <1>1, <1>2, <1>3, <1>4 DEF CoreTypes, Calls, IsMap
  <1>6. WorkIsPending'
    <2>1. SUFFICES ASSUME NEW x \in IntervalPoints PROVE expected'[x] = Pending(x)'
      BY DEF WorkIsPending
    <2>2. expected[x] = ValueAt(StartPoints, x)
      BY <1>1 DEF IInv, WorkIsPending, Pending, Idle
    <2>3. Pending(x)' = comp(ValueAt(StartPoints, x), ValueAt(other, x))
      BY <1>1 DEF Pending
    <2>4. QED
      BY <1>1, <2>2, <2>3
  <1>7. ShortButForOne'
    <2>1. OnlyNeedless(StartPoints, 0)
      BY <1>1, <1>2 DEF IInv, ShortButForOne, OnlyNeedless, IsMap
    <2>2. QED
      BY <1>1, <2>1 DEF ShortButForOne, Idle
  <1>8. QED
    BY <1>5, <1>6, <1>7 DEF IInv

\* The iterator of the other map moves on when, and only when, its interval is
\* used up.
LEMMA MergeLoopPreserves ==
    ASSUME IInv, MergeLoop
    PROVE  IInv'
  <1> DEFINE end == finish(call.other, j)
             following == Following(StartPoints, i, end)
  <1>1. /\ call.name = "merge" /\ expected' = expected
        /\ StartPoints' = Composed(StartPoints, i, end, call.other[j])
        /\ i' = IF following = UINT64_MAX THEN 0 ELSE following
        /\ j' = IF following = UINT64_MAX THEN 0 ELSE IF following >= end THEN end ELSE j
        /\ call' = IF following = UINT64_MAX THEN Idle ELSE call
    BY DEF MergeLoop
  <1>2. /\ IsMap(StartPoints) /\ i \in DOMAIN StartPoints /\ i \in Nat /\ call # Idle
        /\ call.other \in Maps /\ j \in DOMAIN call.other /\ i >= j /\ i < end
    BY <1>1 DEF IInv, CoreTypes, Calls, Idle, IsMap
  <1>3. IsMap(call.other) /\ j \in IntervalPoints /\ call.other[j] \in Values
    BY <1>2, MapsAreMaps DEF IsMap
  <1>4. /\ end \in DOMAIN call.other \cup {UINT64_MAX} /\ end \in Nat /\ j < end
        /\ end \in 1 .. UINT64_MAX
    BY <1>2, <1>3, FinishFollows
  <1>5. OnlyNeedless(StartPoints, i)
    BY <1>2 DEF IInv, ShortButForOne
  <1>6. /\ following \in Nat /\ i < following /\ following <= end
        /\ IsMap(StartPoints') /\ following \in DOMAIN StartPoints' \cup {UINT64_MAX}
        /\ \A y \in IntervalPoints :
               ValueAt(StartPoints', y) =
                   IF i <= y /\ y < following THEN comp(ValueAt(StartPoints, y), call.other[j])
                   ELSE ValueAt(StartPoints, y)
        /\ OnlyNeedless(StartPoints', following)
    BY <1>1, <1>2, <1>3, <1>4, <1>5, OneStretch
  <1>7. ASSUME NEW x \in IntervalPoints, i <= x, x < following
        PROVE  ValueAt(call.other, x) = call.other[j]
    <2>1. find(call.other, x) = j
      BY <1>2, <1>3, <1>4, <1>6, <1>7, FindWithin
    <2>2. QED
      BY <2>1 DEF ValueAt
  <1>8. \A x \in IntervalPoints :
            expected[x] = IF following <= x
                          THEN comp(ValueAt(StartPoints', x), ValueAt(call.other, x))
                          ELSE ValueAt(StartPoints', x)
    <2>1. \A x \in IntervalPoints :
              expected[x] = IF i <= x THEN comp(ValueAt(StartPoints, x), ValueAt(call.other, x))
                            ELSE ValueAt(StartPoints, x)
      BY <1>1 DEF IInv, WorkIsPending, Pending
    <2>2. QED
      BY <1>2, <1>6, <1>7, <2>1
  <1> HIDE DEF following
  <1>9. CASE following = UINT64_MAX
    <2>1. i' = 0 /\ call' = Idle
      BY <1>1, <1>9
    <2>2. CoreTypes'
      BY <1>1, <1>6, <2>1 DEF IInv, CoreTypes, Calls, Idle, IsMap
    <2>3. WorkIsPending'
      BY <1>1, <1>8, <1>9, <2>1 DEF WorkIsPending, Pending, Idle
    <2>4. ShortButForOne'
      BY <1>6, <1>9, <2>1 DEF ShortButForOne
    <2>5. QED
      BY <2>2, <2>3, <2>4 DEF IInv
  <1>10. CASE following # UINT64_MAX
    <2>1. /\ i' = following /\ call' = call /\ j' = IF following >= end THEN end ELSE j
      BY <1>1, <1>10
    <2>2. j' \in DOMAIN call.other /\ following >= j' /\ following < finish(call.other, j')
      <3>1. CASE following >= end
        <4>1. following = end /\ end \in DOMAIN call.other /\ j' = end
          BY <1>4, <1>6, <1>10, <2>1, <3>1
        <4>2. end < finish(call.other, end)
          BY <1>3, <4>1, FinishFollows
        <4>3. QED
          BY <1>4, <4>1, <4>2
      <3>2. CASE ~(following >= end)
        BY <1>2, <1>3, <1>4, <1>6, <2>1, <3>2
      <3>3. QED
        BY <3>1, <3>2
    <2>3. CoreTypes'
      BY <1>1, <1>6, <1>10, <2>1, <2>2 DEF IInv, CoreTypes
    <2>4. WorkIsPending'
      BY <1>1, <1>8, <2>1 DEF WorkIsPending, Pending
    <2>5. ShortButForOne'
      BY <1>2, <1>6, <2>1 DEF ShortButForOne
    <2>6. QED
      BY <2>3, <2>4, <2>5 DEF IInv
  <1>11. QED
    BY <1>9, <1>10

\* Every step, by the lemmas above.
LEMMA StepPreserves == IInv /\ [IntervalsNext]_intervalsVars => IInv'
  <1> SUFFICES ASSUME IInv, [IntervalsNext]_intervalsVars PROVE IInv'
    OBVIOUS
  <1>1. CASE UNCHANGED intervalsVars
    BY <1>1 DEF IInv, CoreTypes, WorkIsPending, Pending, ShortButForOne, intervalsVars
  <1>2. ASSUME NEW start \in IntervalPoints, NEW end \in 0 .. UINT64_MAX, NEW val \in Values,
               Update(start, end, val)
        PROVE  IInv'
    <2>1. CASE end <= start
      BY <1>1, <1>2, <2>1 DEF Update
    <2>2. CASE start < end
      BY <1>2, <2>2, UpdatePreserves
    <2>3. QED
      BY <2>1, <2>2
  <1>3. CASE UpdateLoop
    BY <1>3, UpdateLoopPreserves
  <1>4. CASE UpdateReturn
    BY <1>4, UpdateReturnPreserves
  <1>5. ASSUME NEW other \in Maps, Merge(other)
        PROVE  IInv'
    BY <1>5, MergePreserves
  <1>6. CASE MergeLoop
    BY <1>6, MergeLoopPreserves
  <1>7. QED
    BY <1>1, <1>2, <1>3, <1>4, <1>5, <1>6 DEF IntervalsNext

\* So the invariant holds throughout.
LEMMA Invariance == IntervalsSpec => []IInv
  BY InitEstablishes, StepPreserves, PTL DEF IntervalsSpec

\* Between calls every point has the value that composing all updates and
\* merges gives, and no interval has the value of the one before it.
THEOREM IntervalsAreComposed == IntervalsSpec => []IntervalsComposed
  <1>1. IInv => IntervalsComposed
    <2>1. SUFFICES ASSUME IInv, call = Idle
                   PROVE  /\ \A x \in IntervalPoints : ValueAt(StartPoints, x) = expected[x]
                          /\ \A p \in DOMAIN StartPoints : ~MergesLeft(StartPoints, p)
      BY DEF IntervalsComposed, ValuesAreComposed, NoNeedlessIntervals
    <2>2. IsMap(StartPoints)
      BY <2>1 DEF IInv, CoreTypes
    <2>3. \A x \in IntervalPoints : ValueAt(StartPoints, x) = expected[x]
      BY <2>1 DEF IInv, WorkIsPending, Pending, Idle
    <2>4. ASSUME NEW p \in DOMAIN StartPoints, p # 0
          PROVE  StartPoints[find(StartPoints, p - 1)] # StartPoints[p]
      <3>1. p \in IntervalPoints
        BY <2>2 DEF IsMap
      <3>2. \A q \in DOMAIN StartPoints : q <= p => q <= p
        OBVIOUS
      <3>3. find(StartPoints, p) = p
        BY <2>2, <3>1, <3>2, FindIsUnique DEF IsMap
      <3>4. ValueAt(StartPoints, p - 1) # ValueAt(StartPoints, p)
        BY <2>1, <2>2, <2>4, <3>1 DEF IInv, ShortButForOne, OnlyNeedless, IsMap
      <3>5. QED
        BY <3>3, <3>4 DEF ValueAt
    <2>5. QED
      BY <2>3, <2>4 DEF MergesLeft
  <1>2. QED
    BY <1>1, Invariance, PTL

\* The iterators are at intervals that exist whenever they are used, and the
\* loop invariant that the code states in merge holds (intervals.h:258).
THEOREM IteratorsAreValid == IntervalsSpec => []IntervalsTypeOK
  <1>1. IInv => IntervalsTypeOK
    BY DEF IInv, CoreTypes, IsMap, IntervalsTypeOK, MergeLoopInvariant
  <1>2. QED
    BY <1>1, Invariance, PTL

HIDE IntervalsAssumption DEF IntervalPoints

-----------------------------------------------------------------------------
(* DebugSession.                                                           *)

TraceLoc(draw, k) == IF k = 0 THEN NoLoc ELSE draw.trace[k].loc

\* The last instruction before k that is less deep than size.
CallerAt(draw, k, size) == Max({0} \cup {caller \in 1 .. k - 1 : Depth(draw, caller) < size})

\* The line that the function of instruction k was called at.
CallerLoc(draw, k) ==
    IF k = 0 THEN NoLoc ELSE TraceLoc(draw, CallerAt(draw, k, Depth(draw, k)))

IsDraw(draw) ==
    /\ draw \in Draws
    /\ TextAssumption(draw.text) /\ (draw.source <=> draw.text # <<>>)
    /\ \A k \in DOMAIN draw.trace : TraceAssumption(draw, k)

\* The stack of calls has where the functions that are not over were called.
CallsRight(draw, calls, pos) ==
    /\ \A n \in DOMAIN calls : calls[n].size <= Depth(draw, pos)
    /\ \A m, n \in DOMAIN calls : m < n => calls[m].size <= calls[n].size
    /\ \A size \in 1 .. Depth(draw, pos) :
         TraceLoc(draw, CallerAt(draw, pos, size)) =
           IF Innermost(calls, size) = 0 THEN NoLoc ELSE calls[Innermost(calls, size)].loc

SessionRight(draw, s) ==
    /\ s \in Sessions /\ s.draw = draw /\ s.pos \in 0 .. Len(draw.trace) + 1
    /\ s.pos \in DOMAIN draw.trace =>
          CallsRight(draw, s.calltrace, s.pos) /\ s.callstackSize = Depth(draw, s.pos)
    /\ s.pos \notin DOMAIN draw.trace => s.calltrace = <<>> /\ s.callstackSize = 0

LEMMA GreatestIs ==
    ASSUME NEW N \in Nat, NEW T, T \subseteq 0 .. N, 0 \in T
    PROVE  Max(T) \in T /\ Max(T) \in 0 .. N /\ \A n \in T : n <= Max(T)
<1> DEFINE U == {N - n : n \in T}
<1>1. U \in SUBSET Nat /\ U # {}
  <2>1. \A n \in T : n \in 0 .. N /\ N - n \in Nat
    OBVIOUS
  <2>2. \A u \in U : u \in Nat
    BY <2>1
  <2>3. N - 0 \in U
    OBVIOUS
  <2> QED BY <2>2, <2>3
<1>2. PICK least \in U : \A n \in U : least <= n
  <2> HIDE DEF U
  <2> QED BY <1>1, LeastNatural
<1>3. PICK greatest \in T : least = N - greatest
  BY <1>2
<1>4. \A n \in T : greatest >= n
  <2>1. SUFFICES ASSUME NEW n \in T PROVE greatest >= n
    OBVIOUS
  <2>2. N - greatest <= N - n
    BY <1>2, <1>3
  <2>3. n \in Int /\ greatest \in Int
    OBVIOUS
  <2> QED BY <2>2, <2>3
<1>5. Max(T) \in T /\ \A n \in T : Max(T) >= n
  BY <1>4 DEF Max
<1>6. \A n \in T : n \in Int
  OBVIOUS
<1> QED BY <1>5, <1>6

LEMMA GreatestIsThis ==
    ASSUME NEW N \in Nat, NEW T, T \subseteq 0 .. N, 0 \in T,
           NEW greatest \in T, \A n \in T : n <= greatest
    PROVE  Max(T) = greatest
<1>1. Max(T) \in T /\ greatest <= Max(T) /\ Max(T) <= greatest
  BY GreatestIs
<1>2. Max(T) \in 0 .. N /\ greatest \in 0 .. N
  BY <1>1
<1> QED BY <1>1, <1>2

LEMMA TracesAre ==
    ASSUME NEW draw, IsDraw(draw)
    PROVE  /\ Len(draw.trace) \in Nat /\ DOMAIN draw.trace = 1 .. Len(draw.trace)
           /\ draw.source \in BOOLEAN /\ draw.text \in Seq(Lines(STRING))
           /\ \A k \in 1 .. Len(draw.trace) :
                /\ draw.trace[k].loc \in Locs /\ Depth(draw, k) \in Nat /\ Depth(draw, k) > 0
                /\ k > 1 => Depth(draw, k) <= Depth(draw, k - 1) + 1
<1>1. /\ draw.trace \in Seq([loc : Locs, stack : Seq(STRING)])
      /\ draw.source \in BOOLEAN /\ draw.text \in Seq(Lines(STRING))
  BY DEF IsDraw, Draws
<1>2. Len(draw.trace) \in Nat /\ DOMAIN draw.trace = 1 .. Len(draw.trace)
  BY <1>1
<1>3. ASSUME NEW k \in 1 .. Len(draw.trace)
      PROVE  /\ draw.trace[k].loc \in Locs /\ Depth(draw, k) \in Nat /\ Depth(draw, k) > 0
             /\ k > 1 => Depth(draw, k) <= Depth(draw, k - 1) + 1
  <2> DEFINE R == [loc : Locs, stack : Seq(STRING)]
  <2>0. draw.trace \in Seq(R) /\ k \in 1 .. Len(draw.trace)
    BY <1>1
  <2>1. draw.trace[k] \in R
    <3> HIDE DEF R
    <3> QED BY <2>0
  <2>2. draw.trace[k].loc \in Locs /\ Depth(draw, k) \in Nat
    BY <2>1 DEF Depth
  <2>3. TraceAssumption(draw, k)
    BY <1>2 DEF IsDraw
  <2> QED BY <2>2, <2>3 DEF TraceAssumption
<1> QED BY <1>1, <1>2, <1>3

LEMMA DrawsAre ==
    ASSUME NEW frame \in DebugFrames, NEW d \in DOMAIN frame, frame[d] # NoTrace
    PROVE  IsDraw(frame[d])
<1>1. frame \in Seq(Draws \cup {NoTrace})
  BY SessionsAssumption
<1>2. frame[d] \in Draws
  BY <1>1
<1> QED BY <1>2, DebugAssumption DEF IsDraw, HasTrace

LEMMA NoLocIs == NoLoc \in Locs
BY DEF NoLoc, Locs

LEMMA CallerIs ==
    ASSUME NEW draw, IsDraw(draw), NEW k \in 0 .. Len(draw.trace) + 1, NEW size \in Nat
    PROVE  /\ CallerAt(draw, k, size) \in Nat /\ CallerAt(draw, k, size) >= 0
           /\ CallerAt(draw, k, size) # 0 =>
                /\ CallerAt(draw, k, size) \in 1 .. Len(draw.trace) /\ CallerAt(draw, k, size) < k
                /\ Depth(draw, CallerAt(draw, k, size)) < size
           /\ \A other \in 1 .. k - 1 : Depth(draw, other) < size => other <= CallerAt(draw, k, size)
<1> DEFINE T == {0} \cup {caller \in 1 .. k - 1 : Depth(draw, caller) < size}
<1>1. Len(draw.trace) \in Nat /\ Len(draw.trace) + 1 \in Nat
  BY TracesAre
<1>2. T \subseteq 0 .. (Len(draw.trace) + 1) /\ 0 \in T
  BY <1>1
<1>3. Max(T) \in T /\ Max(T) \in 0 .. (Len(draw.trace) + 1) /\ \A n \in T : n <= Max(T)
  <2> HIDE DEF T
  <2> QED BY <1>1, <1>2, GreatestIs
<1>4. CallerAt(draw, k, size) = Max(T)
  BY DEF CallerAt
<1> QED BY <1>1, <1>3, <1>4

LEMMA CallerIsThis ==
    ASSUME NEW draw, IsDraw(draw), NEW k \in 1 .. Len(draw.trace) + 1, NEW size \in Nat,
           NEW caller \in 0 .. k - 1, caller # 0 => Depth(draw, caller) < size,
           \A n \in caller + 1 .. k - 1 : Depth(draw, n) >= size
    PROVE  CallerAt(draw, k, size) = caller
<1> DEFINE T == {0} \cup {n \in 1 .. k - 1 : Depth(draw, n) < size}
<1>1. Len(draw.trace) \in Nat /\ Len(draw.trace) + 1 \in Nat
  BY TracesAre
<1>2. T \subseteq 0 .. (Len(draw.trace) + 1) /\ 0 \in T /\ caller \in T
  BY <1>1
<1>3. \A n \in T : n <= caller
  <2>1. SUFFICES ASSUME NEW n \in 1 .. k - 1, Depth(draw, n) < size, ~(n <= caller) PROVE FALSE
    BY <1>2
  <2>2. n \in caller + 1 .. k - 1 /\ n \in 1 .. Len(draw.trace)
    BY <1>1, <2>1
  <2>3. Depth(draw, n) >= size /\ Depth(draw, n) \in Nat
    BY <2>2, TracesAre
  <2> QED BY <2>1, <2>3
<1>4. Max(T) = caller
  <2> HIDE DEF T
  <2> QED BY <1>1, <1>2, <1>3, GreatestIsThis
<1> QED BY <1>4 DEF CallerAt


-----------------------------------------------------------------------------
(* The stack of calls.                                                     *)

CallEntries == [size : Nat, loc : Locs]

LEMMA InnermostIs ==
    ASSUME NEW calls \in Seq(CallEntries), NEW size \in Nat
    PROVE  /\ Innermost(calls, size) \in 0 .. Len(calls) /\ Len(calls) \in Nat
           /\ Innermost(calls, size) # 0 => calls[Innermost(calls, size)].size <= size
           /\ \A n \in 1 .. Len(calls) : calls[n].size <= size => n <= Innermost(calls, size)
<1> DEFINE T == {0} \cup {n \in DOMAIN calls : calls[n].size <= size}
<1>1. Len(calls) \in Nat /\ DOMAIN calls = 1 .. Len(calls)
  OBVIOUS
<1>2. T \subseteq 0 .. Len(calls) /\ 0 \in T
  BY <1>1
<1>3. Max(T) \in T /\ Max(T) \in 0 .. Len(calls) /\ \A n \in T : n <= Max(T)
  <2> HIDE DEF T
  <2> QED BY <1>1, <1>2, GreatestIs
<1>4. Innermost(calls, size) = Max(T)
  BY DEF Innermost
<1> QED BY <1>1, <1>3, <1>4

LEMMA InnermostIsThis ==
    ASSUME NEW calls \in Seq(CallEntries), NEW size \in Nat, NEW entry \in 0 .. Len(calls),
           entry # 0 => calls[entry].size <= size,
           \A n \in entry + 1 .. Len(calls) : calls[n].size > size
    PROVE  Innermost(calls, size) = entry
<1> DEFINE T == {0} \cup {n \in DOMAIN calls : calls[n].size <= size}
<1>1. Len(calls) \in Nat /\ DOMAIN calls = 1 .. Len(calls)
  OBVIOUS
<1>2. T \subseteq 0 .. Len(calls) /\ 0 \in T /\ entry \in T
  BY <1>1
<1>3. \A n \in T : n <= entry
  <2>1. SUFFICES ASSUME NEW n \in 1 .. Len(calls), calls[n].size <= size, ~(n <= entry) PROVE FALSE
    BY <1>1
  <2>2. n \in entry + 1 .. Len(calls)
    BY <1>1, <2>1
  <2>3. calls[n].size > size /\ calls[n].size \in Nat
    <3>1. calls[n] \in CallEntries
      BY <1>1
    <3> QED BY <2>2, <3>1 DEF CallEntries
  <2> QED BY <2>1, <2>3
<1>4. Max(T) = entry
  <2> HIDE DEF T
  <2> QED BY <1>1, <1>2, <1>3, GreatestIsThis
<1> QED BY <1>4 DEF Innermost

\* An instruction that is as deep is no caller.
LEMMA CallerStays ==
    ASSUME NEW draw, IsDraw(draw), NEW k \in 1 .. Len(draw.trace), NEW size \in Nat,
           size <= Depth(draw, k)
    PROVE  CallerAt(draw, k + 1, size) = CallerAt(draw, k, size)
<1> DEFINE caller == CallerAt(draw, k, size)
<1>1. Len(draw.trace) \in Nat /\ Depth(draw, k) \in Nat
  BY TracesAre
<1>2. /\ caller \in Nat /\ (caller # 0 => caller < k /\ Depth(draw, caller) < size)
      /\ \A other \in 1 .. k - 1 : Depth(draw, other) < size => other <= caller
  <2>1. k \in 0 .. Len(draw.trace) + 1
    BY <1>1
  <2> QED BY <2>1, CallerIs
<1> HIDE DEF caller
<1>3. k + 1 \in 1 .. Len(draw.trace) + 1 /\ caller \in 0 .. (k + 1) - 1
  BY <1>1, <1>2
<1>4. ASSUME NEW n \in caller + 1 .. (k + 1) - 1 PROVE Depth(draw, n) >= size
  <2>1. n \in 1 .. Len(draw.trace) /\ (n = k \/ n \in 1 .. k - 1) /\ ~(n <= caller)
    BY <1>1, <1>2
  <2>2. Depth(draw, n) \in Nat
    BY <2>1, TracesAre
  <2> QED BY <1>1, <1>2, <2>1, <2>2
<1>5. CallerAt(draw, k + 1, size) = caller
  BY <1>2, <1>3, <1>4, CallerIsThis
<1> QED BY <1>5 DEF caller

\* The first instruction, before which there is no other.
LEMMA CallsAtFirst ==
    ASSUME NEW draw, IsDraw(draw), 1 \in DOMAIN draw.trace
    PROVE  CallsRight(draw, <<[size |-> Depth(draw, 1), loc |-> NoLoc]>>, 1)
<1> DEFINE calls == <<[size |-> Depth(draw, 1), loc |-> NoLoc]>>
<1>1. 1 \in 1 .. Len(draw.trace) /\ Depth(draw, 1) \in Nat /\ Len(draw.trace) \in Nat
  BY TracesAre
<1>2. /\ calls \in Seq(CallEntries) /\ Len(calls) = 1 /\ DOMAIN calls = {1}
      /\ calls[1].loc = NoLoc /\ calls[1].size = Depth(draw, 1)
  BY <1>1, NoLocIs DEF CallEntries
<1> HIDE DEF calls
<1>3. ASSUME NEW size \in 1 .. Depth(draw, 1)
      PROVE  TraceLoc(draw, CallerAt(draw, 1, size)) =
               IF Innermost(calls, size) = 0 THEN NoLoc ELSE calls[Innermost(calls, size)].loc
  <2>1. size \in Nat
    BY <1>1
  <2>2. CallerAt(draw, 1, size) = 0
    <3>1. CallerAt(draw, 1, size) \in Nat /\ (CallerAt(draw, 1, size) # 0 => CallerAt(draw, 1, size) < 1)
      BY <1>1, <2>1, CallerIs
    <3> QED BY <3>1
  <2>3. Innermost(calls, size) \in 0 .. 1
    BY <1>2, <2>1, InnermostIs
  <2>4. Innermost(calls, size) # 0 => calls[Innermost(calls, size)].loc = NoLoc
    BY <1>2, <2>3
  <2> QED BY <2>2, <2>4 DEF TraceLoc
<1>4. /\ \A n \in DOMAIN calls : calls[n].size <= Depth(draw, 1)
      /\ \A m, n \in DOMAIN calls : m < n => calls[m].size <= calls[n].size
  BY <1>1, <1>2
<1> QED BY <1>3, <1>4 DEF CallsRight, calls

\* A call is put on the stack.
LEMMA CallsAtCall ==
    ASSUME NEW draw, IsDraw(draw), NEW k \in DOMAIN draw.trace, k + 1 \in DOMAIN draw.trace,
           NEW calls \in Seq(CallEntries), CallsRight(draw, calls, k),
           Depth(draw, k + 1) > Depth(draw, k)
    PROVE  CallsRight(draw, Append(calls, [size |-> Depth(draw, k + 1), loc |-> draw.trace[k].loc]), k + 1)
<1> DEFINE new == [size |-> Depth(draw, k + 1), loc |-> draw.trace[k].loc]
           longer == Append(calls, new)
<1>1. /\ k \in 1 .. Len(draw.trace) /\ k + 1 \in 1 .. Len(draw.trace)
      /\ Len(draw.trace) \in Nat /\ Len(calls) \in Nat
  BY TracesAre
<1>2. /\ Depth(draw, k) \in Nat /\ Depth(draw, k + 1) \in Nat
      /\ draw.trace[k].loc \in Locs /\ Depth(draw, k + 1) = Depth(draw, k) + 1
  <2>1. k + 1 > 1 /\ (k + 1) - 1 = k
    BY <1>1
  <2>2. Depth(draw, k + 1) <= Depth(draw, (k + 1) - 1) + 1
    BY <1>1, <2>1, TracesAre
  <2>3. Depth(draw, k) \in Nat /\ Depth(draw, k + 1) \in Nat /\ draw.trace[k].loc \in Locs
    BY <1>1, TracesAre
  <2> QED BY <2>1, <2>2, <2>3
<1>3. new \in CallEntries
  BY <1>2 DEF CallEntries
<1>4. /\ longer \in Seq(CallEntries) /\ Len(longer) = Len(calls) + 1
      /\ longer[Len(calls) + 1] = new /\ \A n \in 1 .. Len(calls) : longer[n] = calls[n]
  <2> HIDE DEF new
  <2> QED BY <1>1, <1>3
<1>5. new.size = Depth(draw, k) + 1 /\ new.loc = draw.trace[k].loc
  BY <1>2
<1> HIDE DEF new, longer
<1>6. \A n \in 1 .. Len(calls) : calls[n].size <= Depth(draw, k) /\ calls[n].size \in Nat
  <2>1. \A n \in 1 .. Len(calls) : calls[n] \in CallEntries
    OBVIOUS
  <2> QED BY <2>1 DEF CallsRight, CallEntries
<1>7. ASSUME NEW n \in DOMAIN longer PROVE longer[n].size <= Depth(draw, k + 1)
  <2>1. n \in 1 .. Len(calls) \/ n = Len(calls) + 1
    BY <1>1, <1>4
  <2>2. CASE n \in 1 .. Len(calls)
    <3>1. longer[n] = calls[n] /\ calls[n].size <= Depth(draw, k) /\ calls[n].size \in Nat
      BY <1>4, <1>6, <2>2
    <3> QED BY <1>2, <3>1
  <2>3. CASE n = Len(calls) + 1
    <3>1. longer[n].size = Depth(draw, k) + 1
      BY <1>4, <1>5, <2>3
    <3> QED BY <1>2, <3>1
  <2> QED BY <2>1, <2>2, <2>3
<1>9. ASSUME NEW m \in DOMAIN longer, NEW n \in DOMAIN longer, m < n
      PROVE  longer[m].size <= longer[n].size
  <2>1. m \in 1 .. Len(calls) /\ (n \in 1 .. Len(calls) \/ n = Len(calls) + 1)
    BY <1>1, <1>4, <1>9
  <2>2. calls[m].size <= Depth(draw, k) /\ calls[m].size \in Nat
    BY <1>6, <2>1
  <2>3. n \in 1 .. Len(calls) => calls[m].size <= calls[n].size
    BY <1>9, <2>1 DEF CallsRight
  <2>4. longer[m] = calls[m]
    BY <1>4, <2>1
  <2>5. CASE n \in 1 .. Len(calls)
    <3>1. longer[n] = calls[n]
      BY <1>4, <2>5
    <3> QED BY <2>3, <2>4, <2>5, <3>1
  <2>6. CASE n = Len(calls) + 1
    <3>1. longer[n].size = Depth(draw, k) + 1
      BY <1>4, <1>5, <2>6
    <3> QED BY <1>2, <2>2, <2>4, <3>1
  <2> QED BY <2>1, <2>5, <2>6
<1>8. ASSUME NEW size \in 1 .. Depth(draw, k + 1)
      PROVE  TraceLoc(draw, CallerAt(draw, k + 1, size)) =
               IF Innermost(longer, size) = 0 THEN NoLoc ELSE longer[Innermost(longer, size)].loc
  <2>1. size \in Nat
    BY <1>2
  <2>2. CASE size = Depth(draw, k + 1)
    <3>1. Innermost(longer, size) = Len(calls) + 1
      <4>1. Len(calls) + 1 \in 0 .. Len(longer) /\ (Len(calls) + 1) + 1 .. Len(longer) = {}
        BY <1>1, <1>4
      <4>2. longer[Len(calls) + 1].size <= size
        BY <1>2, <1>4, <1>5, <2>2
      <4> QED BY <1>4, <2>1, <4>1, <4>2, InnermostIsThis
    <3>2. CallerAt(draw, k + 1, size) = k
      <4>1. k \in 0 .. (k + 1) - 1 /\ k + 1 .. (k + 1) - 1 = {} /\ k + 1 \in 1 .. Len(draw.trace) + 1
        BY <1>1
      <4>2. Depth(draw, k) < size
        BY <1>2, <2>2
      <4> QED BY <2>1, <4>1, <4>2, CallerIsThis
    <3>3. Len(calls) + 1 # 0 /\ k # 0
      BY <1>1
    <3> QED BY <1>4, <1>5, <3>1, <3>2, <3>3 DEF TraceLoc
  <2>3. CASE size # Depth(draw, k + 1)
    <3>1. size \in 1 .. Depth(draw, k) /\ size <= Depth(draw, k)
      BY <1>2, <2>3
    <3> DEFINE n == Innermost(calls, size)
    <3>2. n \in 0 .. Len(calls) /\ (n # 0 => calls[n].size <= size)
          /\ \A l \in 1 .. Len(calls) : calls[l].size <= size => l <= n
      BY <2>1, InnermostIs
    <3> HIDE DEF n
    <3>3. Innermost(longer, size) = n
      <4>1. n \in 0 .. Len(longer) /\ (n # 0 => longer[n].size <= size)
        BY <1>1, <1>4, <3>2
      <4>2. ASSUME NEW l \in n + 1 .. Len(longer) PROVE longer[l].size > size
        <5>1. CASE l = Len(calls) + 1
          BY <1>2, <1>4, <1>5, <2>1, <3>1, <5>1
        <5>2. CASE l # Len(calls) + 1
          <6>1. l \in 1 .. Len(calls) /\ ~(l <= n)
            BY <1>1, <1>4, <3>2, <5>2
          <6>2. ~(calls[l].size <= size) /\ calls[l].size \in Nat
            BY <1>6, <3>2, <6>1
          <6> QED BY <1>4, <2>1, <6>1, <6>2
        <5> QED BY <5>1, <5>2
      <4> QED BY <1>4, <2>1, <4>1, <4>2, InnermostIsThis
    <3>4. n # 0 => longer[n] = calls[n]
      <4>1. n # 0 => n \in 1 .. Len(calls)
        BY <3>2
      <4> QED BY <1>4, <4>1
    <3>5. TraceLoc(draw, CallerAt(draw, k, size)) = IF n = 0 THEN NoLoc ELSE calls[n].loc
      BY <3>1 DEF CallsRight, n
    <3>6. CallerAt(draw, k + 1, size) = CallerAt(draw, k, size)
      BY <1>1, <1>2, <2>1, <3>1, CallerStays
    <3> QED BY <3>3, <3>4, <3>5, <3>6
  <2> QED BY <2>2, <2>3
<1> QED BY <1>7, <1>8, <1>9 DEF CallsRight, longer, new

\* CallEntries that are over are taken from the stack.
LEMMA CallsAtReturn ==
    ASSUME NEW draw, IsDraw(draw), NEW k \in DOMAIN draw.trace, k + 1 \in DOMAIN draw.trace,
           NEW calls \in Seq(CallEntries), CallsRight(draw, calls, k),
           ~(Depth(draw, k + 1) > Depth(draw, k))
    PROVE  CallsRight(draw, SubSeq(calls, 1, Innermost(calls, Depth(draw, k + 1))), k + 1)
<1> DEFINE now == Depth(draw, k + 1)
           top == Innermost(calls, now)
           rest == SubSeq(calls, 1, top)
<1>1. /\ k \in 1 .. Len(draw.trace) /\ k + 1 \in 1 .. Len(draw.trace)
      /\ Len(draw.trace) \in Nat /\ Len(calls) \in Nat
  BY TracesAre
<1>2. Depth(draw, k) \in Nat /\ now \in Nat /\ now <= Depth(draw, k)
  BY <1>1, TracesAre
<1>3. /\ top \in 0 .. Len(calls) /\ (top # 0 => calls[top].size <= now)
      /\ \A n \in 1 .. Len(calls) : calls[n].size <= now => n <= top
  BY <1>2, InnermostIs
<1> HIDE DEF top, now
<1>4. rest \in Seq(CallEntries) /\ Len(rest) = top /\ \A n \in 1 .. top : rest[n] = calls[n]
  <2>1. CASE top = 0
    BY <2>1
  <2>2. CASE top # 0
    BY <1>1, <1>3, <2>2
  <2> QED BY <2>1, <2>2
<1> HIDE DEF rest
<1>5. \A n \in 1 .. Len(calls) : calls[n].size \in Nat
  <2>1. \A n \in 1 .. Len(calls) : calls[n] \in CallEntries
    OBVIOUS
  <2> QED BY <2>1 DEF CallEntries
<1>6. \A n \in DOMAIN rest : rest[n].size <= now
  <2>1. SUFFICES ASSUME NEW n \in 1 .. top PROVE calls[n].size <= now
    BY <1>4
  <2>2. n \in 1 .. Len(calls) /\ top \in 1 .. Len(calls) /\ (n < top \/ n = top) /\ top # 0
    BY <1>1, <1>3
  <2>3. n < top => calls[n].size <= calls[top].size
    BY <2>2 DEF CallsRight
  <2> QED BY <1>2, <1>3, <1>5, <2>2, <2>3
<1>7. \A m, n \in DOMAIN rest : m < n => rest[m].size <= rest[n].size
  <2>1. \A n \in DOMAIN rest : n \in 1 .. Len(calls) /\ rest[n] = calls[n]
    BY <1>1, <1>3, <1>4
  <2> QED BY <2>1 DEF CallsRight
<1>8. ASSUME NEW size \in 1 .. now
      PROVE  TraceLoc(draw, CallerAt(draw, k + 1, size)) =
               IF Innermost(rest, size) = 0 THEN NoLoc ELSE rest[Innermost(rest, size)].loc
  <2>1. size \in Nat /\ size \in 1 .. Depth(draw, k) /\ size <= Depth(draw, k) /\ size <= now
    BY <1>2
  <2> DEFINE n == Innermost(calls, size)
  <2>2. /\ n \in 0 .. Len(calls) /\ (n # 0 => calls[n].size <= size)
        /\ \A l \in 1 .. Len(calls) : calls[l].size <= size => l <= n
    BY <2>1, InnermostIs
  <2>3. TraceLoc(draw, CallerAt(draw, k, size)) = IF n = 0 THEN NoLoc ELSE calls[n].loc
    BY <2>1 DEF CallsRight
  <2> HIDE DEF n
  <2>4. n # 0 => n \in 1 .. top
    <3>1. n # 0 => calls[n].size <= now
      BY <1>2, <1>5, <2>1, <2>2
    <3> QED BY <1>3, <2>2, <3>1
  <2>5. Innermost(rest, size) = n
    <3>1. n \in 0 .. Len(rest) /\ (n # 0 => rest[n].size <= size)
      BY <1>3, <1>4, <2>2, <2>4
    <3>2. ASSUME NEW l \in n + 1 .. Len(rest) PROVE rest[l].size > size
      <4>1. l \in 1 .. Len(calls) /\ l \in 1 .. top /\ ~(l <= n)
        BY <1>1, <1>3, <1>4, <2>2
      <4>2. ~(calls[l].size <= size) /\ calls[l].size \in Nat
        BY <1>5, <2>2, <4>1
      <4> QED BY <1>4, <2>1, <4>1, <4>2
    <3> QED BY <1>4, <2>1, <3>1, <3>2, InnermostIsThis
  <2>6. CallerAt(draw, k + 1, size) = CallerAt(draw, k, size)
    BY <1>1, <2>1, CallerStays
  <2> QED BY <1>4, <2>3, <2>4, <2>5, <2>6
<1> QED BY <1>6, <1>7, <1>8 DEF CallsRight, rest, top, now


LEMMA SessionsAre ==
    ASSUME NEW draw, IsDraw(draw), NEW s, SessionRight(draw, s)
    PROVE  /\ s.draw = draw /\ s.pos \in Nat /\ s.pos <= Len(draw.trace) + 1
           /\ s.calltrace \in Seq(CallEntries) /\ s.callstackSize \in Nat
           /\ s \in Sessions
BY TracesAre DEF SessionRight, Sessions, CallEntries

\* One instruction.
LEMMA InstructionStep ==
    ASSUME NEW draw, IsDraw(draw), NEW s, SessionRight(draw, s)
    PROVE  LET t == do_instruction_step(s) IN
           /\ SessionRight(draw, t) /\ t.breakpoints = s.breakpoints
           /\ t.pos = IF s.pos >= Len(draw.trace) THEN Len(draw.trace) + 1 ELSE s.pos + 1
<1> DEFINE t == do_instruction_step(s)
           N == Len(draw.trace)
<1>1. /\ s.draw = draw /\ s.pos \in Nat /\ s.pos <= N + 1 /\ s \in Sessions
      /\ s.calltrace \in Seq(CallEntries) /\ s.callstackSize \in Nat
      /\ N \in Nat /\ DOMAIN draw.trace = 1 .. N
  BY SessionsAre, TracesAre
<1>2. CASE s.pos >= N
  <2>1. <<>> \in Seq(CallEntries) /\ N + 1 \in Nat /\ 0 \in Nat /\ N + 1 \notin DOMAIN draw.trace
    BY <1>1
  <2>2. t = [s EXCEPT !.pos = N + 1, !.calltrace = <<>>, !.callstackSize = 0]
    BY <1>1, <1>2 DEF do_instruction_step
  <2> HIDE DEF t
  <2>3. /\ t \in Sessions /\ t.draw = draw /\ t.breakpoints = s.breakpoints
        /\ t.pos = N + 1 /\ t.callstackSize = 0 /\ t.calltrace = <<>>
    BY <1>1, <2>1, <2>2 DEF Sessions, CallEntries
  <2>4. N + 1 \in 0 .. N + 1
    BY <1>1
  <2> QED BY <1>1, <1>2, <2>1, <2>3, <2>4 DEF SessionRight, t
<1>3. CASE ~(s.pos >= N)
  <2> DEFINE k == s.pos
             size == Depth(draw, k + 1)
             calls == Calltrace(s, size)
  <2>1. k \in Nat /\ k + 1 \in 1 .. N /\ k + 1 \in DOMAIN draw.trace /\ k + 1 \in 0 .. N + 1
    BY <1>1, <1>3
  <2>2. size \in Nat /\ size > 0
    BY <2>1, TracesAre
  <2>3. t = [s EXCEPT !.pos = k + 1, !.callstackSize = size, !.calltrace = calls]
    BY <1>1, <1>3 DEF do_instruction_step
  <2>4. calls \in Seq(CallEntries) /\ CallsRight(draw, calls, k + 1)
    <3>1. CASE k = 0
      <4>1. s.calltrace = <<>> /\ s.callstackSize = 0
        BY <1>1, <3>1 DEF SessionRight
      <4>2. Loc(s) = NoLoc
        BY <3>1 DEF Loc
      <4>3. calls = <<[size |-> size, loc |-> NoLoc]>>
        BY <2>2, <4>1, <4>2 DEF Calltrace
      <4>4. calls \in Seq(CallEntries)
        <5>1. [size |-> size, loc |-> NoLoc] \in CallEntries
          BY <2>2, NoLocIs DEF CallEntries
        <5> HIDE DEF size
        <5> QED BY <4>3, <5>1
      <4>5. 1 \in DOMAIN draw.trace /\ k + 1 = 1
        BY <2>1, <3>1
      <4> QED BY <3>1, <4>3, <4>4, <4>5, CallsAtFirst
    <3>2. CASE k # 0
      <4>1. k \in DOMAIN draw.trace /\ k \in 1 .. N
        BY <1>1, <2>1, <3>2
      <4>2. CallsRight(draw, s.calltrace, k) /\ s.callstackSize = Depth(draw, k)
        BY <4>1 DEF SessionRight
      <4>3. Loc(s) = draw.trace[k].loc /\ draw.trace[k].loc \in Locs /\ Depth(draw, k) \in Nat
        <5>1. draw.trace # <<>> /\ can_perform_step(s)
          BY <1>1, <4>1 DEF can_perform_step
        <5> QED BY <1>1, <3>2, <4>1, <5>1, TracesAre DEF Loc
      <4>4. CASE size > Depth(draw, k)
        <5>1. calls = Append(s.calltrace, [size |-> size, loc |-> draw.trace[k].loc])
          BY <4>2, <4>3, <4>4 DEF Calltrace
        <5>2. [size |-> size, loc |-> draw.trace[k].loc] \in CallEntries
          BY <2>2, <4>3 DEF CallEntries
        <5>3. calls \in Seq(CallEntries)
          <6> HIDE DEF calls, size
          <6> QED BY <1>1, <5>1, <5>2, AppendProperties
        <5> QED BY <1>1, <2>1, <4>1, <4>2, <4>4, <5>1, <5>3, CallsAtCall
      <4>5. CASE ~(size > Depth(draw, k))
        <5>1. calls = SubSeq(s.calltrace, 1, Innermost(s.calltrace, size))
          BY <4>2, <4>3, <4>5 DEF Calltrace
        <5>2. CallsRight(draw, calls, k + 1)
          BY <1>1, <2>1, <4>1, <4>2, <4>5, <5>1, CallsAtReturn
        <5>3. Innermost(s.calltrace, size) \in 0 .. Len(s.calltrace) /\ Len(s.calltrace) \in Nat
          BY <1>1, <2>2, InnermostIs
        <5>4. calls \in Seq(CallEntries)
          <6> HIDE DEF calls, size
          <6>1. CASE Innermost(s.calltrace, size) = 0
            BY <1>1, <5>1, <6>1
          <6>2. CASE Innermost(s.calltrace, size) # 0
            BY <1>1, <5>1, <5>3, <6>2
          <6> QED BY <6>1, <6>2
        <5> QED BY <5>2, <5>4
      <4> QED BY <4>4, <4>5
    <3> QED BY <3>1, <3>2
  <2> HIDE DEF t, calls, size
  <2>5. /\ t \in Sessions /\ t.draw = draw /\ t.breakpoints = s.breakpoints
        /\ t.pos = k + 1 /\ t.callstackSize = size /\ t.calltrace = calls
    <3>1. k + 1 \in Nat /\ size \in Nat /\ calls \in Seq(CallEntries)
      BY <2>1, <2>2, <2>4 DEF size
    <3> HIDE DEF k
    <3> QED BY <1>1, <2>3, <3>1 DEF Sessions, CallEntries
  <2> QED BY <1>1, <1>3, <2>1, <2>4, <2>5 DEF SessionRight, t, size
<1> QED BY <1>2, <1>3

\* Where a session is, and the line its function was called at.
LEMMA LinesAre ==
    ASSUME NEW draw, IsDraw(draw), NEW s, SessionRight(draw, s)
    PROVE  /\ Loc(s) \in Locs /\ CallLine(s) \in Locs
           /\ s.pos <= Len(draw.trace) =>
                Loc(s) = TraceLoc(draw, s.pos) /\ CallLine(s) = CallerLoc(draw, s.pos)
<1>1. /\ s.draw = draw /\ s.pos \in Nat /\ s.pos <= Len(draw.trace) + 1
      /\ s.calltrace \in Seq(CallEntries) /\ Len(s.calltrace) \in Nat
      /\ Len(draw.trace) \in Nat /\ DOMAIN draw.trace = 1 .. Len(draw.trace)
  BY SessionsAre, TracesAre
<1>2. Loc(s) \in Locs /\ (s.pos <= Len(draw.trace) => Loc(s) = TraceLoc(draw, s.pos))
  <2>1. CASE s.pos = 0
    BY <2>1, NoLocIs DEF Loc, TraceLoc
  <2>2. CASE s.pos # 0 /\ draw.trace = <<>>
    BY <1>1, <2>2, NoLocIs DEF Loc
  <2>3. CASE s.pos # 0 /\ draw.trace # <<>>
    <3> DEFINE k == IF can_perform_step(s) THEN s.pos ELSE Len(draw.trace)
    <3>1. k \in 1 .. Len(draw.trace) /\ (s.pos <= Len(draw.trace) => k = s.pos)
      <4>1. Len(draw.trace) # 0
        <5>1. draw.trace \in Seq([loc : Locs, stack : Seq(STRING)])
          BY DEF IsDraw, Draws
        <5> QED BY <2>3, <5>1, EmptySeq
      <4> QED BY <1>1, <2>3, <4>1 DEF can_perform_step
    <3>2. Loc(s) = draw.trace[k].loc
      BY <1>1, <2>3 DEF Loc
    <3> HIDE DEF k
    <3> QED BY <2>3, <3>1, <3>2, TracesAre DEF TraceLoc
  <2> QED BY <2>1, <2>2, <2>3
<1>3. CallLine(s) \in Locs
  <2>1. CASE s.calltrace = <<>>
    BY <2>1, NoLocIs DEF CallLine
  <2>2. CASE s.calltrace # <<>>
    <3>1. Len(s.calltrace) # 0
      BY <1>1, <2>2, EmptySeq
    <3>2. s.calltrace[Len(s.calltrace)] \in CallEntries
      BY <1>1, <3>1
    <3> QED BY <2>2, <3>2 DEF CallLine, Last, CallEntries
  <2> QED BY <2>1, <2>2
<1>4. ASSUME s.pos <= Len(draw.trace) PROVE CallLine(s) = CallerLoc(draw, s.pos)
  <2>1. CASE s.pos = 0
    <3>1. s.calltrace = <<>>
      BY <1>1, <2>1 DEF SessionRight
    <3> QED BY <2>1, <3>1 DEF CallLine, CallerLoc
  <2>2. CASE s.pos # 0
    <3> DEFINE size == Depth(draw, s.pos)
               calls == s.calltrace
    <3>1. s.pos \in 1 .. Len(draw.trace) /\ size \in Nat /\ size \in 1 .. size
      BY <1>1, <1>4, <2>2, TracesAre
    <3>2. CallsRight(draw, calls, s.pos)
      BY <1>1, <3>1 DEF SessionRight
    <3>3. Innermost(calls, size) = Len(calls)
      <4>1. /\ Innermost(calls, size) \in 0 .. Len(calls)
            /\ \A n \in 1 .. Len(calls) : calls[n].size <= size => n <= Innermost(calls, size)
        BY <1>1, <3>1, InnermostIs
      <4>2. Len(calls) # 0 => Len(calls) \in 1 .. Len(calls) /\ calls[Len(calls)].size <= size
        BY <1>1, <3>2 DEF CallsRight
      <4> QED BY <1>1, <4>1, <4>2
    <3>4. CallerLoc(draw, s.pos) = IF Len(calls) = 0 THEN NoLoc ELSE calls[Len(calls)].loc
      <4> HIDE DEF calls
      <4> QED BY <2>2, <3>1, <3>2, <3>3 DEF CallsRight, CallerLoc
    <3>5. Len(calls) = 0 <=> calls = <<>>
      BY <1>1, EmptySeq
    <3> QED BY <3>4, <3>5 DEF CallLine, Last
  <2> QED BY <2>1, <2>2
<1> QED BY <1>2, <1>3, <1>4


-----------------------------------------------------------------------------
(* The lines that a trace enters.                                          *)

LEMMA EntersIs ==
    ASSUME NEW draw, IsDraw(draw), NEW p \in Nat, p + 1 \in 1 .. Len(draw.trace)
    PROVE  Enters(draw, p + 1) <=>
             (draw.source =>
                /\ draw.trace[p + 1].loc # NoLoc /\ draw.trace[p + 1].loc # TraceLoc(draw, p)
                /\ Returns(draw, p + 1) => draw.trace[p + 1].loc # CallerLoc(draw, p))
<1> DEFINE k == p + 1
           at(n) == IF n = 0 THEN NoLoc ELSE draw.trace[n].loc
           caller == Max({0} \cup {n \in 1 .. k - 1 : Depth(draw, n) < Depth(draw, k - 1)})
<1>1. k \in Nat /\ k # 0 /\ k - 1 = p /\ Len(draw.trace) \in Nat
  BY TracesAre
<1>2. /\ at(k) = draw.trace[p + 1].loc /\ at(k - 1) = TraceLoc(draw, p)
      /\ at(caller) = TraceLoc(draw, caller)
  BY <1>1 DEF TraceLoc
<1>3. caller = CallerAt(draw, p + 1, Depth(draw, p))
  BY <1>1 DEF CallerAt
<1>4. Enters(draw, p + 1) <=>
        (draw.source => /\ at(k) # NoLoc /\ at(k) # at(k - 1)
                        /\ Returns(draw, k) => at(k) # at(caller))
  BY <1>1 DEF Enters
<1> HIDE DEF at, caller
<1>5. Returns(draw, k) => at(caller) = CallerLoc(draw, p)
  <2>1. SUFFICES ASSUME Returns(draw, k) PROVE at(caller) = CallerLoc(draw, p)
    OBVIOUS
  <2>2. p # 0 /\ p \in 1 .. Len(draw.trace)
    BY <1>1, <2>1 DEF Returns
  <2>3. Depth(draw, p) \in Nat /\ Depth(draw, p) <= Depth(draw, p)
    BY <2>2, TracesAre
  <2>4. CallerAt(draw, p + 1, Depth(draw, p)) = CallerAt(draw, p, Depth(draw, p))
    BY <2>2, <2>3, CallerStays
  <2> QED BY <1>2, <1>3, <2>2, <2>4 DEF CallerLoc
<1> QED BY <1>2, <1>4, <1>5

\* What an instruction at another line, at the same or at that of the call says.
LEMMA NextLine ==
    ASSUME NEW draw, IsDraw(draw), draw.source, NEW p \in Nat, p + 1 \in 1 .. Len(draw.trace)
    PROVE  LET loc == draw.trace[p + 1].loc IN
           /\ loc = TraceLoc(draw, p) =>
                ~Enters(draw, p + 1) /\ CallerLoc(draw, p + 1) = CallerLoc(draw, p)
           /\ loc = CallerLoc(draw, p) => ~Enters(draw, p + 1)
           /\ loc # TraceLoc(draw, p) /\ loc # CallerLoc(draw, p) =>
                Enters(draw, p + 1) /\ loc # NoLoc
<1> DEFINE loc == draw.trace[p + 1].loc
<1>1. /\ Len(draw.trace) \in Nat /\ DOMAIN draw.trace = 1 .. Len(draw.trace)
      /\ p + 1 \in DOMAIN draw.trace /\ (p + 1) - 1 = p
      /\ Depth(draw, p + 1) \in Nat /\ Depth(draw, p + 1) > 0
  BY TracesAre
<1>2. p # 0 => p \in 1 .. Len(draw.trace) /\ Depth(draw, p) \in Nat /\ Depth(draw, p) > 0
  <2>1. p # 0 => p \in 1 .. Len(draw.trace)
    BY <1>1
  <2> QED BY <2>1, TracesAre
<1>3. TraceAssumption(draw, p + 1)
  BY <1>1 DEF IsDraw
<1>4. loc = NoLoc => Depth(draw, p + 1) = 1 /\ ~Returns(draw, p + 1)
  BY <1>3 DEF TraceAssumption
<1>5. ASSUME NEW first \in 1 .. p, draw.trace[first].loc = loc,
             \A n \in first .. p + 1 : Depth(draw, n) >= Min({Depth(draw, first), Depth(draw, p + 1)})
      PROVE  Depth(draw, first) = Depth(draw, p + 1)
  <2>1. first \in 1 .. (p + 1) - 1
    BY <1>1
  <2> QED BY <1>3, <1>5, <2>1 DEF TraceAssumption
<1>6. \A a \in Nat, b \in Nat : /\ Min({a, b}) \in {a, b} /\ Min({a, b}) <= a /\ Min({a, b}) <= b
  <2>1. SUFFICES ASSUME NEW a \in Nat, NEW b \in Nat
                 PROVE  /\ Min({a, b}) \in {a, b} /\ Min({a, b}) <= a /\ Min({a, b}) <= b
    OBVIOUS
  <2>2. \E x \in {a, b} : \A y \in {a, b} : x <= y
    <3>1. CASE a <= b
      BY <3>1
    <3>2. CASE ~(a <= b)
      BY <3>2
    <3> QED BY <3>1, <3>2
  <2>3. Min({a, b}) \in {a, b} /\ \A y \in {a, b} : Min({a, b}) <= y
    <3> DEFINE T == {a, b}
    <3> HIDE DEF T
    <3>1. Min(T) \in T /\ \A y \in T : Min(T) <= y
      BY <2>2 DEF Min, T
    <3> QED BY <3>1 DEF T
  <2> QED BY <2>3
<1>7. loc = TraceLoc(draw, p) => CallerLoc(draw, p + 1) = CallerLoc(draw, p)
  <2>1. SUFFICES ASSUME loc = TraceLoc(draw, p) PROVE CallerLoc(draw, p + 1) = CallerLoc(draw, p)
    OBVIOUS
  <2>2. CASE p = 0
    <3>1. CallerAt(draw, 1, Depth(draw, 1)) = 0
      <4>1. 1 \in 0 .. Len(draw.trace) + 1 /\ Depth(draw, 1) \in Nat
        BY <1>1, <2>2
      <4>2. /\ CallerAt(draw, 1, Depth(draw, 1)) \in Nat
            /\ CallerAt(draw, 1, Depth(draw, 1)) # 0 => CallerAt(draw, 1, Depth(draw, 1)) < 1
        BY <4>1, CallerIs
      <4> QED BY <4>2
    <3> QED BY <2>2, <3>1 DEF CallerLoc, TraceLoc
  <2>3. CASE p # 0
    <3>1. draw.trace[p].loc = loc /\ p \in 1 .. p
      BY <1>2, <2>1, <2>3 DEF TraceLoc
    <3>2. ASSUME NEW n \in p .. p + 1
          PROVE  Depth(draw, n) >= Min({Depth(draw, p), Depth(draw, p + 1)})
      <4>1. n = p \/ n = p + 1
        OBVIOUS
      <4>2. /\ Min({Depth(draw, p), Depth(draw, p + 1)}) <= Depth(draw, p)
            /\ Min({Depth(draw, p), Depth(draw, p + 1)}) <= Depth(draw, p + 1)
            /\ Min({Depth(draw, p), Depth(draw, p + 1)}) \in Nat
        BY <1>1, <1>2, <1>6, <2>3
      <4> QED BY <1>1, <1>2, <2>3, <4>1, <4>2
    <3>3. Depth(draw, p) = Depth(draw, p + 1)
      BY <1>5, <3>1, <3>2
    <3>4. CallerAt(draw, p + 1, Depth(draw, p)) = CallerAt(draw, p, Depth(draw, p))
      BY <1>2, <2>3, CallerStays
    <3> QED BY <2>3, <3>3, <3>4 DEF CallerLoc
  <2> QED BY <2>2, <2>3
<1>8. loc = CallerLoc(draw, p) /\ loc # NoLoc => Returns(draw, p + 1)
  <2>1. SUFFICES ASSUME loc = CallerLoc(draw, p), loc # NoLoc PROVE Returns(draw, p + 1)
    OBVIOUS
  <2> DEFINE caller == CallerAt(draw, p, Depth(draw, p))
  <2>2. p # 0 /\ caller # 0 /\ draw.trace[caller].loc = loc
    BY <2>1 DEF CallerLoc, TraceLoc
  <2>3. p \in 0 .. Len(draw.trace) + 1
    BY <1>1
  <2>4. /\ caller \in 1 .. Len(draw.trace) /\ caller < p /\ Depth(draw, caller) < Depth(draw, p)
        /\ \A other \in 1 .. p - 1 : Depth(draw, other) < Depth(draw, p) => other <= caller
    BY <1>2, <2>2, <2>3, CallerIs
  <2> HIDE DEF caller
  <2>5. Depth(draw, caller) \in Nat /\ caller \in 1 .. p
    BY <1>1, <2>4, TracesAre
  <2>6. ASSUME Depth(draw, p + 1) >= Depth(draw, p) PROVE FALSE
    <3>1. Min({Depth(draw, caller), Depth(draw, p + 1)}) <= Depth(draw, caller)
          /\ Min({Depth(draw, caller), Depth(draw, p + 1)}) \in Nat
      BY <1>1, <1>6, <2>5
    <3>2. ASSUME NEW n \in caller .. p + 1 PROVE Depth(draw, n) >= Depth(draw, caller)
      <4>1. n = caller \/ n = p \/ n = p + 1 \/ (n \in 1 .. p - 1 /\ ~(n <= caller))
        BY <1>1, <2>4, <2>5
      <4>2. n \in 1 .. Len(draw.trace) /\ Depth(draw, n) \in Nat
        <5>1. n \in 1 .. Len(draw.trace)
          BY <1>1, <2>4
        <5> QED BY <5>1, TracesAre
      <4> QED BY <1>1, <1>2, <2>2, <2>4, <2>5, <2>6, <4>1, <4>2
    <3>3. ASSUME NEW n \in caller .. p + 1
          PROVE  Depth(draw, n) >= Min({Depth(draw, caller), Depth(draw, p + 1)})
      <4>1. n \in 1 .. Len(draw.trace)
        BY <1>1, <2>4
      <4>2. Depth(draw, n) \in Nat /\ Depth(draw, n) >= Depth(draw, caller)
        BY <3>2, <4>1, TracesAre
      <4> QED BY <2>5, <3>1, <4>2
    <3>4. Depth(draw, caller) = Depth(draw, p + 1)
      BY <1>5, <2>2, <2>5, <3>3
    <3> QED BY <1>1, <1>2, <2>2, <2>4, <2>5, <2>6, <3>4
  <2> QED BY <1>1, <1>2, <2>2, <2>6 DEF Returns
<1>9. loc = NoLoc => TraceLoc(draw, p) = NoLoc \/ CallerLoc(draw, p) = NoLoc
  <2>1. CASE p = 0
    BY <2>1 DEF TraceLoc
  <2>2. CASE p # 0 /\ loc = NoLoc
    <3>1. Depth(draw, p) = 1
      <4>1. ~(Depth(draw, p + 1) < Depth(draw, p))
        BY <1>1, <1>4, <2>2 DEF Returns
      <4> QED BY <1>1, <1>2, <1>4, <2>2, <4>1
    <3>2. CallerAt(draw, p, 1) = 0
      <4>1. p \in 0 .. Len(draw.trace) + 1 /\ 1 \in Nat
        BY <1>1
      <4>2. CallerAt(draw, p, 1) # 0 => /\ CallerAt(draw, p, 1) \in 1 .. Len(draw.trace)
                                        /\ Depth(draw, CallerAt(draw, p, 1)) < 1
        BY <4>1, CallerIs
      <4>3. \A n \in 1 .. Len(draw.trace) : Depth(draw, n) \in Nat /\ Depth(draw, n) > 0
        BY TracesAre
      <4> QED BY <4>2, <4>3
    <3> QED BY <2>2, <3>1, <3>2 DEF CallerLoc, TraceLoc
  <2> QED BY <2>1, <2>2
<1>10. Enters(draw, p + 1) <=>
         /\ loc # NoLoc /\ loc # TraceLoc(draw, p)
         /\ Returns(draw, p + 1) => loc # CallerLoc(draw, p)
  BY EntersIs
<1> HIDE DEF loc
<1>11. /\ loc = TraceLoc(draw, p) =>
            ~Enters(draw, p + 1) /\ CallerLoc(draw, p + 1) = CallerLoc(draw, p)
       /\ loc = CallerLoc(draw, p) => ~Enters(draw, p + 1)
  BY <1>7, <1>8, <1>10
<1>12. loc # TraceLoc(draw, p) /\ loc # CallerLoc(draw, p) => loc # NoLoc
  BY <1>9
<1> QED BY <1>10, <1>11, <1>12 DEF loc


-----------------------------------------------------------------------------
(* Loops.                                                                  *)

LEMMA Counting ==
    ASSUME NEW N \in Nat, NEW T, 0 \in T, \A n \in 1 .. N : n - 1 \in T => n \in T
    PROVE  \A n \in 0 .. N : n \in T
<1> DEFINE U == {n \in 0 .. N : n \notin T}
<1>1. SUFFICES ASSUME U # {} PROVE FALSE
  BY DEF U
<1>2. U \in SUBSET Nat
  OBVIOUS
<1>3. PICK least \in U : \A n \in U : least <= n
  <2> HIDE DEF U
  <2> QED BY <1>1, <1>2, LeastNatural
<1>4. least \in 1 .. N /\ least - 1 \in 0 .. N /\ ~(least <= least - 1)
  OBVIOUS
<1>5. least - 1 \in T
  BY <1>3, <1>4
<1> QED BY <1>4, <1>5

\* What N iterations make of the base.
Iterated(f, S, base, N, step) ==
    f \in [0 .. N -> S] /\ f = [n \in 0 .. N |-> IF n = 0 THEN base ELSE step[f[n - 1]]]

\* A loop of N iterations is defined.
LEMMA Iterating ==
    ASSUME NEW S, NEW base \in S, NEW N \in Nat, NEW step \in [S -> S]
    PROVE  \E f : Iterated(f, S, base, N, step)
<1> DEFINE defined(m) == \E f \in [0 .. m -> S] :
                            f[0] = base /\ \A n \in 1 .. m : f[n] = step[f[n - 1]]
           T == {m \in 0 .. N : defined(m)}
<1>1. 0 \in T
  <2> DEFINE f == [n \in 0 .. 0 |-> base]
  <2>1. f \in [0 .. 0 -> S] /\ f[0] = base /\ 1 .. 0 = {}
    OBVIOUS
  <2>2. defined(0)
    <3> HIDE DEF f
    <3> QED BY <2>1
  <2> HIDE DEF defined
  <2> QED BY <2>2
<1>2. ASSUME NEW m \in 1 .. N, m - 1 \in T PROVE m \in T
  <2>1. PICK f \in [0 .. m - 1 -> S] : f[0] = base /\ \A n \in 1 .. m - 1 : f[n] = step[f[n - 1]]
    BY <1>2
  <2> DEFINE g == [n \in 0 .. m |-> IF n = m THEN step[f[m - 1]] ELSE f[n]]
  <2>2. m - 1 \in 0 .. m - 1 /\ step[f[m - 1]] \in S
    <3>1. m - 1 \in 0 .. m - 1
      OBVIOUS
    <3> QED BY <3>1
  <2>3. \A n \in 0 .. m : n # m => n \in 0 .. m - 1
    OBVIOUS
  <2>4. g \in [0 .. m -> S]
    BY <2>2, <2>3
  <2>5. g[0] = base
    BY <2>1
  <2>6. ASSUME NEW n \in 1 .. m PROVE g[n] = step[g[n - 1]]
    <3>1. n - 1 \in 0 .. m /\ n \in 0 .. m /\ n - 1 # m
      OBVIOUS
    <3>2. g[n - 1] = f[n - 1]
      BY <3>1
    <3>3. CASE n = m
      BY <3>1, <3>2, <3>3
    <3>4. CASE n # m
      <4>1. n \in 1 .. m - 1
        BY <3>4
      <4> QED BY <2>1, <3>1, <3>2, <3>4, <4>1
    <3> QED BY <3>3, <3>4
  <2> HIDE DEF g
  <2>7. defined(m)
    BY <2>4, <2>5, <2>6
  <2> QED BY <2>7
<1>3. N \in T
  <2>1. \A n \in 0 .. N : n \in T
    <3> HIDE DEF T
    <3> QED BY <1>1, <1>2, Counting
  <2> HIDE DEF T
  <2> QED BY <2>1
<1>4. PICK f \in [0 .. N -> S] : f[0] = base /\ \A n \in 1 .. N : f[n] = step[f[n - 1]]
  BY <1>3
<1>5. f = [n \in 0 .. N |-> IF n = 0 THEN base ELSE step[f[n - 1]]]
  <2>1. \A n \in 0 .. N : n # 0 => n \in 1 .. N
    OBVIOUS
  <2> QED BY <1>4, <2>1
<1> QED BY <1>5 DEF Iterated

-----------------------------------------------------------------------------
(* do_source_step.                                                         *)

\* The loop, begun in the session s: it has passed no line that the trace enters.
SourceLoops(draw, s) ==
    {w \in [session : Sessions, last : Locs, call : Locs, ok : BOOLEAN, over : BOOLEAN] :
        /\ SessionRight(draw, w.session) /\ w.session.breakpoints = s.breakpoints
        /\ s.pos <= w.session.pos
        /\ ~w.over => /\ ~w.ok /\ (w.session.pos <= Len(draw.trace) \/ w.session.pos = s.pos)
                      /\ w.session.pos <= Len(draw.trace) =>
                            /\ w.last = TraceLoc(draw, w.session.pos)
                            /\ w.call = CallerLoc(draw, w.session.pos)
        /\ w.over => IF w.ok THEN /\ s.pos < w.session.pos /\ w.session.pos <= Len(draw.trace)
                                  /\ Enters(draw, w.session.pos)
                     ELSE w.session.pos = Len(draw.trace) + 1
        /\ \A k \in 1 .. Len(draw.trace) :
              s.pos < k /\ k <= w.session.pos /\ Enters(draw, k) => w.ok /\ k = w.session.pos}

LEMMA SourceIterates ==
    ASSUME NEW draw, IsDraw(draw), draw.source, NEW s, SessionRight(draw, s),
           NEW w \in SourceLoops(draw, s)
    PROVE  /\ SourceIteration(w) \in SourceLoops(draw, s)
           /\ \/ SourceIteration(w).over
              \/ SourceIteration(w).session.pos = w.session.pos + 1
<1> DEFINE t == do_instruction_step(w.session)
           N == Len(draw.trace)
           p == w.session.pos
           R == [session : Sessions, last : Locs, call : Locs, ok : BOOLEAN, over : BOOLEAN]
<1>0. w \in R /\ SessionRight(draw, w.session) /\ w.session.breakpoints = s.breakpoints /\ s.pos <= p
  BY DEF SourceLoops
<1>1. /\ SessionRight(draw, t) /\ t.breakpoints = s.breakpoints
      /\ t.pos = IF p >= N THEN N + 1 ELSE p + 1
  BY <1>0, InstructionStep
<1>2. /\ N \in Nat /\ p \in Nat /\ p <= N + 1 /\ s.pos \in Nat /\ s.pos <= N + 1
      /\ t \in Sessions /\ t.draw = draw
  BY <1>0, <1>1, SessionsAre, TracesAre
<1>3. /\ Loc(t) \in Locs /\ CallLine(t) \in Locs
      /\ t.pos <= N => Loc(t) = TraceLoc(draw, t.pos) /\ CallLine(t) = CallerLoc(draw, t.pos)
  BY <1>1, LinesAre
<1>4. can_perform_step(t) <=> p < N
  <2> HIDE DEF t
  <2> QED BY <1>1, <1>2 DEF can_perform_step
<1>5. CASE w.over
  BY <1>5 DEF SourceIteration, Compared
<1>6. CASE ~w.over
  <2>1. /\ ~w.ok /\ (p <= N \/ p = s.pos)
        /\ p <= N => w.last = TraceLoc(draw, p) /\ w.call = CallerLoc(draw, p)
        /\ \A k \in 1 .. N : s.pos < k /\ k <= p => ~Enters(draw, k)
    BY <1>6 DEF SourceLoops
  <2>2. /\ w.session \in Sessions /\ w.last \in Locs /\ w.call \in Locs
        /\ w.ok \in BOOLEAN /\ w.over \in BOOLEAN
    BY <1>0
  <2>3. CASE p < N
    <3>1. /\ t.pos = p + 1 /\ p + 1 \in 1 .. N /\ p + 1 <= N /\ s.pos < p + 1 /\ p <= N
          /\ \A k \in 1 .. N : k <= p + 1 => k <= p \/ k = p + 1
          /\ p + 1 # 0
      BY <1>0, <1>1, <1>2, <2>3
    <3>2. Loc(t) = draw.trace[p + 1].loc /\ CallLine(t) = CallerLoc(draw, p + 1)
          /\ Loc(t) = TraceLoc(draw, p + 1)
      BY <1>3, <3>1 DEF TraceLoc
    <3>3. /\ Loc(t) = TraceLoc(draw, p) =>
                ~Enters(draw, p + 1) /\ CallerLoc(draw, p + 1) = CallerLoc(draw, p)
          /\ Loc(t) = CallerLoc(draw, p) => ~Enters(draw, p + 1)
          /\ Loc(t) # TraceLoc(draw, p) /\ Loc(t) # CallerLoc(draw, p) =>
                Enters(draw, p + 1) /\ Loc(t) # NoLoc
      <4>1. p \in Nat /\ Loc(t) = draw.trace[p + 1].loc
        BY <1>2, <3>2
      <4> HIDE DEF p, t
      <4> QED BY <3>1, <4>1, NextLine
    <3>4. w.last = TraceLoc(draw, p) /\ w.call = CallerLoc(draw, p)
      BY <2>1, <3>1
    <3>5. can_perform_step(t)
      BY <1>4, <2>3
    <3>6. CASE Loc(t) = w.last
      <4> DEFINE v == [w EXCEPT !.session = t]
      <4>1. SourceIteration(w) = v
        BY <1>6, <3>5, <3>6 DEF SourceIteration, Compared
      <4>2. /\ v \in R /\ v.session = t /\ v.last = w.last /\ v.call = w.call /\ v.ok = w.ok
            /\ v.over = w.over
        <5> HIDE DEF t
        <5> QED BY <1>0, <1>2
      <4>3. v.last = TraceLoc(draw, p + 1) /\ v.call = CallerLoc(draw, p + 1) /\ ~Enters(draw, p + 1)
        BY <3>2, <3>3, <3>4, <3>6, <4>2
      <4> HIDE DEF v, t, R, p
      <4>4. v \in SourceLoops(draw, s)
        BY <1>0, <1>1, <1>2, <1>6, <2>1, <3>1, <4>2, <4>3 DEF SourceLoops, R
      <4> QED BY <3>1, <4>1, <4>2, <4>4 DEF p
    <3>7. CASE Loc(t) # w.last /\ Loc(t) = w.call
      <4> DEFINE v == [w EXCEPT !.session = t, !.last = w.call, !.call = CallLine(t)]
      <4>1. SourceIteration(w) = v
        BY <1>6, <3>5, <3>7 DEF SourceIteration, Compared
      <4>2. /\ v \in R /\ v.session = t /\ v.last = w.call /\ v.call = CallLine(t) /\ v.ok = w.ok
            /\ v.over = w.over
        <5> HIDE DEF t
        <5> QED BY <1>0, <1>2, <1>3
      <4>3. v.last = TraceLoc(draw, p + 1) /\ v.call = CallerLoc(draw, p + 1) /\ ~Enters(draw, p + 1)
        BY <3>2, <3>3, <3>4, <3>7, <4>2
      <4> HIDE DEF v, t, R, p
      <4>4. v \in SourceLoops(draw, s)
        BY <1>0, <1>1, <1>2, <1>6, <2>1, <3>1, <4>2, <4>3 DEF SourceLoops, R
      <4> QED BY <3>1, <4>1, <4>2, <4>4 DEF p
    <3>8. CASE Loc(t) # w.last /\ Loc(t) # w.call
      <4> DEFINE v == [w EXCEPT !.session = t, !.ok = TRUE, !.over = TRUE]
      <4>0. Enters(draw, p + 1) /\ Loc(t) # NoLoc
        BY <3>3, <3>4, <3>8
      <4>1. SourceIteration(w) = v
        BY <1>6, <3>5, <3>8, <4>0 DEF SourceIteration, Compared
      <4>2. v \in R /\ v.session = t /\ v.ok /\ v.over
        <5> HIDE DEF t
        <5> QED BY <1>0, <1>2
      <4> HIDE DEF v, t, R, p
      <4>3. v \in SourceLoops(draw, s)
        BY <1>0, <1>1, <1>2, <1>6, <2>1, <3>1, <4>0, <4>2 DEF SourceLoops, R
      <4> QED BY <4>1, <4>2, <4>3 DEF p
    <3> QED BY <3>6, <3>7, <3>8
  <2>4. CASE ~(p < N)
    <3> DEFINE v == [w EXCEPT !.session = t, !.ok = FALSE, !.over = TRUE]
    <3>1. SourceIteration(w) = v
      BY <1>4, <1>6, <2>4 DEF SourceIteration, Compared
    <3>2. v \in R /\ v.session = t /\ v.ok = FALSE /\ v.over
      <4> HIDE DEF t
      <4> QED BY <1>0, <1>2
    <3>3. t.pos = N + 1 /\ s.pos <= N + 1 /\ \A k \in 1 .. N : k <= p
      BY <1>1, <1>2, <2>4
    <3> HIDE DEF v, t, R, p
    <3>4. v \in SourceLoops(draw, s)
      BY <1>0, <1>1, <1>2, <2>1, <3>2, <3>3 DEF SourceLoops, R
    <3> QED BY <3>1, <3>2, <3>4
  <2> QED BY <2>3, <2>4
<1> QED BY <1>5, <1>6


\* What a step of a session may get to.
Stepped(draw, s, r) ==
    /\ r.ok \in BOOLEAN /\ SessionRight(draw, r.session) /\ r.session.breakpoints = s.breakpoints
    /\ IF r.ok THEN /\ s.pos < r.session.pos /\ r.session.pos <= Len(draw.trace)
                    /\ Enters(draw, r.session.pos)
       ELSE r.session.pos = Len(draw.trace) + 1
    /\ \A k \in 1 .. Len(draw.trace) : s.pos < k /\ k < r.session.pos => ~Enters(draw, k)

LEMMA SourceSteps ==
    ASSUME NEW draw, IsDraw(draw), draw.source, NEW s, SessionRight(draw, s)
    PROVE  Stepped(draw, s, do_source_step(s))
<1> DEFINE N == Iterations(s)
           S == SourceLoops(draw, s)
           base == [session |-> s, last |-> Loc(s), call |-> CallLine(s), ok |-> FALSE, over |-> FALSE]
           eq(f) == f = [n \in 0 .. N |-> IF n = 0 THEN base ELSE SourceIteration(f[n - 1])]
           after == CHOOSE f : eq(f)
           end == after[N]
<1>1. /\ s \in Sessions /\ s.draw = draw /\ s.pos \in Nat /\ s.pos <= Len(draw.trace) + 1
      /\ Len(draw.trace) \in Nat /\ N = Len(draw.trace) + 1 /\ N \in Nat
  BY SessionsAre, TracesAre DEF Iterations
<1>2. base \in S
  <2>1. /\ Loc(s) \in Locs /\ CallLine(s) \in Locs
        /\ s.pos <= Len(draw.trace) =>
             Loc(s) = TraceLoc(draw, s.pos) /\ CallLine(s) = CallerLoc(draw, s.pos)
    BY LinesAre
  <2>2. \A k \in 1 .. Len(draw.trace) : ~(s.pos < k /\ k <= s.pos)
    BY <1>1
  <2> QED BY <1>1, <2>1, <2>2 DEF SourceLoops
<1> DEFINE step == [w \in S |-> SourceIteration(w)]
<1> HIDE DEF base, S, N
<1>3. \A w \in S : /\ SourceIteration(w) \in S
                   /\ SourceIteration(w).over \/ SourceIteration(w).session.pos = w.session.pos + 1
  BY SourceIterates DEF S
<1>4. \E f : eq(f)
  <2>1. step \in [S -> S]
    BY <1>3
  <2> HIDE DEF step
  <2>2. PICK f : Iterated(f, S, base, N, step)
    <3>1. N \in Nat
      BY <1>1
    <3> QED BY <1>2, <2>1, <3>1, Iterating
  <2>3. ASSUME NEW n \in 0 .. N, n # 0 PROVE step[f[n - 1]] = SourceIteration(f[n - 1])
    <3>1. n - 1 \in 0 .. N
      BY <1>1, <2>3
    <3>2. f[n - 1] \in S
      BY <2>2, <3>1 DEF Iterated
    <3> QED BY <3>2 DEF step
  <2>4. [n \in 0 .. N |-> IF n = 0 THEN base ELSE step[f[n - 1]]]
        = [n \in 0 .. N |-> IF n = 0 THEN base ELSE SourceIteration(f[n - 1])]
    BY <2>3
  <2>5. eq(f)
    BY <2>2, <2>4 DEF Iterated
  <2> QED BY <2>5
<1>5. eq(after)
  <2> HIDE DEF eq
  <2> QED BY <1>4
<1>6. do_source_step(s) = Done(end.session, end.ok)
  BY DEF do_source_step, Outcome, base, N
<1> HIDE DEF after
<1>7. after[0] = base /\ \A n \in 1 .. N : after[n] = SourceIteration(after[n - 1])
  <2>1. 0 \in 0 .. N /\ \A n \in 1 .. N : n \in 0 .. N /\ n # 0
    BY <1>1
  <2> QED BY <1>5, <2>1
<1> HIDE DEF eq
<1> DEFINE T == {n \in 0 .. N : after[n] \in S
                                /\ (after[n].over \/ after[n].session.pos = s.pos + n)}
<1>8. 0 \in T
  <2>1. base.session = s /\ 0 \in 0 .. N /\ s.pos = s.pos + 0
    BY <1>1 DEF base
  <2> QED BY <1>2, <1>7, <2>1
<1>9. ASSUME NEW n \in 1 .. N, n - 1 \in T PROVE n \in T
  <2>1. after[n] = SourceIteration(after[n - 1]) /\ after[n - 1] \in S
    BY <1>7, <1>9
  <2>2. after[n] \in S /\ (after[n].over \/ after[n].session.pos = after[n - 1].session.pos + 1)
    BY <1>3, <2>1
  <2>3. after[n - 1].over => after[n].over
    BY <2>1 DEF SourceIteration, Compared
  <2>4. after[n - 1].over \/ after[n - 1].session.pos = s.pos + (n - 1)
    BY <1>9
  <2>5. (s.pos + (n - 1)) + 1 = s.pos + n /\ n \in 0 .. N
    BY <1>1
  <2> QED BY <2>2, <2>3, <2>4, <2>5
<1>10. N \in T
  <2>1. \A n \in 0 .. N : n \in T
    <3> HIDE DEF T
    <3> QED BY <1>1, <1>8, <1>9, Counting
  <2> HIDE DEF T
  <2> QED BY <1>1, <2>1
<1>11. end \in S /\ (end.over \/ end.session.pos = s.pos + N)
  BY <1>10
<1> HIDE DEF end, T
<1>12. SessionRight(draw, end.session) /\ end.ok \in BOOLEAN
  BY <1>11 DEF S, SourceLoops
<1>13. end.session.pos \in Nat /\ end.session.pos <= Len(draw.trace) + 1
  BY <1>12, SessionsAre
<1>14. end.over
  <2>1. SUFFICES ASSUME ~end.over PROVE FALSE
    OBVIOUS
  <2>2. end.session.pos = s.pos + N
    BY <1>11, <2>1
  <2>3. end.session.pos <= Len(draw.trace) \/ end.session.pos = s.pos
    BY <1>11, <2>1 DEF S, SourceLoops
  <2> QED BY <1>1, <2>2, <2>3
<1>15. /\ end.session.breakpoints = s.breakpoints
       /\ IF end.ok THEN /\ s.pos < end.session.pos /\ end.session.pos <= Len(draw.trace)
                         /\ Enters(draw, end.session.pos)
          ELSE end.session.pos = Len(draw.trace) + 1
       /\ \A k \in 1 .. Len(draw.trace) :
             s.pos < k /\ k <= end.session.pos /\ Enters(draw, k) => end.ok /\ k = end.session.pos
  BY <1>11, <1>14 DEF S, SourceLoops
<1>16. \A k \in 1 .. Len(draw.trace) : s.pos < k /\ k < end.session.pos => ~Enters(draw, k)
  <2>1. SUFFICES ASSUME NEW k \in 1 .. Len(draw.trace), s.pos < k, k < end.session.pos, Enters(draw, k)
                 PROVE  FALSE
    OBVIOUS
  <2>2. k <= end.session.pos /\ k # end.session.pos
    BY <1>13, <2>1
  <2> QED BY <1>15, <2>1, <2>2
<1> QED BY <1>6, <1>12, <1>15, <1>16 DEF Stepped, Done

LEMMA Steps ==
    ASSUME NEW draw, IsDraw(draw), NEW s, SessionRight(draw, s)
    PROVE  Stepped(draw, s, do_step(s))
<1>1. /\ s \in Sessions /\ s.draw = draw /\ s.pos \in Nat /\ s.pos <= Len(draw.trace) + 1
      /\ Len(draw.trace) \in Nat /\ DOMAIN draw.trace = 1 .. Len(draw.trace) /\ draw.source \in BOOLEAN
  BY SessionsAre, TracesAre
<1>2. CASE draw.source
  BY <1>1, <1>2, SourceSteps DEF do_step
<1>3. CASE ~draw.source
  <2> DEFINE t == do_instruction_step(s)
             p == s.pos
  <2>1. /\ SessionRight(draw, t) /\ t.breakpoints = s.breakpoints
        /\ t.pos = IF p >= Len(draw.trace) THEN Len(draw.trace) + 1 ELSE p + 1
    BY InstructionStep
  <2>2. t.draw = draw /\ t.pos \in Nat /\ t.pos <= Len(draw.trace) + 1
    BY <2>1, SessionsAre
  <2>3. do_step(s) = Done(t, can_perform_step(t) /\ Loc(t) # Loc(s))
    BY <1>1, <1>3 DEF do_step
  <2> HIDE DEF t
  <2>4. ASSUME NEW k \in 1 .. Len(draw.trace) PROVE ~(s.pos < k /\ k < t.pos)
    BY <1>1, <2>1
  <2>5. CASE p >= Len(draw.trace)
    <3>1. ~can_perform_step(t) /\ t.pos = Len(draw.trace) + 1
      BY <1>1, <2>1, <2>2, <2>5 DEF can_perform_step
    <3>2. do_step(s) = Done(t, FALSE)
      BY <2>3, <3>1
    <3> QED BY <2>1, <2>4, <3>1, <3>2 DEF Stepped, Done
  <2>6. CASE ~(p >= Len(draw.trace))
    <3>1. /\ t.pos = p + 1 /\ p + 1 \in 1 .. Len(draw.trace) /\ p + 1 <= Len(draw.trace)
          /\ p <= Len(draw.trace) /\ p < p + 1 /\ (p + 1) - 1 = p /\ (p = 0 <=> p + 1 = 1) /\ p + 1 # 0
      BY <1>1, <2>1, <2>6
    <3>2. can_perform_step(t)
      BY <1>1, <2>2, <3>1 DEF can_perform_step
    <3>3. Loc(t) = draw.trace[p + 1].loc /\ Loc(s) = TraceLoc(draw, p)
      <4>1. Loc(t) = TraceLoc(draw, t.pos) /\ Loc(s) = TraceLoc(draw, p)
        BY <2>1, <3>1, LinesAre
      <4> QED BY <3>1, <4>1 DEF TraceLoc
    <3>4. TraceAssumption(draw, p + 1)
      BY <1>1, <3>1 DEF IsDraw
    <3>5. draw.trace[p + 1].loc # TraceLoc(draw, p)
      BY <1>3, <3>1, <3>4 DEF TraceAssumption, TraceLoc
    <3>6. Enters(draw, p + 1)
      <4> HIDE DEF p
      <4>1. p \in Nat
        BY <1>1 DEF p
      <4> QED BY <1>3, <3>1, <4>1, EntersIs
    <3>7. do_step(s) = Done(t, TRUE)
      BY <2>3, <3>2, <3>3, <3>5
    <3> QED BY <2>1, <2>4, <3>1, <3>6, <3>7 DEF Stepped, Done
  <2> QED BY <2>5, <2>6
<1> QED BY <1>1, <1>2, <1>3


-----------------------------------------------------------------------------
(* The loops of the commands.                                              *)

\* A command begun in the session s does not stop at instruction k.
PassesBy(draw, command, s, k) ==
    /\ command # "step_into"
    /\ RenderDocBreakpoint(draw, draw.trace[k].loc) \notin s.breakpoints
    /\ command = "step_over" => Depth(draw, k) > s.callstackSize

StepLoops(draw, command, s) ==
    {w \in [session : Sessions, ok : BOOLEAN, over : BOOLEAN] :
        /\ SessionRight(draw, w.session) /\ w.session.breakpoints = s.breakpoints
        /\ s.pos <= w.session.pos
        /\ ~w.over => w.session.pos <= Len(draw.trace) \/ w.session.pos = s.pos
        /\ w.over => IF w.ok THEN /\ s.pos < w.session.pos /\ w.session.pos <= Len(draw.trace)
                                  /\ Enters(draw, w.session.pos) /\ Stops(command, w.session, s)
                     ELSE w.session.pos = Len(draw.trace) + 1
        /\ \A k \in 1 .. Len(draw.trace) :
              s.pos < k /\ Enters(draw, k) /\ (k < w.session.pos \/ (~w.over /\ k = w.session.pos))
              => PassesBy(draw, command, s, k)}

LEMMA CommandIterates ==
    ASSUME NEW draw, IsDraw(draw), NEW command, NEW s, SessionRight(draw, s),
           NEW w \in StepLoops(draw, command, s)
    PROVE  LET v == StepIteration(command, s, w) IN
           v \in StepLoops(draw, command, s)
           /\ (v.over \/ w.session.pos < v.session.pos)
<1> DEFINE N == Len(draw.trace)
           R == [session : Sessions, ok : BOOLEAN, over : BOOLEAN]
           step == do_step(w.session)
           t == step.session
<1>1. /\ w \in R /\ SessionRight(draw, w.session) /\ w.session.breakpoints = s.breakpoints
      /\ s.pos <= w.session.pos
  BY DEF StepLoops
<1>2. /\ step.ok \in BOOLEAN /\ SessionRight(draw, t) /\ t.breakpoints = w.session.breakpoints
      /\ IF step.ok THEN w.session.pos < t.pos /\ t.pos <= N /\ Enters(draw, t.pos)
         ELSE t.pos = N + 1
      /\ \A k \in 1 .. N : w.session.pos < k /\ k < t.pos => ~Enters(draw, k)
  <2>1. Stepped(draw, w.session, step)
    BY <1>1, Steps
  <2> QED BY <2>1 DEF Stepped
<1>3. /\ N \in Nat /\ w.session.pos \in Nat /\ w.session.pos <= N + 1 /\ s.pos \in Nat
      /\ s.pos <= N + 1 /\ t.pos \in Nat /\ t.pos <= N + 1 /\ t \in Sessions /\ t.draw = draw
  BY <1>1, <1>2, SessionsAre, TracesAre
<1>4. CASE w.over
  BY <1>4 DEF StepIteration, AfterStep
<1>5. CASE ~w.over
  <2> DEFINE v == [session |-> t, ok |-> step.ok, over |-> ~step.ok \/ Stops(command, t, s)]
  <2>1. StepIteration(command, s, w) = v
    BY <1>5 DEF StepIteration, AfterStep
  <2>2. /\ v \in R /\ v.session = t /\ v.ok = step.ok /\ (v.over <=> ~step.ok \/ Stops(command, t, s))
    <3> HIDE DEF t, step
    <3> QED BY <1>2, <1>3
  <2>3. ASSUME NEW k \in 1 .. N, s.pos < k, Enters(draw, k), k <= w.session.pos
        PROVE  PassesBy(draw, command, s, k)
    <3>1. k < w.session.pos \/ k = w.session.pos
      BY <1>3, <2>3
    <3>2. \A l \in 1 .. N :
             s.pos < l /\ Enters(draw, l) /\ (l < w.session.pos \/ (~w.over /\ l = w.session.pos))
             => PassesBy(draw, command, s, l)
      BY DEF StepLoops
    <3> QED BY <1>5, <2>3, <3>1, <3>2
  <2> HIDE DEF v, step, t
  <2>4. ASSUME step.ok, ~Stops(command, t, s) PROVE PassesBy(draw, command, s, t.pos)
    <3>1. t.pos \in 1 .. N /\ t.pos # 0
      BY <1>2, <1>3, <2>4
    <3>2. Loc(t) = draw.trace[t.pos].loc
      <4>1. Loc(t) = TraceLoc(draw, t.pos)
        BY <1>2, <2>4, LinesAre
      <4> QED BY <3>1, <4>1 DEF TraceLoc
    <3>3. RenderDocBreakpoint(draw, draw.trace[t.pos].loc) \notin s.breakpoints
      BY <1>1, <1>2, <1>3, <2>4, <3>2 DEF Stops, AtBreakpoint
    <3>4. command # "step_into"
      BY <2>4 DEF Stops
    <3>5. command = "step_over" => ~(Depth(draw, t.pos) <= s.callstackSize)
      BY <1>3, <2>4 DEF Stops
    <3>6. Depth(draw, t.pos) \in Nat /\ s.callstackSize \in Nat
      BY <3>1, TracesAre, SessionsAre
    <3> QED BY <3>3, <3>4, <3>5, <3>6 DEF PassesBy
  <2>5. ASSUME NEW k \in 1 .. N, s.pos < k, Enters(draw, k),
               k < v.session.pos \/ (~v.over /\ k = v.session.pos)
        PROVE  PassesBy(draw, command, s, k)
    <3>1. CASE k <= w.session.pos
      BY <2>3, <2>5, <3>1
    <3>2. CASE ~(k <= w.session.pos)
      <4>1. w.session.pos < k
        BY <1>3, <3>2
      <4>2. ~(k < t.pos)
        BY <1>2, <2>5, <4>1
      <4>3. k = t.pos /\ ~v.over
        BY <2>2, <2>5, <4>2
      <4> QED BY <2>2, <2>4, <4>3
    <3> QED BY <3>1, <3>2
  <2>6. s.pos <= t.pos /\ (step.ok => s.pos < t.pos)
    BY <1>1, <1>2, <1>3
  <2>7. v \in StepLoops(draw, command, s)
    BY <1>1, <1>2, <2>2, <2>5, <2>6 DEF StepLoops, R
  <2>8. v.over \/ w.session.pos < v.session.pos
    BY <1>2, <2>2
  <2> QED BY <2>1, <2>7, <2>8
<1> QED BY <1>4, <1>5

\* What a command does with the session of a draw call.
Commanded(draw, command, s, r) ==
    /\ r.ok \in BOOLEAN /\ SessionRight(draw, r.session) /\ r.session.breakpoints = s.breakpoints
    /\ s.pos <= r.session.pos
    /\ r.ok => /\ s.pos < r.session.pos /\ r.session.pos <= Len(draw.trace)
               /\ Enters(draw, r.session.pos) /\ Stops(command, r.session, s)
    /\ ~r.ok => \/ r.session.pos = Len(draw.trace) + 1
                \/ command = "resume" /\ s.breakpoints = {} /\ r.session = s
    /\ \A k \in 1 .. Len(draw.trace) :
          s.pos < k /\ k < r.session.pos /\ Enters(draw, k) => PassesBy(draw, command, s, k)

LEMMA StepsUntilSteps ==
    ASSUME NEW draw, IsDraw(draw), NEW command, NEW s, SessionRight(draw, s)
    PROVE  Commanded(draw, command, s, StepsUntil(command, s))
<1> DEFINE N == Iterations(s)
           S == StepLoops(draw, command, s)
           base == [session |-> s, ok |-> FALSE, over |-> FALSE]
           eq(f) == f = [n \in 0 .. N |-> IF n = 0 THEN base ELSE StepIteration(command, s, f[n - 1])]
           after == CHOOSE f : eq(f)
           end == after[N]
<1>1. /\ s \in Sessions /\ s.draw = draw /\ s.pos \in Nat /\ s.pos <= Len(draw.trace) + 1
      /\ Len(draw.trace) \in Nat /\ N = Len(draw.trace) + 1 /\ N \in Nat
  BY SessionsAre, TracesAre DEF Iterations
<1>2. base \in S
  <2>1. \A k \in 1 .. Len(draw.trace) : s.pos < k => ~(k < s.pos) /\ k # s.pos
    BY <1>1
  <2> QED BY <1>1, <2>1 DEF StepLoops
<1> DEFINE step == [w \in S |-> StepIteration(command, s, w)]
<1> HIDE DEF base, S, N
<1>3. \A w \in S : /\ StepIteration(command, s, w) \in S
                   /\ \/ StepIteration(command, s, w).over
                      \/ w.session.pos < StepIteration(command, s, w).session.pos
  BY CommandIterates DEF S
<1>4. \E f : eq(f)
  <2>1. step \in [S -> S]
    BY <1>3
  <2> HIDE DEF step
  <2>2. PICK f : Iterated(f, S, base, N, step)
    <3>1. N \in Nat
      BY <1>1
    <3> QED BY <1>2, <2>1, <3>1, Iterating
  <2>3. ASSUME NEW n \in 0 .. N, n # 0 PROVE step[f[n - 1]] = StepIteration(command, s, f[n - 1])
    <3>1. n - 1 \in 0 .. N
      BY <1>1, <2>3
    <3>2. f[n - 1] \in S
      BY <2>2, <3>1 DEF Iterated
    <3> QED BY <3>2 DEF step
  <2>4. [n \in 0 .. N |-> IF n = 0 THEN base ELSE step[f[n - 1]]]
        = [n \in 0 .. N |-> IF n = 0 THEN base ELSE StepIteration(command, s, f[n - 1])]
    BY <2>3
  <2>5. eq(f)
    BY <2>2, <2>4 DEF Iterated
  <2> QED BY <2>5
<1>5. eq(after)
  <2> HIDE DEF eq
  <2> QED BY <1>4
<1>6. StepsUntil(command, s) = Done(end.session, end.ok)
  BY DEF StepsUntil, Outcome, base, N
<1> HIDE DEF after
<1>7. after[0] = base /\ \A n \in 1 .. N : after[n] = StepIteration(command, s, after[n - 1])
  <2>1. 0 \in 0 .. N /\ \A n \in 1 .. N : n \in 0 .. N /\ n # 0
    BY <1>1
  <2> QED BY <1>5, <2>1
<1> HIDE DEF eq
<1>8. \A w \in S : w.session.pos \in Nat /\ w.session.pos <= N
  <2>1. SUFFICES ASSUME NEW w \in S PROVE w.session.pos \in Nat /\ w.session.pos <= N
    OBVIOUS
  <2>2. SessionRight(draw, w.session)
    BY DEF S, StepLoops
  <2> QED BY <1>1, <2>2, SessionsAre
<1> DEFINE T == {n \in 0 .. N : after[n] \in S
                                /\ (after[n].over \/ after[n].session.pos >= s.pos + n)}
<1>9. 0 \in T
  <2>1. base.session = s /\ 0 \in 0 .. N /\ s.pos >= s.pos + 0
    BY <1>1 DEF base
  <2> QED BY <1>2, <1>7, <2>1
<1>10. ASSUME NEW n \in 1 .. N, n - 1 \in T PROVE n \in T
  <2>1. after[n] = StepIteration(command, s, after[n - 1]) /\ after[n - 1] \in S
    BY <1>7, <1>10
  <2>2. after[n] \in S /\ (after[n].over \/ after[n - 1].session.pos < after[n].session.pos)
    BY <1>3, <2>1
  <2>3. after[n - 1].over => after[n].over
    BY <2>1 DEF StepIteration, AfterStep
  <2>4. after[n - 1].over \/ after[n - 1].session.pos >= s.pos + (n - 1)
    BY <1>10
  <2>5. after[n - 1].session.pos \in Nat /\ after[n].session.pos \in Nat
    BY <1>8, <2>1, <2>2
  <2>6. after[n].over \/ after[n].session.pos >= s.pos + n
    BY <1>1, <2>2, <2>3, <2>4, <2>5
  <2> QED BY <2>2, <2>6
<1>11. N \in T
  <2>1. \A n \in 0 .. N : n \in T
    <3> HIDE DEF T
    <3> QED BY <1>1, <1>9, <1>10, Counting
  <2> HIDE DEF T
  <2> QED BY <1>1, <2>1
<1>12. end \in S /\ (end.over \/ end.session.pos >= s.pos + N)
  BY <1>11
<1> HIDE DEF end, T
<1>13. end.over
  <2>1. SUFFICES ASSUME ~end.over PROVE FALSE
    OBVIOUS
  <2>2. end.session.pos >= s.pos + N /\ end.session.pos \in Nat /\ end.session.pos <= N
    BY <1>8, <1>12, <2>1
  <2>3. end.session.pos <= Len(draw.trace) \/ end.session.pos = s.pos
    BY <1>12, <2>1 DEF S, StepLoops
  <2> QED BY <1>1, <2>2, <2>3
<1>14. /\ end.ok \in BOOLEAN /\ SessionRight(draw, end.session)
       /\ end.session.breakpoints = s.breakpoints /\ s.pos <= end.session.pos
       /\ IF end.ok THEN /\ s.pos < end.session.pos /\ end.session.pos <= Len(draw.trace)
                         /\ Enters(draw, end.session.pos) /\ Stops(command, end.session, s)
          ELSE end.session.pos = Len(draw.trace) + 1
       /\ \A k \in 1 .. Len(draw.trace) :
             s.pos < k /\ Enters(draw, k) /\ k < end.session.pos => PassesBy(draw, command, s, k)
  <2> DEFINE w == end
  <2> HIDE DEF w
  <2>1. w \in StepLoops(draw, command, s) /\ w.over
    BY <1>12, <1>13 DEF S, w
  <2>2. /\ w.ok \in BOOLEAN /\ SessionRight(draw, w.session)
        /\ w.session.breakpoints = s.breakpoints /\ s.pos <= w.session.pos
        /\ IF w.ok THEN /\ s.pos < w.session.pos /\ w.session.pos <= Len(draw.trace)
                        /\ Enters(draw, w.session.pos) /\ Stops(command, w.session, s)
           ELSE w.session.pos = Len(draw.trace) + 1
    BY <2>1 DEF StepLoops
  <2>3. \A k \in 1 .. Len(draw.trace) :
             s.pos < k /\ Enters(draw, k) /\ (k < w.session.pos \/ (~w.over /\ k = w.session.pos))
             => PassesBy(draw, command, s, k)
    BY <2>1 DEF StepLoops
  <2> QED BY <2>2, <2>3 DEF w
<1> QED BY <1>6, <1>14 DEF Commanded, Done

LEMMA DrawCallCommanded ==
    ASSUME NEW draw, IsDraw(draw), NEW command, NEW s, SessionRight(draw, s), s # NoTrace
    PROVE  Commanded(draw, command, s, DrawCall(command, s))
<1>1. /\ s.draw = draw /\ s.pos \in Nat /\ s.pos <= Len(draw.trace) + 1 /\ Len(draw.trace) \in Nat
  BY SessionsAre, TracesAre
<1> DEFINE stays == \/ command = "resume" /\ s.breakpoints = {}
                    \/ command = "step_out" /\ ~can_perform_step(s)
<1>2. CASE stays
  <2>1. DrawCall(command, s) = Done(s, FALSE)
    BY <1>2 DEF DrawCall
  <2>2. s.pos = Len(draw.trace) + 1 \/ (command = "resume" /\ s.breakpoints = {})
    <3>1. ~can_perform_step(s) => s.pos = Len(draw.trace) + 1
      BY <1>1 DEF can_perform_step
    <3> QED BY <1>2, <3>1
  <2>3. s.pos <= s.pos /\ \A k \in 1 .. Len(draw.trace) : ~(s.pos < k /\ k < s.pos)
    BY <1>1
  <2> QED BY <2>1, <2>2, <2>3 DEF Commanded, Done
<1>3. CASE ~stays
  <2>1. DrawCall(command, s) = StepsUntil(command, s)
    BY <1>3 DEF DrawCall
  <2> QED BY <2>1, StepsUntilSteps
<1> QED BY <1>2, <1>3


-----------------------------------------------------------------------------
(* Sessions of the draw calls of a frame.                                  *)

LEMMA MappedAre ==
    ASSUME NEW draw, IsDraw(draw), NEW sources, sources \subseteq SourceBreakpoints
    PROVE  map_breakpoints_from_sources(draw, sources) \subseteq Int \X Int
<1>1. SUFFICES ASSUME NEW b \in sources, NEW k \in map_source_line(draw.text, b.path, b.line)
               PROVE  k \in Int
  BY DEF map_breakpoints_from_sources
<1>2. PICK sec \in Found(draw.text, b.path, b.line) : k = sec + b.line - draw.text[sec].line + 1
  BY <1>1 DEF map_source_line
<1>3. sec \in Sections(draw.text)
  BY <1>2 DEF Found, Usages
<1>4. draw.text \in Seq(Lines(STRING))
  BY TracesAre
<1>5. sec \in Nat /\ draw.text[sec].line \in Nat
  BY <1>3, <1>4, SectionNumbers
<1>6. b.line \in Nat
  BY SessionsAssumption
<1> QED BY <1>2, <1>5, <1>6

LEMMA SessionStarts ==
    ASSUME NEW draw, IsDraw(draw), NEW breakpoints, breakpoints \subseteq Int \X Int
    PROVE  LET s == [NewSession(draw) EXCEPT !.breakpoints = breakpoints] IN
           SessionRight(draw, s) /\ s.breakpoints = breakpoints /\ s.pos = 0
<1> DEFINE s == [NewSession(draw) EXCEPT !.breakpoints = breakpoints]
<1>1. s = [draw |-> draw, pos |-> 0, calltrace |-> <<>>, callstackSize |-> 0,
           breakpoints |-> breakpoints]
  BY DEF NewSession
<1>2. draw \in Draws /\ <<>> \in Seq(CallEntries) /\ breakpoints \in SUBSET (Int \X Int) /\ 0 \in Nat
  BY DEF IsDraw
<1>3. s \in Sessions
  <2> HIDE DEF s
  <2> QED BY <1>1, <1>2 DEF Sessions, CallEntries
<1>4. Len(draw.trace) \in Nat /\ 0 \in 0 .. Len(draw.trace) + 1 /\ 0 \notin DOMAIN draw.trace
  BY TracesAre
<1> HIDE DEF s
<1>5. s.draw = draw /\ s.pos = 0 /\ s.calltrace = <<>> /\ s.callstackSize = 0 /\ s.breakpoints = breakpoints
  BY <1>1
<1> QED BY <1>3, <1>4, <1>5 DEF SessionRight, s

LEMMA SessionsAreTraces ==
    ASSUME NEW draw, NEW s, SessionRight(draw, s)
    PROVE  s # NoTrace
BY SessionsAssumption DEF SessionRight

LEMMA FramesAre ==
    ASSUME debugFrame \in DebugFrames
    PROVE  Len(debugFrame) \in Nat /\ DOMAIN debugFrame = 1 .. Len(debugFrame)
<1>1. debugFrame \in Seq(Draws \cup {NoTrace})
  BY SessionsAssumption
<1> QED BY <1>1

\* The breakpoints of draw call d when lines are those of draw call a.
Breakpoints(d, a, lines) ==
    map_breakpoints_from_sources(debugFrame[d], sourceBreakpoints)
    \cup (IF d = a THEN lines ELSE {})

SessionAt(d, s, a, lines) ==
    IF s = NoTrace THEN debugFrame[d] = NoTrace
    ELSE /\ debugFrame[d] # NoTrace /\ SessionRight(debugFrame[d], s)
         /\ s.breakpoints = Breakpoints(d, a, lines)

Hits(d, k, a, lines) ==
    RenderDocBreakpoint(debugFrame[d], debugFrame[d].trace[k].loc) \in Breakpoints(d, a, lines)

LEMMA StartsDebug ==
    ASSUME debugFrame \in DebugFrames, sourceBreakpoints \subseteq SourceBreakpoints,
           NEW d \in DOMAIN debugFrame
    PROVE  /\ IF debugFrame[d] = NoTrace THEN StartDebug(d) = NoTrace
              ELSE /\ StartDebug(d) # NoTrace /\ SessionRight(debugFrame[d], StartDebug(d))
                   /\ StartDebug(d).breakpoints =
                        map_breakpoints_from_sources(debugFrame[d], sourceBreakpoints)
           /\ Pos(StartDebug(d)) = 0
           /\ StartDebug(d) \in Sessions \cup {NoTrace}
<1>1. CASE debugFrame[d] = NoTrace
  BY <1>1 DEF StartDebug, Pos
<1>2. CASE debugFrame[d] # NoTrace
  <2>1. IsDraw(debugFrame[d])
    BY <1>2, DrawsAre
  <2> DEFINE mapped == map_breakpoints_from_sources(debugFrame[d], sourceBreakpoints)
             s == [NewSession(debugFrame[d]) EXCEPT !.breakpoints = mapped]
  <2>2. mapped \subseteq Int \X Int
    BY <2>1, MappedAre
  <2>3. StartDebug(d) = s
    BY <1>2 DEF StartDebug
  <2>4. SessionRight(debugFrame[d], s) /\ s.breakpoints = mapped /\ s.pos = 0
    <3> HIDE DEF mapped
    <3> QED BY <2>1, <2>2, SessionStarts
  <2> HIDE DEF s, mapped
  <2>5. s # NoTrace /\ s \in Sessions
    BY <2>4, SessionsAreTraces DEF SessionRight
  <2> QED BY <1>2, <2>3, <2>4, <2>5 DEF Pos, mapped
<1> QED BY <1>1, <1>2

-----------------------------------------------------------------------------
(* The loop of resume through the draw calls.                              *)

\* Resumed in session s of draw call a, with the breakpoints in lines of its text.
ResumeLoops(a, s, lines) ==
    {w \in [at : [action : 0 .. Len(debugFrame), session : Sessions \cup {NoTrace}, ok : BOOLEAN],
            over : BOOLEAN] :
        /\ w.at.action # 0 => a <= w.at.action /\ SessionAt(w.at.action, w.at.session, a, lines)
        /\ ~w.over => /\ w.at.action # 0
                      /\ Pos(w.at.session) = IF w.at.action = a THEN Pos(s) ELSE 0
        /\ w.over => IF w.at.ok
                     THEN /\ w.at.action # 0 /\ w.at.session # NoTrace
                          /\ w.at.session.pos \in DOMAIN debugFrame[w.at.action].trace
                          /\ Enters(debugFrame[w.at.action], w.at.session.pos)
                          /\ Hits(w.at.action, w.at.session.pos, a, lines)
                     ELSE w.at.action = 0 /\ w.at.session = NoTrace
        /\ \A d \in DOMAIN debugFrame : debugFrame[d] # NoTrace =>
              \A k \in DOMAIN debugFrame[d].trace :
                 /\ Enters(debugFrame[d], k)
                 /\ IF d = a THEN Pos(s) < k ELSE a < d
                 /\ \/ w.at.action = 0 \/ d < w.at.action
                    \/ w.over /\ d = w.at.action /\ k < Pos(w.at.session)
                 => ~Hits(d, k, a, lines)}

LEMMA ResumeIterates ==
    ASSUME debugFrame \in DebugFrames, sourceBreakpoints \subseteq SourceBreakpoints,
           NEW a \in DOMAIN debugFrame, NEW lines, NEW s, NEW w \in ResumeLoops(a, s, lines)
    PROVE  /\ ResumeIteration(w) \in ResumeLoops(a, s, lines)
           /\ ResumeIteration(w).over \/ ResumeIteration(w).at.action = w.at.action + 1
<1> DEFINE N == Len(debugFrame)
           A == [action : 0 .. Len(debugFrame), session : Sessions \cup {NoTrace}, ok : BOOLEAN]
           R == [at : A, over : BOOLEAN]
           c == w.at.action
           sess == w.at.session
           resumed == DrawCall("resume", sess)
           next == step_to_next_draw_call(c)
           v == ResumeIteration(w)
           to == v.at
           begun(d, k) == Enters(debugFrame[d], k) /\ IF d = a THEN Pos(s) < k ELSE a < d
<1>1. N \in Nat /\ DOMAIN debugFrame = 1 .. N /\ a \in 1 .. N
  BY FramesAre
<1>2. w \in R /\ c \in 0 .. N
  BY DEF ResumeLoops
<1>3. \A d \in DOMAIN debugFrame : debugFrame[d] # NoTrace =>
              \A k \in DOMAIN debugFrame[d].trace :
                 /\ begun(d, k)
                 /\ \/ c = 0 \/ d < c
                    \/ w.over /\ d = c /\ k < Pos(sess)
                 => ~Hits(d, k, a, lines)
  BY DEF ResumeLoops
<1>4. CASE w.over
  BY <1>4 DEF ResumeIteration
<1>5. CASE ~w.over
  <2>1. /\ c # 0 /\ c \in DOMAIN debugFrame /\ a <= c /\ SessionAt(c, sess, a, lines)
        /\ Pos(sess) = IF c = a THEN Pos(s) ELSE 0
    BY <1>1, <1>2, <1>5 DEF ResumeLoops
  <2>2. v = IF resumed.ok THEN [at |-> At(c, resumed), over |-> TRUE]
            ELSE [at |-> next, over |-> ~next.ok]
    BY <1>5 DEF ResumeIteration
  <2>3. CASE sess # NoTrace /\ resumed.ok
    <3> DEFINE t == resumed.session
               draw == debugFrame[c]
    <3>1. IsDraw(draw) /\ SessionRight(draw, sess) /\ sess.breakpoints = Breakpoints(c, a, lines)
          /\ draw # NoTrace
      BY <2>1, <2>3, DrawsAre DEF SessionAt
    <3>2. Commanded(draw, "resume", sess, resumed)
      BY <2>3, <3>1, DrawCallCommanded
    <3> HIDE DEF resumed
    <3>3. /\ SessionRight(draw, t) /\ t.breakpoints = sess.breakpoints
          /\ sess.pos < t.pos /\ t.pos <= Len(draw.trace)
          /\ Enters(draw, t.pos) /\ Stops("resume", t, sess)
          /\ \A k \in 1 .. Len(draw.trace) :
                sess.pos < k /\ k < t.pos /\ Enters(draw, k) => PassesBy(draw, "resume", sess, k)
      BY <2>3, <3>2 DEF Commanded
    <3>4. /\ t # NoTrace /\ t \in Sessions /\ t.draw = draw /\ t.pos \in Nat /\ sess.pos \in Nat
          /\ Pos(t) = t.pos /\ Pos(sess) = sess.pos
      BY <2>3, <3>1, <3>3, SessionsAre, SessionsAreTraces DEF Pos
    <3>5. DOMAIN draw.trace = 1 .. Len(draw.trace) /\ Len(draw.trace) \in Nat
          /\ t.pos \in DOMAIN draw.trace /\ t.pos # 0
      BY <3>1, <3>3, <3>4, TracesAre
    <3>6. Hits(c, t.pos, a, lines)
      <4>1. AtBreakpoint(t)
        BY <3>3 DEF Stops
      <4>2. Loc(t) = draw.trace[t.pos].loc
        <5>1. Loc(t) = TraceLoc(draw, t.pos)
          BY <3>1, <3>3, LinesAre
        <5> QED BY <3>5, <5>1 DEF TraceLoc
      <4> QED BY <3>1, <3>3, <3>4, <4>1, <4>2 DEF AtBreakpoint, Hits
    <3>7. v = [at |-> [action |-> c, session |-> t, ok |-> TRUE], over |-> TRUE]
      <4>1. resumed.ok = TRUE
        BY <2>3, <3>2 DEF Commanded
      <4> QED BY <2>2, <4>1 DEF At
    <3> HIDE DEF v, t
    <3>8. /\ v \in R /\ v.at.action = c /\ v.at.session = t /\ v.at.ok /\ v.over
      BY <1>2, <3>4, <3>7
    <3>9. SessionAt(c, t, a, lines)
      BY <3>1, <3>3, <3>4 DEF SessionAt
    <3>10. ASSUME NEW d \in DOMAIN debugFrame, debugFrame[d] # NoTrace,
                  NEW k \in DOMAIN debugFrame[d].trace, begun(d, k),
                  d < c \/ (d = c /\ k < t.pos)
           PROVE  ~Hits(d, k, a, lines)
      <4>1. CASE d < c
        BY <1>3, <3>10, <4>1
      <4>2. CASE d = c /\ k < t.pos
        <5>1. k \in 1 .. Len(draw.trace) /\ k \in Nat
          BY <3>5, <4>2
        <5>2. sess.pos < k
          BY <2>1, <3>4, <3>10, <4>2, <5>1
        <5>3. PassesBy(draw, "resume", sess, k)
          BY <3>3, <3>10, <4>2, <5>1, <5>2
        <5> QED BY <3>1, <4>2, <5>3 DEF PassesBy, Hits
      <4> QED BY <3>10, <4>1, <4>2
    <3> HIDE DEF R, A
    <3>11. v \in ResumeLoops(a, s, lines)
      <4>1. v \in [at : [action : 0 .. Len(debugFrame), session : Sessions \cup {NoTrace}, ok : BOOLEAN],
                   over : BOOLEAN]
        BY <3>8 DEF R, A
      <4>2. v.at.action # 0 => a <= v.at.action /\ SessionAt(v.at.action, v.at.session, a, lines)
        BY <2>1, <3>8, <3>9
      <4>3. /\ v.at.action # 0 /\ v.at.session # NoTrace
            /\ v.at.session.pos \in DOMAIN debugFrame[v.at.action].trace
            /\ Enters(debugFrame[v.at.action], v.at.session.pos)
            /\ Hits(v.at.action, v.at.session.pos, a, lines)
        BY <2>1, <3>3, <3>4, <3>5, <3>6, <3>8
      <4>4. \A d \in DOMAIN debugFrame : debugFrame[d] # NoTrace =>
              \A k \in DOMAIN debugFrame[d].trace :
                 /\ Enters(debugFrame[d], k)
                 /\ IF d = a THEN Pos(s) < k ELSE a < d
                 /\ \/ v.at.action = 0 \/ d < v.at.action
                    \/ v.over /\ d = v.at.action /\ k < Pos(v.at.session)
                 => ~Hits(d, k, a, lines)
        BY <2>1, <3>4, <3>8, <3>10
      <4> QED BY <3>8, <4>1, <4>2, <4>3, <4>4 DEF ResumeLoops
    <3> QED BY <3>8, <3>11 DEF v
  <2>4. CASE sess = NoTrace \/ ~resumed.ok
    <3>1. ~resumed.ok
      BY <2>4 DEF DrawCall, Done
    <3>2. v = [at |-> next, over |-> ~next.ok]
      BY <2>2, <3>1
    <3>3. ASSUME NEW k \in DOMAIN debugFrame[c].trace, debugFrame[c] # NoTrace, begun(c, k)
          PROVE  ~Hits(c, k, a, lines)
      <4> DEFINE draw == debugFrame[c]
      <4>1. /\ sess # NoTrace /\ IsDraw(draw) /\ SessionRight(draw, sess)
            /\ sess.breakpoints = Breakpoints(c, a, lines)
        BY <2>1, <3>3, DrawsAre DEF SessionAt
      <4>2. Commanded(draw, "resume", sess, resumed)
        BY <4>1, DrawCallCommanded
      <4>3. /\ resumed.session.pos = Len(draw.trace) + 1 \/ sess.breakpoints = {}
            /\ \A l \in 1 .. Len(draw.trace) :
                  sess.pos < l /\ l < resumed.session.pos /\ Enters(draw, l)
                  => PassesBy(draw, "resume", sess, l)
        BY <3>1, <4>2 DEF Commanded
      <4>4. /\ k \in 1 .. Len(draw.trace) /\ Len(draw.trace) \in Nat /\ k < Len(draw.trace) + 1
            /\ sess.pos \in Nat /\ Pos(sess) = sess.pos
        BY <4>1, TracesAre, SessionsAre DEF Pos
      <4>5. sess.pos < k
        BY <2>1, <3>3, <4>4
      <4>6. CASE sess.breakpoints = {}
        BY <4>1, <4>6 DEF Hits
      <4>7. CASE resumed.session.pos = Len(draw.trace) + 1
        <5>1. PassesBy(draw, "resume", sess, k)
          BY <3>3, <4>3, <4>4, <4>5, <4>7
        <5> QED BY <4>1, <5>1 DEF PassesBy, Hits
      <4> QED BY <4>3, <4>6, <4>7
    <3>4. CASE c = N
      <4>1. next = [action |-> 0, session |-> NoTrace, ok |-> FALSE]
        BY <3>4 DEF step_to_next_draw_call, At, Done
      <4>2. v = [at |-> [action |-> 0, session |-> NoTrace, ok |-> FALSE], over |-> TRUE]
        <5>1. next.ok = FALSE
          BY <4>1
        <5>2. v = [at |-> next, over |-> TRUE]
          BY <3>2, <5>1
        <5> QED BY <4>1, <5>2
      <4>3. /\ v \in R /\ v.at.action = 0 /\ v.at.session = NoTrace /\ v.at.ok = FALSE /\ v.over
        BY <1>1, <4>2
      <4>4. \A d \in DOMAIN debugFrame : d < c \/ d = c
        BY <1>1, <3>4
      <4>5. \A d \in DOMAIN debugFrame : debugFrame[d] # NoTrace =>
              \A k \in DOMAIN debugFrame[d].trace : begun(d, k) => ~Hits(d, k, a, lines)
        BY <1>3, <3>3, <4>4
      <4> HIDE DEF v
      <4>6. v \in ResumeLoops(a, s, lines)
        BY <4>3, <4>5 DEF ResumeLoops
      <4> QED BY <4>3, <4>6 DEF v
    <3>5. CASE c # N
      <4> DEFINE t == StartDebug(c + 1)
      <4>1. c + 1 \in DOMAIN debugFrame /\ a <= c + 1 /\ c + 1 \in 0 .. N /\ c + 1 # 0 /\ c + 1 # a
        BY <1>1, <2>1, <3>5
      <4>2. next = [action |-> c + 1, session |-> t, ok |-> TRUE]
        BY <2>1, <3>5 DEF step_to_next_draw_call, At, Done
      <4>3. /\ IF debugFrame[c + 1] = NoTrace THEN t = NoTrace
               ELSE /\ t # NoTrace /\ SessionRight(debugFrame[c + 1], t)
                    /\ t.breakpoints = map_breakpoints_from_sources(debugFrame[c + 1], sourceBreakpoints)
            /\ Pos(t) = 0 /\ t \in Sessions \cup {NoTrace}
        BY <4>1, StartsDebug
      <4> HIDE DEF t
      <4>4. v = [at |-> [action |-> c + 1, session |-> t, ok |-> TRUE], over |-> FALSE]
        <5>1. next.ok = TRUE
          BY <4>2
        <5>2. v = [at |-> next, over |-> FALSE]
          BY <3>2, <5>1
        <5> QED BY <4>2, <5>2
      <4>5. /\ v \in R /\ v.at.action = c + 1 /\ v.at.session = t /\ v.over = FALSE
        BY <4>1, <4>3, <4>4
      <4>6. SessionAt(c + 1, t, a, lines)
        BY <4>1, <4>3 DEF SessionAt, Breakpoints
      <4>7. \A d \in DOMAIN debugFrame : d < c + 1 => d < c \/ d = c
        BY <1>1, <1>2
      <4>8. \A d \in DOMAIN debugFrame : debugFrame[d] # NoTrace =>
              \A k \in DOMAIN debugFrame[d].trace :
                 begun(d, k) /\ d < c + 1 => ~Hits(d, k, a, lines)
        BY <1>3, <3>3, <4>7
      <4> HIDE DEF v, R, A
      <4>9. v \in ResumeLoops(a, s, lines)
        <5>1. v \in [at : [action : 0 .. Len(debugFrame), session : Sessions \cup {NoTrace}, ok : BOOLEAN],
                     over : BOOLEAN]
          BY <4>5 DEF R, A
        <5> QED BY <4>1, <4>3, <4>5, <4>6, <4>8, <5>1 DEF ResumeLoops
      <4> QED BY <4>5, <4>9 DEF v
    <3> QED BY <3>4, <3>5
  <2> QED BY <2>3, <2>4
<1> QED BY <1>4, <1>5


\* What resume does to session s of draw call a.
Resumed(a, s, lines, to) ==
    /\ to.action \in 0 .. Len(debugFrame) /\ to.session \in Sessions \cup {NoTrace}
    /\ to.ok \in BOOLEAN
    /\ IF to.ok
       THEN /\ to.action # 0 /\ a <= to.action /\ to.session # NoTrace
            /\ SessionAt(to.action, to.session, a, lines)
            /\ to.session.pos \in DOMAIN debugFrame[to.action].trace
            /\ Enters(debugFrame[to.action], to.session.pos)
            /\ Hits(to.action, to.session.pos, a, lines)
       ELSE to.action = 0 /\ to.session = NoTrace
    /\ \A d \in DOMAIN debugFrame : debugFrame[d] # NoTrace =>
          \A k \in DOMAIN debugFrame[d].trace :
             /\ Enters(debugFrame[d], k)
             /\ IF d = a THEN Pos(s) < k ELSE a < d
             /\ \/ to.action = 0 \/ d < to.action
                \/ d = to.action /\ k < Pos(to.session)
             => ~Hits(d, k, a, lines)

LEMMA ResumeResumes ==
    ASSUME debugFrame \in DebugFrames, sourceBreakpoints \subseteq SourceBreakpoints,
           NEW a \in DOMAIN debugFrame, NEW lines,
           NEW s \in Sessions \cup {NoTrace}, SessionAt(a, s, a, lines)
    PROVE  Resumed(a, s, lines, resume_to_next_not_null_stack(a, s))
<1> DEFINE N == Len(debugFrame) + 1
           S == ResumeLoops(a, s, lines)
           base == [at |-> At(a, Done(s, FALSE)), over |-> FALSE]
           eq(f) == f = [n \in 0 .. N |-> IF n = 0 THEN base ELSE ResumeIteration(f[n - 1])]
           after == CHOOSE f : eq(f)
           end == after[N]
<1>1. /\ Len(debugFrame) \in Nat /\ N \in Nat /\ DOMAIN debugFrame = 1 .. Len(debugFrame)
      /\ a \in 1 .. Len(debugFrame)
  BY FramesAre
<1>2. base \in S /\ base.at.action = a
  <2>1. base = [at |-> [action |-> a, session |-> s, ok |-> FALSE], over |-> FALSE]
    BY DEF At, Done
  <2> HIDE DEF base
  <2>2. /\ base \in [at : [action : 0 .. Len(debugFrame), session : Sessions \cup {NoTrace}, ok : BOOLEAN],
                     over : BOOLEAN]
        /\ base.at.action = a /\ base.at.session = s /\ base.over = FALSE
    BY <1>1, <2>1
  <2>3. \A d \in DOMAIN debugFrame : ~(d < a /\ IF d = a THEN TRUE ELSE a < d)
    BY <1>1
  <2>4. a # 0 /\ a <= a
    BY <1>1
  <2>5. \A d \in DOMAIN debugFrame : debugFrame[d] # NoTrace =>
              \A k \in DOMAIN debugFrame[d].trace :
                 /\ Enters(debugFrame[d], k)
                 /\ IF d = a THEN Pos(s) < k ELSE a < d
                 /\ \/ base.at.action = 0 \/ d < base.at.action
                    \/ base.over /\ d = base.at.action /\ k < Pos(base.at.session)
                 => ~Hits(d, k, a, lines)
    BY <2>2, <2>3, <2>4
  <2> QED BY <2>2, <2>4, <2>5 DEF ResumeLoops
<1> DEFINE step == [w \in S |-> ResumeIteration(w)]
<1> HIDE DEF base, S, N
<1>3. \A w \in S : /\ ResumeIteration(w) \in S
                   /\ ResumeIteration(w).over \/ ResumeIteration(w).at.action = w.at.action + 1
  BY ResumeIterates DEF S
<1>4. \E f : eq(f)
  <2>1. step \in [S -> S]
    BY <1>3
  <2> HIDE DEF step
  <2>2. PICK f : Iterated(f, S, base, N, step)
    <3>1. N \in Nat /\ base \in S
      BY <1>1, <1>2
    <3> QED BY <2>1, <3>1, Iterating
  <2>3. ASSUME NEW n \in 0 .. N, n # 0 PROVE step[f[n - 1]] = ResumeIteration(f[n - 1])
    <3>1. n - 1 \in 0 .. N
      BY <1>1, <2>3
    <3>2. f[n - 1] \in S
      BY <2>2, <3>1 DEF Iterated
    <3> QED BY <3>2 DEF step
  <2>4. [n \in 0 .. N |-> IF n = 0 THEN base ELSE step[f[n - 1]]]
        = [n \in 0 .. N |-> IF n = 0 THEN base ELSE ResumeIteration(f[n - 1])]
    BY <2>3
  <2>5. eq(f)
    BY <2>2, <2>4 DEF Iterated
  <2> QED BY <2>5
<1>5. eq(after)
  <2> HIDE DEF eq
  <2> QED BY <1>4
<1>6. resume_to_next_not_null_stack(a, s) = end.at
  BY DEF resume_to_next_not_null_stack, base, N
<1> HIDE DEF after
<1>7. after[0] = base /\ \A n \in 1 .. N : after[n] = ResumeIteration(after[n - 1])
  <2>1. 0 \in 0 .. N /\ \A n \in 1 .. N : n \in 0 .. N /\ n # 0
    BY <1>1
  <2> QED BY <1>5, <2>1
<1> HIDE DEF eq
<1> DEFINE T == {n \in 0 .. N : after[n] \in S /\ (after[n].over \/ after[n].at.action = a + n)}
<1>8. 0 \in T
  <2>1. 0 \in 0 .. N /\ a = a + 0
    BY <1>1
  <2> QED BY <1>2, <1>7, <2>1
<1>9. ASSUME NEW n \in 1 .. N, n - 1 \in T PROVE n \in T
  <2>1. after[n] = ResumeIteration(after[n - 1]) /\ after[n - 1] \in S
    BY <1>7, <1>9
  <2>2. after[n] \in S /\ (after[n].over \/ after[n].at.action = after[n - 1].at.action + 1)
    BY <1>3, <2>1
  <2>3. after[n - 1].over => after[n].over
    BY <2>1 DEF ResumeIteration
  <2>4. after[n - 1].over \/ after[n - 1].at.action = a + (n - 1)
    BY <1>9
  <2>5. (a + (n - 1)) + 1 = a + n /\ n \in 0 .. N
    BY <1>1
  <2> QED BY <2>2, <2>3, <2>4, <2>5
<1>10. N \in T
  <2>1. \A n \in 0 .. N : n \in T
    <3> HIDE DEF T
    <3> QED BY <1>1, <1>8, <1>9, Counting
  <2> HIDE DEF T
  <2> QED BY <1>1, <2>1
<1>11. end \in S /\ (end.over \/ end.at.action = a + N)
  BY <1>10
<1> HIDE DEF end, T
<1>12. /\ end.at.action \in 0 .. Len(debugFrame) /\ end.at.session \in Sessions \cup {NoTrace}
       /\ end.at.ok \in BOOLEAN /\ end.over \in BOOLEAN
  BY <1>11 DEF S, ResumeLoops
<1>13. end.over
  BY <1>1, <1>11, <1>12 DEF N
<1>14. /\ end.at.action # 0 =>
            a <= end.at.action /\ SessionAt(end.at.action, end.at.session, a, lines)
       /\ IF end.at.ok
          THEN /\ end.at.action # 0 /\ end.at.session # NoTrace
               /\ end.at.session.pos \in DOMAIN debugFrame[end.at.action].trace
               /\ Enters(debugFrame[end.at.action], end.at.session.pos)
               /\ Hits(end.at.action, end.at.session.pos, a, lines)
          ELSE end.at.action = 0 /\ end.at.session = NoTrace
  BY <1>11, <1>13 DEF S, ResumeLoops
<1>15. \A d \in DOMAIN debugFrame : debugFrame[d] # NoTrace =>
          \A k \in DOMAIN debugFrame[d].trace :
             /\ Enters(debugFrame[d], k)
             /\ IF d = a THEN Pos(s) < k ELSE a < d
             /\ \/ end.at.action = 0 \/ d < end.at.action
                \/ end.over /\ d = end.at.action /\ k < Pos(end.at.session)
             => ~Hits(d, k, a, lines)
  BY <1>11 DEF S, ResumeLoops
<1> QED BY <1>6, <1>12, <1>13, <1>14, <1>15 DEF Resumed


-----------------------------------------------------------------------------
(* The invariant: the session is at a draw call of the frame, with the     *)
(* breakpoints of the user, and the front end has been sent it.            *)

FrameRight ==
    /\ debugFrame \in DebugFrames /\ isDrawCallDebug \in BOOLEAN
    /\ sourceBreakpoints \subseteq SourceBreakpoints
    /\ lineBreakpoints \subseteq Int \X Int

SessionIsAt ==
    /\ currentAction \in 0 .. Len(debugFrame) /\ drawCallSession \in Sessions \cup {NoTrace}
    /\ IF currentAction = 0 THEN drawCallSession = NoTrace
       ELSE SessionAt(currentAction, drawCallSession, currentAction, lineBreakpoints)
    /\ drawCallSession # NoTrace =>
          map_breakpoints_from_sources(debugFrame[currentAction], sourceBreakpoints)
          \cap lineBreakpoints = {}

ShownIs ==
    /\ shownSession \in 0 .. Len(debugFrame)
    /\ \/ /\ sessionState = NotStarted /\ currentAction = 0
          /\ isDrawCallDebug => sourceBreakpoints = {}
       \/ sessionState = Null
       \/ /\ currentAction # 0 /\ drawCallSession # NoTrace => shownSession = currentAction
          /\ currentAction # 0
          /\ \/ sessionState = Stack(currentAction, -1)
             \/ /\ drawCallSession # NoTrace
                /\ sessionState = Stack(currentAction, drawCallSession.pos)
                /\ drawCallSession.pos \in DOMAIN debugFrame[currentAction].trace
                /\ Enters(debugFrame[currentAction], drawCallSession.pos)

DebugInv == FrameRight /\ SessionIsAt /\ ShownIs

\* Where a command may take the session, and where it may stop in a draw call.
Reaches(to) ==
    /\ to.action \in 0 .. Len(debugFrame) /\ to.session \in Sessions \cup {NoTrace}
    /\ IF to.action = 0 THEN to.session = NoTrace
       ELSE SessionAt(to.action, to.session, currentAction, lineBreakpoints)

Stands(to) ==
    /\ to.action # 0 /\ to.session # NoTrace
    /\ to.session.pos \in DOMAIN debugFrame[to.action].trace
    /\ Enters(debugFrame[to.action], to.session.pos)

LEMMA StatesAre ==
    ASSUME NEW d, NEW k
    PROVE  /\ Stack(d, k).state = "stack" /\ Stack(d, k).drawCallId = d /\ Stack(d, k).stepIndex = k
           /\ Null.state = "null" /\ NotStarted.state = "not started" /\ Stack(d, k) # Null
BY DEF Stack, Null, NotStarted

LEMMA Updates ==
    ASSUME DebugInv, NEW to, NEW stack, Reaches(to), update_session_state(to, stack),
           \/ stack = Null
           \/ to.action # 0 /\ stack = Stack(to.action, -1)
           \/ Stands(to) /\ stack = Stack(to.action, to.session.pos)
    PROVE  DebugInv'
<1>1. /\ currentAction' = to.action /\ drawCallSession' = to.session /\ sessionState' = stack
      /\ lineBreakpoints' = IF to.action = currentAction THEN lineBreakpoints ELSE {}
      /\ debugFrame' = debugFrame /\ isDrawCallDebug' = isDrawCallDebug
      /\ sourceBreakpoints' = sourceBreakpoints
      /\ shownSession' = IF ~SendsDrawCall(stack) THEN shownSession
                         ELSE IF to.session = NoTrace THEN 0
                         ELSE to.action
  BY DEF update_session_state
<1>2. FrameRight'
  BY <1>1 DEF DebugInv, FrameRight
<1>3. /\ to.action # 0 => IF to.session = NoTrace THEN debugFrame[to.action] = NoTrace
                          ELSE debugFrame[to.action] # NoTrace
      /\ to.session # NoTrace => to.action # 0
      /\ drawCallSession = NoTrace /\ currentAction # 0 => debugFrame[currentAction] = NoTrace
  BY DEF Reaches, SessionAt, DebugInv, SessionIsAt
<1>4. SessionIsAt'
  <2>1. /\ currentAction' \in 0 .. Len(debugFrame') /\ drawCallSession' \in Sessions \cup {NoTrace}
    BY <1>1 DEF Reaches
  <2>2. IF currentAction' = 0 THEN drawCallSession' = NoTrace
        ELSE SessionAt(currentAction, drawCallSession, currentAction, lineBreakpoints)'
    <3>1. CASE to.action = 0
      BY <1>1, <3>1 DEF Reaches
    <3>2. CASE to.action # 0
      <4>1. SessionAt(to.action, to.session, currentAction, lineBreakpoints)
        BY <3>2 DEF Reaches
      <4>2. Breakpoints(to.action, currentAction, lineBreakpoints)
            = Breakpoints(currentAction, currentAction, lineBreakpoints)'
        BY <1>1 DEF Breakpoints
      <4> QED BY <1>1, <3>2, <4>1, <4>2 DEF SessionAt
    <3> QED BY <3>1, <3>2
  <2>3. drawCallSession' # NoTrace =>
            map_breakpoints_from_sources(debugFrame'[currentAction'], sourceBreakpoints')
            \cap lineBreakpoints' = {}
    <3>1. CASE to.action = currentAction /\ drawCallSession # NoTrace
      BY <1>1, <3>1 DEF DebugInv, SessionIsAt
    <3>2. CASE to.action = currentAction /\ drawCallSession = NoTrace
      BY <1>1, <1>3, <3>2
    <3>3. CASE to.action # currentAction
      BY <1>1, <3>3
    <3> QED BY <3>1, <3>2, <3>3
  <2> QED BY <2>1, <2>2, <2>3 DEF SessionIsAt
<1>5. shownSession' \in 0 .. Len(debugFrame')
  <2>1. 0 \in 0 .. Len(debugFrame)
    BY FramesAre DEF DebugInv, FrameRight
  <2> QED BY <1>1, <2>1 DEF DebugInv, ShownIs, Reaches
<1>6. CASE stack = Null
  BY <1>1, <1>2, <1>4, <1>5, <1>6 DEF DebugInv, ShownIs
<1>7. CASE stack # Null
  <2>1. /\ to.action # 0 /\ stack.drawCallId = to.action /\ stack.state = "stack"
        /\ \/ stack = Stack(to.action, -1)
           \/ Stands(to) /\ stack = Stack(to.action, to.session.pos)
    <3>1. CASE to.action # 0 /\ stack = Stack(to.action, -1)
      BY <3>1 DEF Stack
    <3>2. CASE Stands(to) /\ stack = Stack(to.action, to.session.pos)
      <4>1. to.action # 0
        BY <3>2 DEF Stands
      <4> QED BY <3>2, <4>1 DEF Stack
    <3> QED BY <1>7, <3>1, <3>2
  <2>2. to.session # NoTrace => shownSession' = to.action
    <3>1. CASE SendsDrawCall(stack)
      BY <1>1, <3>1
    <3>2. CASE ~SendsDrawCall(stack)
      <4>1. Debugging /\ sessionState.drawCallId = to.action
        BY <1>7, <2>1, <3>2 DEF SendsDrawCall
      <4>2. sessionState # NotStarted /\ sessionState # Null
        BY <4>1, StatesAre DEF Debugging
      <4>3. to.action = currentAction /\ (drawCallSession # NoTrace => shownSession = currentAction)
        <5>1. /\ currentAction # 0 /\ drawCallSession # NoTrace => shownSession = currentAction
              /\ \E k : sessionState = Stack(currentAction, k)
          BY <4>2 DEF DebugInv, ShownIs
        <5>2. sessionState.drawCallId = currentAction
          BY <5>1 DEF Stack
        <5> QED BY <2>1, <4>1, <5>1, <5>2
      <4> QED BY <1>1, <1>3, <2>1, <3>2, <4>3
    <3> QED BY <3>1, <3>2
  <2>3. ShownIs'
    <3>1. CASE stack = Stack(to.action, -1)
      <4>1. sessionState' = Stack(currentAction, -1)'
        BY <1>1, <3>1 DEF Stack
      <4> QED BY <1>1, <1>5, <2>1, <2>2, <4>1 DEF ShownIs
    <3>2. CASE Stands(to) /\ stack = Stack(to.action, to.session.pos)
      <4>1. sessionState' = Stack(currentAction, drawCallSession.pos)'
        BY <1>1, <3>2 DEF Stack
      <4>2. /\ drawCallSession'.pos \in DOMAIN debugFrame'[currentAction'].trace
            /\ Enters(debugFrame[currentAction], drawCallSession.pos)'
            /\ drawCallSession' # NoTrace
        BY <1>1, <3>2 DEF Stands
      <4> QED BY <1>1, <1>5, <2>1, <2>2, <4>1, <4>2 DEF ShownIs
    <3> QED BY <2>1, <3>1, <3>2
  <2> QED BY <1>2, <1>4, <2>3 DEF DebugInv
<1> QED BY <1>6, <1>7

LEMMA ShowsResult ==
    ASSUME DebugInv, NEW to, Reaches(to), to.ok => Stands(to), ShowResult(to)
    PROVE  DebugInv'
<1>1. CASE to.ok
  <2>1. update_session_state(to, Stack(to.action, to.session.pos))
    BY <1>1 DEF ShowResult
  <2> QED BY <1>1, <2>1, Updates
<1>2. CASE ~to.ok
  <2>1. update_session_state(to, Null)
    BY <1>2 DEF ShowResult
  <2> QED BY <2>1, Updates
<1> QED BY <1>1, <1>2

LEMMA ShowsTree ==
    ASSUME DebugInv, NEW to, Reaches(to), to.action # 0, ShowTree(to)
    PROVE  DebugInv'
BY Updates DEF ShowTree


\* A command in the draw call that the session is at.
LEMMA InDrawCall ==
    ASSUME DebugInv, currentAction # 0, NEW command
    PROVE  LET to == At(currentAction, DrawCall(command, drawCallSession)) IN
           /\ to.action = currentAction /\ Reaches(to) /\ (to.ok => Stands(to))
           /\ to.session = NoTrace => ~to.ok
<1> DEFINE r == DrawCall(command, drawCallSession)
           to == At(currentAction, r)
           draw == debugFrame[currentAction]
<1>1. /\ debugFrame \in DebugFrames /\ currentAction \in 0 .. Len(debugFrame)
      /\ SessionAt(currentAction, drawCallSession, currentAction, lineBreakpoints)
  BY DEF DebugInv, FrameRight, SessionIsAt
<1>2. currentAction \in DOMAIN debugFrame
  BY <1>1, FramesAre
<1>3. to.action = currentAction /\ to.session = r.session /\ to.ok = r.ok
  BY DEF At
<1>4. CASE drawCallSession = NoTrace
  <2>1. r.session = NoTrace /\ r.ok = FALSE
    BY <1>4 DEF DrawCall, Done
  <2> HIDE DEF r
  <2>2. SessionAt(currentAction, r.session, currentAction, lineBreakpoints)
    BY <1>1, <1>4, <2>1
  <2> HIDE DEF to
  <2>3. Reaches(to)
    BY <1>1, <1>3, <2>1, <2>2 DEF Reaches
  <2> QED BY <1>3, <2>1, <2>3 DEF to, r
<1>5. CASE drawCallSession # NoTrace
  <2>1. /\ draw # NoTrace /\ SessionRight(draw, drawCallSession)
        /\ drawCallSession.breakpoints = Breakpoints(currentAction, currentAction, lineBreakpoints)
    BY <1>1, <1>5 DEF SessionAt
  <2>2. IsDraw(draw)
    BY <1>1, <1>2, <2>1, DrawsAre
  <2>3. Commanded(draw, command, drawCallSession, r)
    BY <1>5, <2>1, <2>2, DrawCallCommanded
  <2> HIDE DEF r
  <2>4. /\ SessionRight(draw, r.session) /\ r.session.breakpoints = drawCallSession.breakpoints
        /\ drawCallSession.pos \in Nat /\ r.session.pos \in Nat /\ r.session \in Sessions
        /\ r.ok => /\ drawCallSession.pos < r.session.pos /\ r.session.pos <= Len(draw.trace)
                   /\ Enters(draw, r.session.pos)
    BY <2>1, <2>2, <2>3, SessionsAre DEF Commanded
  <2>5. r.session # NoTrace /\ SessionAt(currentAction, r.session, currentAction, lineBreakpoints)
    <3>1. r.session # NoTrace
      BY <2>4, SessionsAreTraces
    <3> QED BY <2>1, <2>4, <3>1 DEF SessionAt
  <2>6. r.ok => r.session.pos \in DOMAIN draw.trace
    BY <2>2, <2>4, TracesAre
  <2> HIDE DEF to
  <2>7. Reaches(to)
    BY <1>1, <1>3, <2>4, <2>5 DEF Reaches
  <2>8. to.ok => Stands(to)
    BY <1>3, <2>4, <2>5, <2>6 DEF Stands
  <2> QED BY <1>3, <2>5, <2>7, <2>8 DEF to, r
<1> QED BY <1>4, <1>5

\* The next draw call, in the tree.
LEMMA NextDrawCall ==
    ASSUME DebugInv, currentAction # 0
    PROVE  LET to == step_to_next_draw_call(currentAction) IN
           /\ Reaches(to)
           /\ IF to.ok THEN to.action = currentAction + 1 /\ Pos(to.session) = 0
              ELSE to.action = 0 /\ to.session = NoTrace /\ currentAction = Len(debugFrame)
<1> DEFINE to == step_to_next_draw_call(currentAction)
<1>1. /\ debugFrame \in DebugFrames /\ sourceBreakpoints \subseteq SourceBreakpoints
      /\ currentAction \in 0 .. Len(debugFrame)
      /\ Len(debugFrame) \in Nat /\ DOMAIN debugFrame = 1 .. Len(debugFrame)
  BY FramesAre DEF DebugInv, FrameRight, SessionIsAt
<1>2. CASE currentAction = Len(debugFrame)
  <2>1. to = [action |-> 0, session |-> NoTrace, ok |-> FALSE]
    BY <1>2 DEF step_to_next_draw_call, At, Done
  <2> HIDE DEF to
  <2>2. 0 \in 0 .. Len(debugFrame)
    BY <1>1
  <2> QED BY <1>2, <2>1, <2>2 DEF Reaches, to
<1>3. CASE currentAction # Len(debugFrame)
  <2> DEFINE d == currentAction + 1
             t == StartDebug(d)
  <2>1. to = [action |-> d, session |-> t, ok |-> TRUE]
    BY <1>3 DEF step_to_next_draw_call, At, Done
  <2>2. d \in DOMAIN debugFrame /\ d \in 0 .. Len(debugFrame) /\ d # 0 /\ d # currentAction
    <3> DEFINE N == Len(debugFrame)
    <3>1. currentAction \in 0 .. N /\ currentAction # N /\ N \in Nat /\ DOMAIN debugFrame = 1 .. N
      BY <1>1, <1>3
    <3> HIDE DEF N
    <3>2. d \in 1 .. N /\ d \in 0 .. N /\ d # 0 /\ d # currentAction
      BY <3>1
    <3> QED BY <3>1, <3>2 DEF N
  <2> HIDE DEF d
  <2>3. /\ IF debugFrame[d] = NoTrace THEN t = NoTrace
           ELSE /\ t # NoTrace /\ SessionRight(debugFrame[d], t)
                /\ t.breakpoints = map_breakpoints_from_sources(debugFrame[d], sourceBreakpoints)
        /\ Pos(t) = 0 /\ t \in Sessions \cup {NoTrace}
    BY <1>1, <2>2, StartsDebug
  <2> HIDE DEF t, to
  <2>4. SessionAt(d, t, currentAction, lineBreakpoints)
    BY <2>2, <2>3 DEF SessionAt, Breakpoints
  <2> QED BY <2>1, <2>2, <2>3, <2>4 DEF Reaches, to, d
<1> QED BY <1>2, <1>3

LEMMA DebuggingIs ==
    ASSUME DebugInv, Debugging
    PROVE  currentAction # 0 /\ currentAction \in DOMAIN debugFrame
<1>1. sessionState # NotStarted /\ sessionState # Null
  <2>1. sessionState.state = "stack"
    BY DEF Debugging
  <2>2. NotStarted.state = "not started" /\ Null.state = "null"
    BY DEF NotStarted, Null
  <2> QED BY <2>1, <2>2
<1>2. currentAction # 0
  BY <1>1 DEF DebugInv, ShownIs
<1> QED BY <1>2, FramesAre DEF DebugInv, FrameRight, SessionIsAt

\* The session of a draw call alone has no breakpoints yet.
LEMMA FirstSession ==
    ASSUME DebugInv, sessionState = NotStarted, isDrawCallDebug, NEW d \in DOMAIN debugFrame,
           debugFrame[d] # NoTrace
    PROVE  /\ IsDraw(debugFrame[d]) /\ SessionRight(debugFrame[d], NewSession(debugFrame[d]))
           /\ NewSession(debugFrame[d]) # NoTrace /\ NewSession(debugFrame[d]).pos = 0
           /\ NewSession(debugFrame[d]).breakpoints = {}
           /\ Breakpoints(d, currentAction, lineBreakpoints) = {} /\ currentAction = 0
<1> DEFINE s == NewSession(debugFrame[d])
<1>1. IsDraw(debugFrame[d])
  BY DrawsAre DEF DebugInv, FrameRight
<1>2. s.breakpoints = {} /\ s.pos = 0 /\ s = [s EXCEPT !.breakpoints = {}]
  <2> DEFINE r == [draw |-> debugFrame[d], pos |-> 0, calltrace |-> <<>>, callstackSize |-> 0,
                   breakpoints |-> {}]
  <2>1. s = r
    BY DEF NewSession
  <2>2. [s EXCEPT !.breakpoints = {}] = r
    BY DEF NewSession
  <2>3. s.breakpoints = {} /\ s.pos = 0
    BY <2>1
  <2> HIDE DEF r, s
  <2> QED BY <2>1, <2>2, <2>3
<1>3. SessionRight(debugFrame[d], s)
  <2>1. {} \subseteq Int \X Int
    OBVIOUS
  <2>2. SessionRight(debugFrame[d], [s EXCEPT !.breakpoints = {}])
    BY <1>1, <2>1, SessionStarts
  <2> HIDE DEF s
  <2> QED BY <1>2, <2>2
<1>4. currentAction = 0 /\ sourceBreakpoints = {}
  BY DEF DebugInv, ShownIs, NotStarted, Null, Stack
<1>5. d # currentAction
  BY <1>4, FramesAre DEF DebugInv, FrameRight
<1>6. map_breakpoints_from_sources(debugFrame[d], {}) = {}
  BY DEF map_breakpoints_from_sources
<1> QED BY <1>1, <1>2, <1>3, <1>4, <1>5, <1>6, SessionsAreTraces DEF Breakpoints

LEMMA StartDrawCallKeeps == ASSUME DebugInv, StartDrawCall PROVE DebugInv'
<1>1. PICK d \in DOMAIN debugFrame :
        LET s == IF debugFrame[d] = NoTrace THEN NoTrace ELSE NewSession(debugFrame[d])
        IN  ShowResult(At(IF s = NoTrace THEN 0 ELSE d, DrawCall("step_into", s)))
  BY DEF StartDrawCall
<1>2. /\ debugFrame \in DebugFrames /\ Len(debugFrame) \in Nat
      /\ DOMAIN debugFrame = 1 .. Len(debugFrame) /\ sessionState = NotStarted /\ isDrawCallDebug
  BY FramesAre DEF DebugInv, FrameRight, StartDrawCall
<1>3. CASE debugFrame[d] = NoTrace
  <2> DEFINE to == At(0, DrawCall("step_into", NoTrace))
  <2>1. to = [action |-> 0, session |-> NoTrace, ok |-> FALSE]
    BY DEF At, DrawCall, Done
  <2>2. ShowResult(to)
    BY <1>1, <1>3
  <2> HIDE DEF to
  <2>3. 0 \in 0 .. Len(debugFrame)
    BY <1>2
  <2>4. Reaches(to) /\ ~to.ok
    BY <2>1, <2>3 DEF Reaches
  <2> QED BY <2>2, <2>4, ShowsResult
<1>4. CASE debugFrame[d] # NoTrace
  <2> DEFINE s == NewSession(debugFrame[d])
             r == DrawCall("step_into", s)
             to == At(d, r)
             draw == debugFrame[d]
  <2>1. /\ IsDraw(draw) /\ SessionRight(draw, s) /\ s # NoTrace /\ s.pos = 0 /\ s.breakpoints = {}
        /\ Breakpoints(d, currentAction, lineBreakpoints) = {}
    BY <1>2, <1>4, FirstSession
  <2>2. ShowResult(to)
    BY <1>1, <1>4, <2>1
  <2>3. Commanded(draw, "step_into", s, r)
    BY <2>1, DrawCallCommanded
  <2>4. to.action = d /\ to.session = r.session /\ to.ok = r.ok
    BY DEF At
  <2> HIDE DEF r, to, s
  <2>5. /\ SessionRight(draw, r.session) /\ r.session.breakpoints = {}
        /\ r.session.pos \in Nat /\ r.session \in Sessions
        /\ r.ok => /\ 0 < r.session.pos /\ r.session.pos <= Len(draw.trace)
                   /\ Enters(draw, r.session.pos)
    BY <2>1, <2>3, SessionsAre DEF Commanded
  <2>6. r.session # NoTrace
    BY <2>5, SessionsAreTraces
  <2>7. SessionAt(d, r.session, currentAction, lineBreakpoints)
    BY <1>4, <2>1, <2>5, <2>6 DEF SessionAt
  <2>8. d \in 0 .. Len(debugFrame) /\ d # 0
    BY <1>2
  <2>9. Reaches(to)
    BY <2>4, <2>5, <2>7, <2>8 DEF Reaches
  <2>10. r.ok => r.session.pos \in DOMAIN draw.trace
    BY <2>1, <2>5, TracesAre
  <2>11. to.ok => Stands(to)
    BY <2>4, <2>5, <2>6, <2>8, <2>10 DEF Stands
  <2> QED BY <2>2, <2>9, <2>11, ShowsResult
<1> QED BY <1>3, <1>4

\* What is resumed stops in a draw call, or nowhere.
LEMMA ResumedReaches ==
    ASSUME DebugInv, NEW a \in DOMAIN debugFrame, NEW lines, NEW s, NEW to,
           Resumed(a, s, lines, to),
           IF a = currentAction THEN lines = lineBreakpoints ELSE lines = {} /\ currentAction = 0
    PROVE  Reaches(to) /\ (to.ok => Stands(to))
<1>1. to.action # 0 => SessionAt(to.action, to.session, currentAction, lineBreakpoints)
  <2>1. SUFFICES ASSUME to.action # 0
                 PROVE  SessionAt(to.action, to.session, currentAction, lineBreakpoints)
    OBVIOUS
  <2>2. SessionAt(to.action, to.session, a, lines)
    BY <2>1 DEF Resumed
  <2>3. Breakpoints(to.action, a, lines) = Breakpoints(to.action, currentAction, lineBreakpoints)
    BY <2>1 DEF Breakpoints
  <2> QED BY <2>2, <2>3 DEF SessionAt
<1> QED BY <1>1 DEF Resumed, Reaches, Stands

LEMMA FirstDebuggable ==
    ASSUME debugFrame \in DebugFrames, \E d \in DOMAIN debugFrame : debugFrame[d] # NoTrace
    PROVE  LET first == Min({d \in DOMAIN debugFrame : debugFrame[d] # NoTrace}) IN
           /\ first \in DOMAIN debugFrame /\ debugFrame[first] # NoTrace
           /\ \A d \in DOMAIN debugFrame : debugFrame[d] # NoTrace => first <= d
<1> DEFINE T == {d \in DOMAIN debugFrame : debugFrame[d] # NoTrace}
<1>1. T \in SUBSET Nat /\ T # {}
  BY FramesAre
<1>2. \E x \in T : \A y \in T : x <= y
  <2> HIDE DEF T
  <2> QED BY <1>1, LeastNatural
<1>3. Min(T) \in T /\ \A y \in T : Min(T) <= y
  <2> HIDE DEF T
  <2> QED BY <1>2 DEF Min
<1> QED BY <1>3

LEMMA StartFrameKeeps == ASSUME DebugInv, StartFrame PROVE DebugInv'
<1> DEFINE debuggable == {d \in DOMAIN debugFrame : debugFrame[d] # NoTrace}
           first == Min(debuggable)
           to == IF debuggable = {} THEN At(0, Done(NoTrace, FALSE))
                 ELSE resume_to_next_not_null_stack(first, StartDebug(first))
<1>1. ShowResult(to)
  BY DEF StartFrame
<1>2. /\ debugFrame \in DebugFrames /\ sourceBreakpoints \subseteq SourceBreakpoints
      /\ Len(debugFrame) \in Nat /\ DOMAIN debugFrame = 1 .. Len(debugFrame)
      /\ currentAction = 0
  <2>1. currentAction = 0
    BY DEF StartFrame, DebugInv, ShownIs, NotStarted, Null, Stack
  <2> QED BY <2>1, FramesAre DEF DebugInv, FrameRight
<1>3. CASE debuggable = {}
  <2>1. to = [action |-> 0, session |-> NoTrace, ok |-> FALSE]
    BY <1>3 DEF At, Done
  <2>2. 0 \in 0 .. Len(debugFrame)
    BY <1>2
  <2> HIDE DEF to
  <2>3. Reaches(to) /\ ~to.ok
    BY <2>1, <2>2 DEF Reaches
  <2> QED BY <1>1, <2>3, ShowsResult
<1>4. CASE debuggable # {}
  <2>1. first \in DOMAIN debugFrame /\ debugFrame[first] # NoTrace
    BY <1>2, <1>4, FirstDebuggable
  <2> HIDE DEF first
  <2> DEFINE s == StartDebug(first)
  <2>2. /\ s # NoTrace /\ SessionRight(debugFrame[first], s)
        /\ s.breakpoints = map_breakpoints_from_sources(debugFrame[first], sourceBreakpoints)
        /\ s \in Sessions \cup {NoTrace}
    BY <1>2, <2>1, StartsDebug
  <2> HIDE DEF s
  <2>3. SessionAt(first, s, first, {})
    BY <2>1, <2>2 DEF SessionAt, Breakpoints
  <2>4. to = resume_to_next_not_null_stack(first, s)
    BY <1>4 DEF s, first
  <2> HIDE DEF to
  <2>5. Resumed(first, s, {}, to)
    BY <1>2, <2>1, <2>2, <2>3, <2>4, ResumeResumes
  <2>6. first # currentAction
    BY <1>2, <2>1
  <2>7. Reaches(to) /\ (to.ok => Stands(to))
    BY <1>2, <2>1, <2>5, <2>6, ResumedReaches
  <2> QED BY <1>1, <2>7, ShowsResult
<1> QED BY <1>3, <1>4

LEMMA StepInKeeps == ASSUME DebugInv, NEW command, StepIn(command) PROVE DebugInv'
<1> DEFINE inDraw == IF InTree(sessionState) /\ command = "step_over" THEN "resume" ELSE command
           result == At(currentAction, DrawCall(inDraw, drawCallSession))
           next   == step_to_next_draw_call(currentAction)
<1>1. /\ Debugging
      /\ IF result.ok \/ isDrawCallDebug THEN ShowResult(result)
         ELSE IF ~InTree(sessionState) THEN ShowTree(result)
         ELSE IF next.ok THEN ShowTree(next)
         ELSE ShowResult(next)
  BY DEF StepIn
<1>2. currentAction # 0
  BY <1>1, DebuggingIs
<1> HIDE DEF inDraw
<1>3. result.action = currentAction /\ Reaches(result) /\ (result.ok => Stands(result))
  BY <1>2, InDrawCall
<1>4. /\ Reaches(next)
      /\ IF next.ok THEN next.action = currentAction + 1 /\ Pos(next.session) = 0
         ELSE next.action = 0 /\ next.session = NoTrace /\ currentAction = Len(debugFrame)
  BY <1>2, NextDrawCall
<1> HIDE DEF result, next
<1>5. CASE ShowResult(result)
  BY <1>3, <1>5, ShowsResult
<1>6. CASE ShowTree(result)
  BY <1>2, <1>3, <1>6, ShowsTree
<1>7. CASE ShowTree(next) /\ next.ok
  <2>1. next.action # 0
    <3>1. currentAction \in 0 .. Len(debugFrame)
      BY DEF DebugInv, SessionIsAt
    <3> QED BY <1>4, <1>7, <3>1
  <2> QED BY <1>4, <1>7, <2>1, ShowsTree
<1>8. CASE ShowResult(next) /\ ~next.ok
  BY <1>4, <1>8, ShowsResult
<1> QED BY <1>1, <1>5, <1>6, <1>7, <1>8

LEMMA StepOutKeeps == ASSUME DebugInv, StepOut PROVE DebugInv'
<1> DEFINE result == At(currentAction, DrawCall("step_out", drawCallSession))
           ended  == At(currentAction, Done(drawCallSession, FALSE))
<1>1. /\ Debugging
      /\ IF InTree(sessionState) THEN ShowResult(ended)
         ELSE IF result.ok \/ isDrawCallDebug THEN ShowResult(result)
         ELSE ShowTree(result)
  BY DEF StepOut
<1>2. currentAction # 0
  BY <1>1, DebuggingIs
<1>3. result.action = currentAction /\ Reaches(result) /\ (result.ok => Stands(result))
  BY <1>2, InDrawCall
<1>4. Reaches(ended) /\ ~ended.ok
  <2>1. ended = [action |-> currentAction, session |-> drawCallSession, ok |-> FALSE]
    BY DEF At, Done
  <2> HIDE DEF ended
  <2> QED BY <1>2, <2>1 DEF Reaches, DebugInv, SessionIsAt
<1> HIDE DEF result, ended
<1>5. CASE ShowResult(ended)
  BY <1>4, <1>5, ShowsResult
<1>6. CASE ShowResult(result)
  BY <1>3, <1>6, ShowsResult
<1>7. CASE ShowTree(result)
  BY <1>2, <1>3, <1>7, ShowsTree
<1> QED BY <1>1, <1>5, <1>6, <1>7

LEMMA ResumeKeeps == ASSUME DebugInv, Resume PROVE DebugInv'
<1>1. /\ Debugging
      /\ ShowResult(IF isDrawCallDebug THEN At(currentAction, DrawCall("resume", drawCallSession))
                    ELSE resume_to_next_not_null_stack(currentAction, drawCallSession))
  BY DEF Resume
<1>2. currentAction # 0 /\ currentAction \in DOMAIN debugFrame
  BY <1>1, DebuggingIs
<1>3. CASE isDrawCallDebug
  <2> DEFINE to == At(currentAction, DrawCall("resume", drawCallSession))
  <2>1. Reaches(to) /\ (to.ok => Stands(to))
    BY <1>2, InDrawCall
  <2>2. ShowResult(to)
    BY <1>1, <1>3
  <2> HIDE DEF to
  <2> QED BY <2>1, <2>2, ShowsResult
<1>4. CASE ~isDrawCallDebug
  <2> DEFINE to == resume_to_next_not_null_stack(currentAction, drawCallSession)
  <2>1. /\ debugFrame \in DebugFrames /\ sourceBreakpoints \subseteq SourceBreakpoints
        /\ drawCallSession \in Sessions \cup {NoTrace}
        /\ SessionAt(currentAction, drawCallSession, currentAction, lineBreakpoints)
    BY <1>2 DEF DebugInv, FrameRight, SessionIsAt
  <2>2. Resumed(currentAction, drawCallSession, lineBreakpoints, to)
    BY <1>2, <2>1, ResumeResumes
  <2>3. ShowResult(to)
    BY <1>1, <1>4
  <2> HIDE DEF to
  <2>4. Reaches(to) /\ (to.ok => Stands(to))
    BY <1>2, <2>2, ResumedReaches
  <2> QED BY <2>3, <2>4, ShowsResult
<1> QED BY <1>3, <1>4


-----------------------------------------------------------------------------
(* Breakpoints.                                                            *)

LEMMA SectionsAreApart ==
    ASSUME NEW Paths, NEW text \in Seq(Lines(Paths)), NEW sec \in Sections(text),
           NEW other \in Sections(text), sec < other
    PROVE  SectionEnd(text, sec) <= other
<1>1. /\ sec \in Nat /\ other \in Nat /\ SectionEnd(text, sec) \in Nat
      /\ \A k \in sec + 1 .. SectionEnd(text, sec) - 1 : ~text[k].marker
  BY NextSection, SectionNumbers
<1>2. text[other].marker
  BY DEF Sections
<1> QED BY <1>1, <1>2

\* A line of the text comes from one line of one file.
LEMMA ComesFromOne ==
    ASSUME NEW Paths, NEW text \in Seq(Lines(Paths)), NEW k \in Int,
           NEW path, NEW line, ComesFrom(text, k, path, line),
           NEW path2, NEW line2, ComesFrom(text, k, path2, line2)
    PROVE  path = path2 /\ line = line2
<1>1. PICK sec \in Sections(text) :
        /\ sec < k /\ k < SectionEnd(text, sec)
        /\ SectionPath(text, sec) = path /\ line = text[sec].line + k - sec - 1
  BY DEF ComesFrom
<1>2. PICK sec2 \in Sections(text) :
        /\ sec2 < k /\ k < SectionEnd(text, sec2)
        /\ SectionPath(text, sec2) = path2 /\ line2 = text[sec2].line + k - sec2 - 1
  BY DEF ComesFrom
<1>3. /\ sec \in Nat /\ sec2 \in Nat /\ SectionEnd(text, sec) \in Nat /\ SectionEnd(text, sec2) \in Nat
  BY SectionNumbers
<1>4. ~(sec < sec2)
  <2>1. SUFFICES ASSUME sec < sec2 PROVE FALSE
    OBVIOUS
  <2>2. SectionEnd(text, sec) <= sec2
    BY <2>1, SectionsAreApart
  <2> QED BY <1>1, <1>2, <1>3, <2>2
<1>5. ~(sec2 < sec)
  <2>1. SUFFICES ASSUME sec2 < sec PROVE FALSE
    OBVIOUS
  <2>2. SectionEnd(text, sec2) <= sec
    BY <2>1, SectionsAreApart
  <2> QED BY <1>1, <1>2, <1>3, <2>2
<1>6. sec = sec2
  BY <1>3, <1>4, <1>5
<1> QED BY <1>1, <1>2, <1>6

LEMMA MappedUnion ==
    ASSUME NEW draw, NEW S, NEW T
    PROVE  map_breakpoints_from_sources(draw, S \cup T) =
             map_breakpoints_from_sources(draw, S) \cup map_breakpoints_from_sources(draw, T)
BY DEF map_breakpoints_from_sources

\* No two breakpoints in source files are mapped to one line.
LEMMA MappedApart ==
    ASSUME NEW draw, IsDraw(draw), NEW sources, sources \subseteq SourceBreakpoints,
           NEW b \in SourceBreakpoints, b \notin sources
    PROVE  map_breakpoints_from_sources(draw, sources)
           \cap map_breakpoints_from_sources(draw, {b}) = {}
<1>1. SUFFICES ASSUME NEW c \in sources, NEW k \in map_source_line(draw.text, c.path, c.line),
                      k \in map_source_line(draw.text, b.path, b.line)
               PROVE  FALSE
  BY DEF map_breakpoints_from_sources
<1>2. draw.text \in Seq(Lines(STRING))
  BY TracesAre
<1>3. b \in [path : STRING, line : Nat \ {0}] /\ c \in [path : STRING, line : Nat \ {0}]
  BY SessionsAssumption
<1>4. b.line \in Nat /\ c.line \in Nat
  BY <1>3
<1>5. ComesFrom(draw.text, k, c.path, c.line)
  BY <1>1, <1>2, <1>4, MapsToCopies
<1>6. ComesFrom(draw.text, k, b.path, b.line)
  BY <1>1, <1>2, <1>4, MapsToCopies
<1>7. k \in Int
  <2>1. PICK sec \in Found(draw.text, b.path, b.line) : k = sec + b.line - draw.text[sec].line + 1
    BY <1>1 DEF map_source_line
  <2>2. sec \in Sections(draw.text)
    BY <2>1 DEF Found, Usages
  <2>3. sec \in Nat /\ draw.text[sec].line \in Nat
    BY <1>2, <2>2, SectionNumbers
  <2> QED BY <1>4, <2>1, <2>3
<1>8. c.path = b.path /\ c.line = b.line
  BY <1>2, <1>5, <1>6, <1>7, ComesFromOne
<1>9. b = c
  BY <1>3, <1>8
<1> QED BY <1>1, <1>9

LEMMA Rebroken ==
    ASSUME NEW draw, IsDraw(draw), NEW s, SessionRight(draw, s),
           NEW breakpoints, breakpoints \subseteq Int \X Int
    PROVE  LET t == [s EXCEPT !.breakpoints = breakpoints] IN
           /\ SessionRight(draw, t) /\ t.breakpoints = breakpoints /\ t.pos = s.pos
           /\ t \in Sessions /\ t # NoTrace
<1> DEFINE t == [s EXCEPT !.breakpoints = breakpoints]
<1>1. s \in Sessions /\ breakpoints \in SUBSET (Int \X Int)
  BY DEF SessionRight
<1>2. /\ t \in Sessions /\ t.breakpoints = breakpoints /\ t.pos = s.pos /\ t.draw = s.draw
      /\ t.calltrace = s.calltrace /\ t.callstackSize = s.callstackSize
  BY <1>1 DEF Sessions
<1> HIDE DEF t
<1>3. SessionRight(draw, t)
  BY <1>2 DEF SessionRight
<1> QED BY <1>2, <1>3, SessionsAreTraces DEF t

LEMMA SetsBreakpoints ==
    ASSUME DebugInv, NEW sources, NEW lines, NEW breakpoints,
           SetBreakpoints(sources, lines, breakpoints),
           sources \subseteq SourceBreakpoints, lines \subseteq Int \X Int,
           drawCallSession # NoTrace =>
              LET mapped == map_breakpoints_from_sources(debugFrame[currentAction], sources) IN
              breakpoints = mapped \cup lines /\ mapped \cap lines = {}
    PROVE  DebugInv'
<1> DEFINE draw == debugFrame[currentAction]
           mapped == map_breakpoints_from_sources(draw, sources)
<1>1. /\ sourceBreakpoints' = sources /\ lineBreakpoints' = lines
      /\ drawCallSession' = IF drawCallSession = NoTrace THEN NoTrace
                            ELSE [drawCallSession EXCEPT !.breakpoints = breakpoints]
      /\ debugFrame' = debugFrame /\ isDrawCallDebug' = isDrawCallDebug
      /\ currentAction' = currentAction /\ sessionState' = sessionState
      /\ shownSession' = shownSession /\ Debugging
  BY DEF SetBreakpoints
<1>2. FrameRight'
  BY <1>1 DEF DebugInv, FrameRight
<1>3. /\ currentAction # 0 /\ currentAction \in DOMAIN debugFrame /\ debugFrame \in DebugFrames
      /\ currentAction \in 0 .. Len(debugFrame)
      /\ SessionAt(currentAction, drawCallSession, currentAction, lineBreakpoints)
  <2>1. currentAction # 0 /\ currentAction \in DOMAIN debugFrame
    BY <1>1, DebuggingIs
  <2> QED BY <2>1 DEF DebugInv, FrameRight, SessionIsAt
<1>4. sessionState # NotStarted /\ sessionState # Null
  <2>1. sessionState.state = "stack"
    BY <1>1 DEF Debugging
  <2>2. NotStarted.state = "not started" /\ Null.state = "null"
    BY DEF NotStarted, Null
  <2> QED BY <2>1, <2>2
<1>5. CASE drawCallSession = NoTrace
  <2>1. drawCallSession' = NoTrace /\ draw = NoTrace
    BY <1>1, <1>3, <1>5 DEF SessionAt
  <2>2. SessionAt(currentAction, drawCallSession, currentAction, lineBreakpoints)'
    BY <1>1, <2>1 DEF SessionAt
  <2>3. SessionIsAt'
    BY <1>1, <1>3, <2>1, <2>2 DEF SessionIsAt
  <2>4. sessionState = Stack(currentAction, -1) /\ shownSession \in 0 .. Len(debugFrame)
    BY <1>4, <1>5 DEF DebugInv, ShownIs
  <2>5. sessionState' = Stack(currentAction, -1)' /\ shownSession' \in 0 .. Len(debugFrame')
    BY <1>1, <2>4 DEF Stack
  <2>6. ShownIs'
    BY <1>1, <1>3, <2>1, <2>5 DEF ShownIs
  <2> QED BY <1>2, <2>3, <2>6 DEF DebugInv
<1>6. CASE drawCallSession # NoTrace
  <2> DEFINE t == [drawCallSession EXCEPT !.breakpoints = breakpoints]
  <2>1. draw # NoTrace /\ SessionRight(draw, drawCallSession) /\ IsDraw(draw)
    BY <1>3, <1>6, DrawsAre DEF SessionAt
  <2>2. mapped \subseteq Int \X Int
    BY <2>1, MappedAre
  <2>3. breakpoints = mapped \cup lines /\ mapped \cap lines = {}
    BY <1>6
  <2>4. breakpoints \subseteq Int \X Int
    BY <2>2, <2>3
  <2>5. /\ SessionRight(draw, t) /\ t.breakpoints = breakpoints /\ t.pos = drawCallSession.pos
        /\ t \in Sessions /\ t # NoTrace
    BY <2>1, <2>4, Rebroken
  <2>6. drawCallSession' = t
    BY <1>1, <1>6
  <2> HIDE DEF t
  <2>7. SessionAt(currentAction, drawCallSession, currentAction, lineBreakpoints)'
    <3>1. Breakpoints(currentAction, currentAction, lineBreakpoints)' = mapped \cup lines
      BY <1>1 DEF Breakpoints
    <3> QED BY <1>1, <2>1, <2>3, <2>5, <2>6, <3>1 DEF SessionAt
  <2>8. map_breakpoints_from_sources(debugFrame[currentAction], sourceBreakpoints)'
        \cap lineBreakpoints' = {}
    BY <1>1, <2>3
  <2>9. SessionIsAt'
    BY <1>1, <1>3, <2>5, <2>6, <2>7, <2>8 DEF SessionIsAt
  <2>10. /\ shownSession = currentAction /\ shownSession \in 0 .. Len(debugFrame)
         /\ \/ sessionState = Stack(currentAction, -1)
            \/ /\ sessionState = Stack(currentAction, drawCallSession.pos)
               /\ drawCallSession.pos \in DOMAIN debugFrame[currentAction].trace
               /\ Enters(debugFrame[currentAction], drawCallSession.pos)
    BY <1>4, <1>6 DEF DebugInv, ShownIs
  <2>11. /\ shownSession' = currentAction' /\ shownSession' \in 0 .. Len(debugFrame')
         /\ drawCallSession' # NoTrace /\ currentAction' # 0
         /\ \/ sessionState' = Stack(currentAction, -1)'
            \/ /\ sessionState' = Stack(currentAction, drawCallSession.pos)'
               /\ drawCallSession'.pos \in DOMAIN debugFrame'[currentAction'].trace
               /\ Enters(debugFrame[currentAction], drawCallSession.pos)'
    BY <1>1, <1>3, <2>5, <2>6, <2>10 DEF Stack
  <2>12. ShownIs'
    BY <2>11 DEF ShownIs
  <2> QED BY <1>2, <2>9, <2>12 DEF DebugInv
<1> QED BY <1>5, <1>6

\* With what the session has as breakpoints, where there is one.
LEMMA BreakpointsAre ==
    ASSUME DebugInv, Debugging, drawCallSession # NoTrace
    PROVE  LET draw == debugFrame[currentAction]
               mapped == map_breakpoints_from_sources(draw, sourceBreakpoints) IN
           /\ IsDraw(draw) /\ drawCallSession.draw = draw
           /\ drawCallSession.breakpoints = mapped \cup lineBreakpoints
           /\ mapped \cap lineBreakpoints = {}
<1>1. currentAction # 0 /\ currentAction \in DOMAIN debugFrame /\ debugFrame \in DebugFrames
  BY DebuggingIs DEF DebugInv, FrameRight
<1>2. SessionAt(currentAction, drawCallSession, currentAction, lineBreakpoints)
  BY <1>1 DEF DebugInv, SessionIsAt
<1>3. /\ debugFrame[currentAction] # NoTrace /\ SessionRight(debugFrame[currentAction], drawCallSession)
      /\ drawCallSession.breakpoints = Breakpoints(currentAction, currentAction, lineBreakpoints)
  BY <1>2 DEF SessionAt
<1>4. IsDraw(debugFrame[currentAction])
  BY <1>1, <1>3, DrawsAre
<1>5. map_breakpoints_from_sources(debugFrame[currentAction], sourceBreakpoints)
      \cap lineBreakpoints = {}
  BY DEF DebugInv, SessionIsAt
<1> QED BY <1>3, <1>4, <1>5 DEF Breakpoints, SessionRight

LEMMA AddSourceKeeps ==
    ASSUME DebugInv, NEW b \in SourceBreakpoints, AddSourceBreakpoint(b)
    PROVE  DebugInv'
<1> DEFINE draw == debugFrame[currentAction]
           sources == sourceBreakpoints \cup {b}
           breakpoints == drawCallSession.breakpoints \cup Mapped(b)
           mapped == map_breakpoints_from_sources(draw, sources)
<1>1. SetBreakpoints(sources, lineBreakpoints, breakpoints) /\ ~SharesLine(b)
  BY DEF AddSourceBreakpoint
<1>2. sources \subseteq SourceBreakpoints /\ lineBreakpoints \subseteq Int \X Int
  BY DEF DebugInv, FrameRight
<1>3. drawCallSession # NoTrace =>
         breakpoints = mapped \cup lineBreakpoints /\ mapped \cap lineBreakpoints = {}
  <2>1. SUFFICES ASSUME drawCallSession # NoTrace
                 PROVE  breakpoints = mapped \cup lineBreakpoints /\ mapped \cap lineBreakpoints = {}
    OBVIOUS
  <2> DEFINE before == map_breakpoints_from_sources(draw, sourceBreakpoints)
             new == map_breakpoints_from_sources(draw, {b})
  <2>2. Debugging
    BY <1>1 DEF SetBreakpoints
  <2>3. /\ drawCallSession.draw = draw /\ drawCallSession.breakpoints = before \cup lineBreakpoints
        /\ before \cap lineBreakpoints = {}
    BY <2>1, <2>2, BreakpointsAre
  <2>4. Mapped(b) = new /\ new \cap lineBreakpoints = {}
    BY <1>1, <2>1, <2>3 DEF SharesLine, Mapped
  <2>5. mapped = before \cup new
    BY MappedUnion
  <2> HIDE DEF before, new, mapped
  <2> QED BY <2>3, <2>4, <2>5
<1> HIDE DEF sources, breakpoints
<1> QED BY <1>1, <1>2, <1>3, SetsBreakpoints

LEMMA RemoveSourceKeeps ==
    ASSUME DebugInv, NEW b \in SourceBreakpoints, RemoveSourceBreakpoint(b)
    PROVE  DebugInv'
<1> DEFINE draw == debugFrame[currentAction]
           sources == sourceBreakpoints \ {b}
           breakpoints == drawCallSession.breakpoints \ Mapped(b)
           mapped == map_breakpoints_from_sources(draw, sources)
<1>1. SetBreakpoints(sources, lineBreakpoints, breakpoints) /\ ~SharesLine(b)
  BY DEF RemoveSourceBreakpoint
<1>2. sources \subseteq SourceBreakpoints /\ lineBreakpoints \subseteq Int \X Int
  BY DEF DebugInv, FrameRight
<1>3. drawCallSession # NoTrace =>
         breakpoints = mapped \cup lineBreakpoints /\ mapped \cap lineBreakpoints = {}
  <2>1. SUFFICES ASSUME drawCallSession # NoTrace
                 PROVE  breakpoints = mapped \cup lineBreakpoints /\ mapped \cap lineBreakpoints = {}
    OBVIOUS
  <2> DEFINE before == map_breakpoints_from_sources(draw, sourceBreakpoints)
             old == map_breakpoints_from_sources(draw, {b})
  <2>2. Debugging
    BY <1>1 DEF SetBreakpoints
  <2>3. /\ drawCallSession.draw = draw /\ drawCallSession.breakpoints = before \cup lineBreakpoints
        /\ before \cap lineBreakpoints = {} /\ IsDraw(draw)
    BY <2>1, <2>2, BreakpointsAre
  <2>4. Mapped(b) = old /\ old \cap lineBreakpoints = {}
    BY <1>1, <2>1, <2>3 DEF SharesLine, Mapped
  <2>5. mapped \cap old = {}
    <3>1. b \notin sources
      OBVIOUS
    <3> HIDE DEF sources
    <3> QED BY <1>2, <2>3, <3>1, MappedApart
  <2>6. before = mapped \/ before = mapped \cup old
    <3>1. CASE b \in sourceBreakpoints
      <4>1. sourceBreakpoints = sources \cup {b}
        BY <3>1
      <4>2. map_breakpoints_from_sources(draw, sources \cup {b}) = mapped \cup old
        BY MappedUnion
      <4> HIDE DEF sources
      <4> QED BY <4>1, <4>2
    <3>2. CASE b \notin sourceBreakpoints
      <4>1. sourceBreakpoints = sources
        BY <3>2
      <4> HIDE DEF sources
      <4> QED BY <4>1
    <3> QED BY <3>1, <3>2
  <2> HIDE DEF before, old, mapped
  <2> QED BY <2>3, <2>4, <2>5, <2>6
<1> HIDE DEF sources, breakpoints
<1> QED BY <1>1, <1>2, <1>3, SetsBreakpoints

LEMMA AddLineKeeps ==
    ASSUME DebugInv, drawCallSession # NoTrace, NEW bp \in TraceLines(drawCallSession.draw),
           AddLineBreakpoint(bp)
    PROVE  DebugInv'
<1> DEFINE draw == debugFrame[currentAction]
           lines == lineBreakpoints \cup {bp}
           breakpoints == drawCallSession.breakpoints \cup {bp}
           mapped == map_breakpoints_from_sources(draw, sourceBreakpoints)
<1>1. /\ SetBreakpoints(sourceBreakpoints, lines, breakpoints)
      /\ bp \notin drawCallSession.breakpoints /\ Debugging
  BY DEF AddLineBreakpoint, SetBreakpoints
<1>2. /\ drawCallSession.draw = draw /\ drawCallSession.breakpoints = mapped \cup lineBreakpoints
      /\ mapped \cap lineBreakpoints = {} /\ IsDraw(draw)
  BY <1>1, BreakpointsAre
<1>3. bp \in Int \X Int
  <2>1. PICK k \in DOMAIN draw.trace : bp = RenderDocBreakpoint(draw, draw.trace[k].loc)
    BY <1>2 DEF TraceLines
  <2>2. draw.trace[k].loc \in Locs
    BY <1>2, TracesAre
  <2> QED BY <2>1, <2>2 DEF RenderDocBreakpoint, Locs
<1>4. sourceBreakpoints \subseteq SourceBreakpoints /\ lines \subseteq Int \X Int
  BY <1>3 DEF DebugInv, FrameRight
<1>5. breakpoints = mapped \cup lines /\ mapped \cap lines = {}
  BY <1>1, <1>2
<1> HIDE DEF lines, breakpoints
<1> QED BY <1>1, <1>4, <1>5, SetsBreakpoints

LEMMA RemoveLineKeeps ==
    ASSUME DebugInv, drawCallSession # NoTrace, NEW bp, RemoveLineBreakpoint(bp)
    PROVE  DebugInv'
<1> DEFINE draw == debugFrame[currentAction]
           lines == lineBreakpoints \ {bp}
           breakpoints == drawCallSession.breakpoints \ {bp}
           mapped == map_breakpoints_from_sources(draw, sourceBreakpoints)
<1>1. /\ SetBreakpoints(sourceBreakpoints, lines, breakpoints)
      /\ bp \in lineBreakpoints /\ Debugging
  BY DEF RemoveLineBreakpoint, SetBreakpoints
<1>2. /\ drawCallSession.breakpoints = mapped \cup lineBreakpoints
      /\ mapped \cap lineBreakpoints = {}
  BY <1>1, BreakpointsAre
<1>4. sourceBreakpoints \subseteq SourceBreakpoints /\ lines \subseteq Int \X Int
  BY DEF DebugInv, FrameRight
<1>5. breakpoints = mapped \cup lines /\ mapped \cap lines = {}
  BY <1>1, <1>2
<1> HIDE DEF lines, breakpoints
<1> QED BY <1>1, <1>4, <1>5, SetsBreakpoints

-----------------------------------------------------------------------------

LEMMA DebugInvHolds == DebugSpec => []DebugInv
<1>1. DebugInit => DebugInv
  <2>1. SUFFICES ASSUME DebugInit PROVE DebugInv
    OBVIOUS
  <2>2. FrameRight
    BY <2>1 DEF DebugInit, FrameRight
  <2>3. 0 \in 0 .. Len(debugFrame)
    BY <2>2, FramesAre DEF FrameRight
  <2>4. SessionIsAt
    BY <2>1, <2>3 DEF DebugInit, SessionIsAt
  <2>5. ShownIs
    BY <2>1, <2>3 DEF DebugInit, ShownIs
  <2> QED BY <2>2, <2>4, <2>5 DEF DebugInv
<1>2. DebugInv /\ [DebugNext]_debugVars => DebugInv'
  <2>1. SUFFICES ASSUME DebugInv, [DebugNext]_debugVars PROVE DebugInv'
    OBVIOUS
  <2>2. CASE UNCHANGED debugVars
    BY <2>1, <2>2 DEF debugVars, DebugInv, FrameRight, SessionIsAt, ShownIs, SessionAt,
                      Breakpoints, Stack
  <2>3. CASE StartDrawCall
    BY <2>1, <2>3, StartDrawCallKeeps
  <2>4. CASE StartFrame
    BY <2>1, <2>4, StartFrameKeeps
  <2>5. CASE StepInto
    BY <2>1, <2>5, StepInKeeps DEF StepInto
  <2>6. CASE StepOver
    BY <2>1, <2>6, StepInKeeps DEF StepOver
  <2>7. CASE StepOut
    BY <2>1, <2>7, StepOutKeeps
  <2>8. CASE Resume
    BY <2>1, <2>8, ResumeKeeps
  <2>9. CASE \E b \in SourceBreakpoints : AddSourceBreakpoint(b) \/ RemoveSourceBreakpoint(b)
    BY <2>1, <2>9, AddSourceKeeps, RemoveSourceKeeps
  <2>10. CASE /\ drawCallSession # NoTrace
              /\ \E bp \in TraceLines(drawCallSession.draw) :
                    AddLineBreakpoint(bp) \/ RemoveLineBreakpoint(bp)
    BY <2>1, <2>10, AddLineKeeps, RemoveLineKeeps
  <2> QED BY <2>1, <2>2, <2>3, <2>4, <2>5, <2>6, <2>7, <2>8, <2>9, <2>10 DEF DebugNext
<1> QED BY <1>1, <1>2, PTL DEF DebugSpec

\* The front end shows the session where it is: it has the trace and the text of the
\* draw call, and the session is where the trace gets to another line
\* (do_source_step, resume_to_next_not_null_stack, update_session_state).
THEOREM FrontEndSeesPositionHolds == DebugSpec => []FrontEndSeesPosition
<1>1. DebugInv => FrontEndSeesPosition
  <2>1. SUFFICES ASSUME DebugInv, Debugging
                 PROVE  /\ sessionState.drawCallId = currentAction
                        /\ ~InTree(sessionState) =>
                              /\ drawCallSession # NoTrace
                              /\ sessionState.stepIndex = drawCallSession.pos
                              /\ drawCallSession.pos \in DOMAIN drawCallSession.draw.trace
                              /\ Enters(drawCallSession.draw, drawCallSession.pos)
                        /\ drawCallSession # NoTrace => shownSession = currentAction
    BY DEF FrontEndSeesPosition
  <2>2. sessionState # NotStarted /\ sessionState # Null
    <3>1. sessionState.state = "stack"
      BY <2>1 DEF Debugging
    <3>2. NotStarted.state = "not started" /\ Null.state = "null"
      BY DEF NotStarted, Null
    <3> QED BY <3>1, <3>2
  <2>3. drawCallSession # NoTrace => drawCallSession.draw = debugFrame[currentAction]
    BY <2>1, BreakpointsAre
  <2>4. drawCallSession # NoTrace => shownSession = currentAction
    BY <2>1, <2>2 DEF DebugInv, ShownIs
  <2>5. CASE sessionState = Stack(currentAction, -1)
    <3>1. InTree(sessionState) /\ sessionState.drawCallId = currentAction
      BY <2>5 DEF InTree, Stack
    <3> QED BY <2>4, <3>1
  <2>6. CASE /\ drawCallSession # NoTrace
             /\ sessionState = Stack(currentAction, drawCallSession.pos)
             /\ drawCallSession.pos \in DOMAIN debugFrame[currentAction].trace
             /\ Enters(debugFrame[currentAction], drawCallSession.pos)
    <3>1. sessionState.drawCallId = currentAction /\ sessionState.stepIndex = drawCallSession.pos
      BY <2>6 DEF Stack
    <3> QED BY <2>3, <2>4, <2>6, <3>1
  <2> QED BY <2>1, <2>2, <2>5, <2>6 DEF DebugInv, ShownIs
<1> QED BY <1>1, DebugInvHolds, PTL

\* Types of a debug session, of a front end that shows it or nothing: commands
\* stay in the frame and in its traces.
THEOREM DebugTypeCorrect == DebugSpec => []DebugTypeOK
<1>1. DebugInv => DebugTypeOK
  <2>1. SUFFICES ASSUME DebugInv PROVE DebugTypeOK
    OBVIOUS
  <2>2. /\ debugFrame \in Seq(Draws \cup {NoTrace})
        /\ currentAction \in 0 .. Len(debugFrame) /\ shownSession \in 0 .. Len(debugFrame)
        /\ sourceBreakpoints \subseteq SourceBreakpoints
    BY <2>1, SessionsAssumption DEF DebugInv, FrameRight, SessionIsAt, ShownIs
  <2>3. currentAction # 0 => currentAction \in DOMAIN debugFrame
    BY <2>2
  <2>4. ASSUME drawCallSession # NoTrace
        PROVE  /\ currentAction # 0 /\ HasTrace(debugFrame[currentAction])
               /\ SessionRight(debugFrame[currentAction], drawCallSession)
    BY <2>1, <2>4 DEF DebugInv, SessionIsAt, SessionAt, HasTrace
  <2>5. drawCallSession # NoTrace =>
            /\ drawCallSession.draw = debugFrame[currentAction]
            /\ drawCallSession.pos \in 0 .. Len(drawCallSession.draw.trace) + 1
    BY <2>4 DEF SessionRight
  <2>6. \/ sessionState \in {NotStarted, Null}
        \/ currentAction # 0 /\ sessionState = Stack(currentAction, -1)
        \/ /\ drawCallSession # NoTrace /\ sessionState = Stack(currentAction, drawCallSession.pos)
           /\ drawCallSession.pos \in DOMAIN debugFrame[currentAction].trace
    BY <2>1 DEF DebugInv, ShownIs
  <2> QED BY <2>2, <2>3, <2>4, <2>5, <2>6 DEF DebugTypeOK
<1> QED BY <1>1, DebugInvHolds, PTL

-----------------------------------------------------------------------------
(* What commands pass.                                                     *)

\* The breakpoints of a session are those of the user.
LEMMA HitsAreBreakpoints ==
    ASSUME DebugInv, NEW d \in DOMAIN debugFrame, debugFrame[d] # NoTrace,
           NEW k \in DOMAIN debugFrame[d].trace, NEW a, NEW lines
    PROVE  Hits(d, k, a, lines)
           <=> HasBreakpoint(debugFrame[d], k, sourceBreakpoints, IF d = a THEN lines ELSE {})
<1> DEFINE draw == debugFrame[d]
           line == draw.trace[k].loc[1]
           own == IF d = a THEN lines ELSE {}
           mapped == map_breakpoints_from_sources(draw, sourceBreakpoints)
<1>1. IsDraw(draw) /\ sourceBreakpoints \subseteq SourceBreakpoints
  BY DrawsAre DEF DebugInv, FrameRight
<1>2. k \in 1 .. Len(draw.trace) /\ draw.text \in Seq(Lines(STRING)) /\ TextAssumption(draw.text)
  BY <1>1, TracesAre DEF IsDraw
<1>3. line \in Nat
  <2>1. draw.trace[k].loc \in Locs
    BY <1>1, <1>2, TracesAre
  <2> QED BY <2>1 DEF Locs
<1>4. Hits(d, k, a, lines) <=> <<IF draw.source THEN 0 ELSE -1, line>> \in mapped \cup own
  BY DEF Hits, RenderDocBreakpoint, Breakpoints
<1>5. HasBreakpoint(draw, k, sourceBreakpoints, own)
      <=> IF draw.source
          THEN <<0, line>> \in own
               \/ \E b \in sourceBreakpoints : ComesFrom(draw.text, line, b.path, b.line)
          ELSE <<-1, line>> \in own
  BY DEF HasBreakpoint
<1>6. mapped = {<<0, l>> : l \in UNION {map_source_line(draw.text, b.path, b.line) : b \in sourceBreakpoints}}
  BY DEF map_breakpoints_from_sources
<1>7. <<0, line>> \in mapped
      <=> \E b \in sourceBreakpoints : line \in map_source_line(draw.text, b.path, b.line)
  <2> HIDE DEF line
  <2> QED BY <1>6
<1>8. <<-1, line>> \notin mapped
  <2> HIDE DEF line
  <2> QED BY <1>6
<1>9. ASSUME NEW b \in sourceBreakpoints
      PROVE  line \in map_source_line(draw.text, b.path, b.line)
             <=> ComesFrom(draw.text, line, b.path, b.line)
  <2>1. b.line \in Nat
    BY <1>1, SessionsAssumption
  <2>2. ASSUME line \in map_source_line(draw.text, b.path, b.line)
        PROVE  ComesFrom(draw.text, line, b.path, b.line)
    <3> HIDE DEF line
    <3> QED BY <1>2, <2>1, <2>2, MapsToCopies
  <2>3. ASSUME ComesFrom(draw.text, line, b.path, b.line)
        PROVE  line \in map_source_line(draw.text, b.path, b.line)
    <3>1. Sections(draw.text) # {}
      BY <2>3 DEF ComesFrom
    <3>2. 1 \in Sections(draw.text) /\ NothingTwice(draw.text)
      BY <1>2, <3>1 DEF TextAssumption
    <3> HIDE DEF line
    <3> QED BY <1>2, <1>3, <2>1, <2>3, <3>2, CopiesAreFound
  <2> QED BY <2>2, <2>3
<1> HIDE DEF mapped, line, own
<1>10. Hits(d, k, a, lines) <=> HasBreakpoint(draw, k, sourceBreakpoints, own)
  <2>1. CASE draw.source
    BY <1>4, <1>5, <1>7, <1>9, <2>1
  <2>2. CASE ~draw.source
    BY <1>4, <1>5, <1>8, <2>2
  <2> QED BY <2>1, <2>2
<1> QED BY <1>10 DEF own

LEMMA PassedTo ==
    ASSUME NEW to, NEW stack, update_session_state(to, stack), NEW d, NEW k, Passed(d, k)
    PROVE  /\ IF d = currentAction \/ isDrawCallDebug THEN k > Pos(drawCallSession)
              ELSE d > currentAction
           /\ IF d = to.action THEN k < Pos(to.session)
              ELSE ~isDrawCallDebug /\ (to.action = 0 \/ d < to.action)
<1>1. currentAction' = to.action /\ drawCallSession' = to.session
  BY DEF update_session_state
<1>2. Pos(drawCallSession') = Pos(to.session)
  BY <1>1 DEF Pos
<1> QED BY <1>1, <1>2 DEF Passed

LEMMA PassedShown ==
    ASSUME NEW to, ShowResult(to) \/ ShowTree(to), NEW d, NEW k, Passed(d, k)
    PROVE  /\ IF d = currentAction \/ isDrawCallDebug THEN k > Pos(drawCallSession)
              ELSE d > currentAction
           /\ IF d = to.action THEN k < Pos(to.session)
              ELSE ~isDrawCallDebug /\ (to.action = 0 \/ d < to.action)
<1>1. CASE ShowResult(to)
  BY <1>1, PassedTo DEF ShowResult
<1>2. CASE ShowTree(to)
  BY <1>2, PassedTo DEF ShowTree
<1> QED BY <1>1, <1>2

\* What a command passes in the draw call that the session is at.
LEMMA PassedInDrawCall ==
    ASSUME DebugInv, currentAction # 0, debugFrame[currentAction] # NoTrace, NEW command,
           NEW k \in DOMAIN debugFrame[currentAction].trace, Pos(drawCallSession) < k,
           Enters(debugFrame[currentAction], k),
           LET r == DrawCall(command, drawCallSession) IN ~r.ok \/ k < Pos(r.session)
    PROVE  /\ drawCallSession # NoTrace
           /\ \/ PassesBy(debugFrame[currentAction], command, drawCallSession, k)
              \/ command = "resume" /\ drawCallSession.breakpoints = {}
<1> DEFINE r == DrawCall(command, drawCallSession)
           draw == debugFrame[currentAction]
<1>1. /\ debugFrame \in DebugFrames /\ currentAction \in 0 .. Len(debugFrame)
      /\ SessionAt(currentAction, drawCallSession, currentAction, lineBreakpoints)
  BY DEF DebugInv, FrameRight, SessionIsAt
<1>2. currentAction \in DOMAIN debugFrame
  BY <1>1, FramesAre
<1>3. drawCallSession # NoTrace /\ SessionRight(draw, drawCallSession)
  BY <1>1 DEF SessionAt
<1>4. IsDraw(draw)
  BY <1>1, <1>2, DrawsAre
<1>5. Commanded(draw, command, drawCallSession, r)
  BY <1>3, <1>4, DrawCallCommanded
<1> HIDE DEF r
<1>6. /\ SessionRight(draw, r.session)
      /\ ~r.ok => r.session.pos = Len(draw.trace) + 1
                  \/ (command = "resume" /\ drawCallSession.breakpoints = {})
      /\ \A l \in 1 .. Len(draw.trace) :
            drawCallSession.pos < l /\ l < r.session.pos /\ Enters(draw, l)
            => PassesBy(draw, command, drawCallSession, l)
  BY <1>5 DEF Commanded
<1>7. r.session # NoTrace
  BY <1>6, SessionsAreTraces
<1>8. Pos(r.session) = r.session.pos /\ Pos(drawCallSession) = drawCallSession.pos
  BY <1>3, <1>7 DEF Pos
<1>9. k \in 1 .. Len(draw.trace) /\ Len(draw.trace) \in Nat /\ k < Len(draw.trace) + 1
  BY <1>4, TracesAre
<1>10. ~r.ok \/ k < r.session.pos
  BY <1>8 DEF r
<1>11. k < r.session.pos \/ (command = "resume" /\ drawCallSession.breakpoints = {})
  BY <1>6, <1>9, <1>10
<1> QED BY <1>3, <1>6, <1>8, <1>9, <1>11

LEMMA StepInPasses ==
    ASSUME DebugInv, NEW command, StepIn(command),
           NEW d \in DOMAIN debugFrame, debugFrame[d] # NoTrace,
           NEW k \in DOMAIN debugFrame[d].trace, Passed(d, k), Enters(debugFrame[d], k)
    PROVE  LET inDraw == IF InTree(sessionState) /\ command = "step_over" THEN "resume" ELSE command IN
           /\ d = currentAction /\ drawCallSession # NoTrace
           /\ \/ PassesBy(debugFrame[d], inDraw, drawCallSession, k)
              \/ inDraw = "resume" /\ drawCallSession.breakpoints = {}
<1> DEFINE inDraw == IF InTree(sessionState) /\ command = "step_over" THEN "resume" ELSE command
           r == DrawCall(inDraw, drawCallSession)
           result == At(currentAction, r)
           next   == step_to_next_draw_call(currentAction)
<1>1. /\ Debugging
      /\ IF result.ok \/ isDrawCallDebug THEN ShowResult(result)
         ELSE IF ~InTree(sessionState) THEN ShowTree(result)
         ELSE IF next.ok THEN ShowTree(next)
         ELSE ShowResult(next)
  BY DEF StepIn
<1>2. currentAction # 0 /\ currentAction \in DOMAIN debugFrame
  BY <1>1, DebuggingIs
<1>3. Len(debugFrame) \in Nat /\ DOMAIN debugFrame = 1 .. Len(debugFrame)
  BY FramesAre DEF DebugInv, FrameRight
<1>4. result.action = currentAction /\ result.session = r.session /\ result.ok = r.ok
  BY DEF At
<1>5. IF next.ok THEN next.action = currentAction + 1 /\ Pos(next.session) = 0
      ELSE next.action = 0 /\ next.session = NoTrace /\ currentAction = Len(debugFrame)
  BY <1>2, NextDrawCall
<1> HIDE DEF inDraw, result, next
<1>6. k \in Nat /\ k > 0
  <2>1. IsDraw(debugFrame[d])
    BY DrawsAre DEF DebugInv, FrameRight
  <2> QED BY <2>1, TracesAre
<1>7. d = currentAction /\ Pos(drawCallSession) < k /\ (~r.ok \/ k < Pos(r.session))
  <2> DEFINE N == Len(debugFrame)
  <2>0. d \in 1 .. N /\ currentAction \in 1 .. N /\ N \in Nat
    BY <1>2, <1>3
  <2> HIDE DEF N, r
  <2>1. CASE ShowResult(result) \/ ShowTree(result)
    <3>1. /\ IF d = currentAction \/ isDrawCallDebug THEN k > Pos(drawCallSession)
             ELSE d > currentAction
          /\ IF d = currentAction THEN k < Pos(r.session)
             ELSE ~isDrawCallDebug /\ (currentAction = 0 \/ d < currentAction)
      BY <1>4, <2>1, PassedShown
    <3>2. d = currentAction
      BY <1>2, <2>0, <3>1
    <3>3. k > Pos(drawCallSession) /\ k < Pos(r.session)
      BY <3>1, <3>2
    <3>4. Pos(drawCallSession) < k
      BY <3>3
    <3> QED BY <3>2, <3>3, <3>4
  <2>2. CASE (ShowResult(next) \/ ShowTree(next)) /\ ~result.ok
    <3>1. /\ IF d = currentAction \/ isDrawCallDebug THEN k > Pos(drawCallSession)
             ELSE d > currentAction
          /\ IF d = next.action THEN k < Pos(next.session)
             ELSE ~isDrawCallDebug /\ (next.action = 0 \/ d < next.action)
      BY <2>2, PassedShown
    <3>2. d = currentAction
      <4>1. CASE next.ok
        BY <1>5, <1>6, <2>0, <3>1, <4>1
      <4>2. CASE ~next.ok
        BY <1>5, <2>0, <3>1, <4>2 DEF N
      <4> QED BY <4>1, <4>2
    <3>3. k > Pos(drawCallSession)
      BY <3>1, <3>2
    <3> QED BY <1>4, <2>2, <3>2, <3>3
  <2> QED BY <1>1, <2>1, <2>2
<1>8. /\ drawCallSession # NoTrace
      /\ \/ PassesBy(debugFrame[d], inDraw, drawCallSession, k)
         \/ inDraw = "resume" /\ drawCallSession.breakpoints = {}
  BY <1>2, <1>7, PassedInDrawCall
<1> QED BY <1>7, <1>8 DEF inDraw

\* What is not passed by is a breakpoint.
LEMMA PassedByHasNone ==
    ASSUME DebugInv, currentAction # 0, drawCallSession # NoTrace, NEW command, NEW k,
           \/ PassesBy(debugFrame[currentAction], command, drawCallSession, k)
           \/ drawCallSession.breakpoints = {}
    PROVE  ~Hits(currentAction, k, currentAction, lineBreakpoints)
<1>1. drawCallSession.breakpoints = Breakpoints(currentAction, currentAction, lineBreakpoints)
  BY DEF DebugInv, SessionIsAt, SessionAt
<1> QED BY <1>1 DEF PassesBy, Hits

LEMMA StartDrawCallPassesNone ==
    ASSUME DebugInv, StartDrawCall, NEW d \in DOMAIN debugFrame, debugFrame[d] # NoTrace,
           NEW k \in DOMAIN debugFrame[d].trace, Passed(d, k), Enters(debugFrame[d], k)
    PROVE  FALSE
<1>1. PICK at \in DOMAIN debugFrame :
        LET s == IF debugFrame[at] = NoTrace THEN NoTrace ELSE NewSession(debugFrame[at])
        IN  ShowResult(At(IF s = NoTrace THEN 0 ELSE at, DrawCall("step_into", s)))
  BY DEF StartDrawCall
<1>2. /\ debugFrame \in DebugFrames /\ Len(debugFrame) \in Nat
      /\ DOMAIN debugFrame = 1 .. Len(debugFrame) /\ sessionState = NotStarted /\ isDrawCallDebug
      /\ d # 0
  BY FramesAre DEF DebugInv, FrameRight, StartDrawCall
<1>3. CASE debugFrame[at] = NoTrace
  <2> DEFINE to == At(0, DrawCall("step_into", NoTrace))
  <2>1. to.action = 0
    BY DEF At
  <2>2. ShowResult(to)
    BY <1>1, <1>3
  <2> HIDE DEF to
  <2>3. IF d = to.action THEN k < Pos(to.session)
        ELSE ~isDrawCallDebug /\ (to.action = 0 \/ d < to.action)
    BY <2>2, PassedShown
  <2> QED BY <1>2, <2>1, <2>3
<1>4. CASE debugFrame[at] # NoTrace
  <2> DEFINE s == NewSession(debugFrame[at])
             r == DrawCall("step_into", s)
             to == At(at, r)
             draw == debugFrame[at]
  <2>1. IsDraw(draw) /\ SessionRight(draw, s) /\ s # NoTrace /\ s.pos = 0 /\ currentAction = 0
    BY <1>2, <1>4, FirstSession
  <2>2. ShowResult(to)
    BY <1>1, <1>4, <2>1
  <2>3. Commanded(draw, "step_into", s, r)
    BY <2>1, DrawCallCommanded
  <2>4. to.action = at /\ to.session = r.session
    BY DEF At
  <2> HIDE DEF r, to, s
  <2>5. IF d = to.action THEN k < Pos(to.session)
        ELSE ~isDrawCallDebug /\ (to.action = 0 \/ d < to.action)
    BY <2>2, PassedShown
  <2>6. d = at /\ k < Pos(r.session)
    BY <1>2, <2>4, <2>5
  <2>7. SessionRight(draw, r.session) /\ r.session # NoTrace
    BY <2>3, SessionsAreTraces DEF Commanded
  <2>8. k \in 1 .. Len(draw.trace) /\ s.pos < k /\ k < r.session.pos
    <3>1. k \in 1 .. Len(draw.trace)
      BY <2>1, <2>6, TracesAre
    <3> QED BY <2>1, <2>6, <2>7, <3>1 DEF Pos
  <2>9. PassesBy(draw, "step_into", s, k)
    BY <2>3, <2>6, <2>8 DEF Commanded
  <2> QED BY <2>9 DEF PassesBy
<1> QED BY <1>3, <1>4

LEMMA StartFramePasses ==
    ASSUME DebugInv, StartFrame, NEW d \in DOMAIN debugFrame, debugFrame[d] # NoTrace,
           NEW k \in DOMAIN debugFrame[d].trace, Passed(d, k), Enters(debugFrame[d], k)
    PROVE  ~Hits(d, k, currentAction, lineBreakpoints)
<1> DEFINE debuggable == {e \in DOMAIN debugFrame : debugFrame[e] # NoTrace}
           first == Min(debuggable)
           to == resume_to_next_not_null_stack(first, StartDebug(first))
<1>1. ShowResult(to) /\ ~isDrawCallDebug /\ sessionState = NotStarted
  <2>1. debuggable # {}
    OBVIOUS
  <2> QED BY <2>1 DEF StartFrame
<1>2. /\ debugFrame \in DebugFrames /\ sourceBreakpoints \subseteq SourceBreakpoints
      /\ Len(debugFrame) \in Nat /\ DOMAIN debugFrame = 1 .. Len(debugFrame)
      /\ currentAction = 0
  <2>1. currentAction = 0
    BY <1>1 DEF DebugInv, ShownIs, NotStarted, Null, Stack
  <2> QED BY <2>1, FramesAre DEF DebugInv, FrameRight
<1>3. /\ first \in DOMAIN debugFrame /\ debugFrame[first] # NoTrace
      /\ \A e \in DOMAIN debugFrame : debugFrame[e] # NoTrace => first <= e
  BY <1>2, FirstDebuggable
<1> HIDE DEF first
<1> DEFINE s == StartDebug(first)
<1>4. /\ s # NoTrace /\ SessionRight(debugFrame[first], s) /\ Pos(s) = 0
      /\ s.breakpoints = map_breakpoints_from_sources(debugFrame[first], sourceBreakpoints)
      /\ s \in Sessions \cup {NoTrace}
  BY <1>2, <1>3, StartsDebug
<1> HIDE DEF s
<1>5. SessionAt(first, s, first, {})
  BY <1>3, <1>4 DEF SessionAt, Breakpoints
<1>6. Resumed(first, s, {}, resume_to_next_not_null_stack(first, s))
  BY <1>2, <1>3, <1>4, <1>5, ResumeResumes
<1>7. Resumed(first, s, {}, to)
  BY <1>6 DEF s
<1> HIDE DEF to
<1>8. IF d = to.action THEN k < Pos(to.session)
      ELSE ~isDrawCallDebug /\ (to.action = 0 \/ d < to.action)
  BY <1>1, PassedShown
<1>9. IF d = first THEN Pos(s) < k ELSE first < d
  <2>1. k \in Nat /\ k > 0
    <3>1. IsDraw(debugFrame[d])
      BY <1>2, DrawsAre
    <3> QED BY <3>1, TracesAre
  <2>2. first <= d /\ first \in Nat /\ d \in Nat
    BY <1>2, <1>3
  <2> QED BY <1>4, <2>1, <2>2
<1>10. to.action = 0 \/ d < to.action \/ (d = to.action /\ k < Pos(to.session))
  BY <1>8
<1>11. ~Hits(d, k, first, {})
  BY <1>7, <1>9, <1>10 DEF Resumed
<1>12. Breakpoints(d, first, {}) = Breakpoints(d, currentAction, lineBreakpoints)
  BY <1>2 DEF Breakpoints
<1> QED BY <1>11, <1>12 DEF Hits

LEMMA StepOutPasses ==
    ASSUME DebugInv, StepOut, NEW d \in DOMAIN debugFrame, debugFrame[d] # NoTrace,
           NEW k \in DOMAIN debugFrame[d].trace, Passed(d, k), Enters(debugFrame[d], k)
    PROVE  ~Hits(d, k, currentAction, lineBreakpoints)
<1> DEFINE r == DrawCall("step_out", drawCallSession)
           result == At(currentAction, r)
           ended  == At(currentAction, Done(drawCallSession, FALSE))
<1>1. Debugging /\ \/ ShowResult(ended)
                   \/ ShowResult(result) \/ ShowTree(result)
  BY DEF StepOut
<1>2. currentAction # 0 /\ currentAction \in DOMAIN debugFrame
  BY <1>1, DebuggingIs
<1>3. Len(debugFrame) \in Nat /\ DOMAIN debugFrame = 1 .. Len(debugFrame)
  BY FramesAre DEF DebugInv, FrameRight
<1>4. /\ result.action = currentAction /\ result.session = r.session
      /\ ended.action = currentAction /\ ended.session = drawCallSession
  BY DEF At, Done
<1> HIDE DEF ended, result
<1>5. PICK to : /\ ShowResult(to) \/ ShowTree(to)
                /\ to.action = currentAction /\ to.session \in {drawCallSession, r.session}
  BY <1>1, <1>4
<1>6. /\ IF d = currentAction \/ isDrawCallDebug THEN k > Pos(drawCallSession)
         ELSE d > currentAction
      /\ IF d = to.action THEN k < Pos(to.session)
         ELSE ~isDrawCallDebug /\ (to.action = 0 \/ d < to.action)
  BY <1>5, PassedShown
<1>7. d = currentAction /\ k > Pos(drawCallSession) /\ k < Pos(to.session)
  <2> DEFINE N == Len(debugFrame)
  <2>0. d \in 1 .. N /\ currentAction \in 1 .. N /\ N \in Nat
    BY <1>2, <1>3
  <2> HIDE DEF N
  <2>1. d = currentAction
    BY <1>2, <1>5, <1>6, <2>0
  <2> QED BY <1>5, <1>6, <2>1
<1>8. to.session # drawCallSession
  <2>1. SUFFICES ASSUME k > Pos(drawCallSession), k < Pos(drawCallSession) PROVE FALSE
    BY <1>7
  <2>2. k \in Nat
    <3>1. IsDraw(debugFrame[d])
      BY DrawsAre DEF DebugInv, FrameRight
    <3> QED BY <3>1, TracesAre
  <2>3. Pos(drawCallSession) \in Nat
    BY SessionsAssumption DEF DebugInv, SessionIsAt, Pos, Sessions
  <2> QED BY <2>1, <2>2, <2>3
<1>9. k < Pos(r.session) /\ Pos(drawCallSession) < k
  BY <1>5, <1>7, <1>8
<1>10. /\ drawCallSession # NoTrace
       /\ \/ PassesBy(debugFrame[currentAction], "step_out", drawCallSession, k)
          \/ "step_out" = "resume" /\ drawCallSession.breakpoints = {}
  BY <1>2, <1>7, <1>9, PassedInDrawCall
<1> QED BY <1>2, <1>7, <1>10, PassedByHasNone


LEMMA ResumePasses ==
    ASSUME DebugInv, Resume, NEW d \in DOMAIN debugFrame, debugFrame[d] # NoTrace,
           NEW k \in DOMAIN debugFrame[d].trace, Passed(d, k), Enters(debugFrame[d], k)
    PROVE  ~Hits(d, k, currentAction, lineBreakpoints)
<1>1. /\ Debugging
      /\ ShowResult(IF isDrawCallDebug THEN At(currentAction, DrawCall("resume", drawCallSession))
                    ELSE resume_to_next_not_null_stack(currentAction, drawCallSession))
  BY DEF Resume
<1>2. /\ currentAction # 0 /\ currentAction \in DOMAIN debugFrame
      /\ debugFrame \in DebugFrames /\ sourceBreakpoints \subseteq SourceBreakpoints
      /\ drawCallSession \in Sessions \cup {NoTrace}
      /\ SessionAt(currentAction, drawCallSession, currentAction, lineBreakpoints)
  <2>1. currentAction # 0 /\ currentAction \in DOMAIN debugFrame
    BY <1>1, DebuggingIs
  <2> QED BY <2>1 DEF DebugInv, FrameRight, SessionIsAt
<1>3. CASE isDrawCallDebug
  <2> DEFINE r == DrawCall("resume", drawCallSession)
             to == At(currentAction, r)
  <2>1. ShowResult(to) /\ to.action = currentAction /\ to.session = r.session
    BY <1>1, <1>3 DEF At
  <2> HIDE DEF to
  <2>2. /\ IF d = currentAction \/ isDrawCallDebug THEN k > Pos(drawCallSession)
           ELSE d > currentAction
        /\ IF d = to.action THEN k < Pos(to.session)
           ELSE ~isDrawCallDebug /\ (to.action = 0 \/ d < to.action)
    BY <2>1, PassedShown
  <2>3. d = currentAction /\ k > Pos(drawCallSession) /\ k < Pos(r.session)
    BY <1>3, <2>1, <2>2
  <2>4. Pos(drawCallSession) < k
    BY <2>3
  <2>5. /\ drawCallSession # NoTrace
        /\ \/ PassesBy(debugFrame[currentAction], "resume", drawCallSession, k)
           \/ "resume" = "resume" /\ drawCallSession.breakpoints = {}
    BY <1>2, <2>3, <2>4, PassedInDrawCall
  <2> QED BY <1>2, <2>3, <2>5, PassedByHasNone
<1>4. CASE ~isDrawCallDebug
  <2> DEFINE to == resume_to_next_not_null_stack(currentAction, drawCallSession)
  <2>1. ShowResult(to)
    BY <1>1, <1>4
  <2>2. Resumed(currentAction, drawCallSession, lineBreakpoints, to)
    BY <1>2, ResumeResumes
  <2> HIDE DEF to
  <2>3. /\ IF d = currentAction \/ isDrawCallDebug THEN k > Pos(drawCallSession)
           ELSE d > currentAction
        /\ IF d = to.action THEN k < Pos(to.session)
           ELSE ~isDrawCallDebug /\ (to.action = 0 \/ d < to.action)
    BY <2>1, PassedShown
  <2>4. IF d = currentAction THEN Pos(drawCallSession) < k ELSE currentAction < d
    BY <1>4, <2>3
  <2>5. to.action = 0 \/ d < to.action \/ (d = to.action /\ k < Pos(to.session))
    BY <2>3
  <2> QED BY <2>2, <2>4, <2>5 DEF Resumed
<1> QED BY <1>3, <1>4

\* What is resumed stops where there is a breakpoint.
LEMMA ResumeFinds ==
    ASSUME DebugInv, Resume, Debugging'
    PROVE  HasBreakpoint(drawCallSession.draw, drawCallSession.pos, sourceBreakpoints, lineBreakpoints)'
<1> DEFINE to == IF isDrawCallDebug THEN At(currentAction, DrawCall("resume", drawCallSession))
                 ELSE resume_to_next_not_null_stack(currentAction, drawCallSession)
<1>1. Debugging /\ ShowResult(to)
  BY DEF Resume
<1>2. /\ currentAction # 0 /\ currentAction \in DOMAIN debugFrame
      /\ debugFrame \in DebugFrames /\ sourceBreakpoints \subseteq SourceBreakpoints
      /\ drawCallSession \in Sessions \cup {NoTrace}
      /\ Len(debugFrame) \in Nat /\ DOMAIN debugFrame = 1 .. Len(debugFrame)
      /\ SessionAt(currentAction, drawCallSession, currentAction, lineBreakpoints)
  <2>1. currentAction # 0 /\ currentAction \in DOMAIN debugFrame
    BY <1>1, DebuggingIs
  <2> QED BY <2>1, FramesAre DEF DebugInv, FrameRight, SessionIsAt
<1>3. to.ok => /\ Stands(to) /\ Reaches(to)
               /\ Hits(to.action, to.session.pos, currentAction, lineBreakpoints)
  <2>1. CASE isDrawCallDebug
    <3> DEFINE r == DrawCall("resume", drawCallSession)
               draw == debugFrame[currentAction]
               made == At(currentAction, r)
    <3>1. /\ made.action = currentAction /\ Reaches(made) /\ (made.ok => Stands(made))
          /\ made.session = NoTrace => ~made.ok
      BY <1>2, InDrawCall
    <3>2. made.action = currentAction /\ made.session = r.session /\ made.ok = r.ok /\ to = made
      BY <2>1 DEF At
    <3> HIDE DEF made, to
    <3>3. ASSUME r.ok PROVE Hits(currentAction, r.session.pos, currentAction, lineBreakpoints)
      <4>1. drawCallSession # NoTrace
        BY <3>3 DEF DrawCall, Done
      <4>2. /\ draw # NoTrace /\ SessionRight(draw, drawCallSession)
            /\ drawCallSession.breakpoints = Breakpoints(currentAction, currentAction, lineBreakpoints)
        BY <1>2, <4>1 DEF SessionAt
      <4>3. IsDraw(draw)
        BY <1>2, <4>2, DrawsAre
      <4>4. Commanded(draw, "resume", drawCallSession, r)
        BY <4>1, <4>2, <4>3, DrawCallCommanded
      <4> HIDE DEF r
      <4>5. /\ SessionRight(draw, r.session) /\ r.session.breakpoints = drawCallSession.breakpoints
            /\ r.session.pos <= Len(draw.trace) /\ drawCallSession.pos < r.session.pos
            /\ AtBreakpoint(r.session)
        BY <3>3, <4>4 DEF Commanded, Stops
      <4>6. r.session.draw = draw /\ r.session.pos # 0 /\ Loc(r.session) = TraceLoc(draw, r.session.pos)
        <5>1. drawCallSession.pos \in Nat /\ r.session.pos \in Nat /\ r.session.draw = draw
          BY <4>2, <4>3, <4>5, SessionsAre
        <5> QED BY <4>3, <4>5, <5>1, LinesAre
      <4> QED BY <4>2, <4>5, <4>6 DEF AtBreakpoint, Hits, TraceLoc
    <3> QED BY <3>1, <3>2, <3>3
  <2>2. CASE ~isDrawCallDebug
    <3>1. to = resume_to_next_not_null_stack(currentAction, drawCallSession)
      BY <2>2
    <3>2. Resumed(currentAction, drawCallSession, lineBreakpoints, to)
      BY <1>2, <3>1, ResumeResumes
    <3> HIDE DEF to
    <3>3. Reaches(to) /\ (to.ok => Stands(to))
      BY <1>2, <3>2, ResumedReaches
    <3> QED BY <3>2, <3>3 DEF Resumed
  <2> QED BY <2>1, <2>2
<1> HIDE DEF to
<1>4. /\ currentAction' = to.action /\ drawCallSession' = to.session
      /\ sessionState' = IF to.ok THEN Stack(to.action, to.session.pos) ELSE Null
      /\ lineBreakpoints' = IF to.action = currentAction THEN lineBreakpoints ELSE {}
      /\ debugFrame' = debugFrame /\ sourceBreakpoints' = sourceBreakpoints
  BY <1>1 DEF ShowResult, update_session_state
<1>5. to.ok
  <2>1. sessionState'.state = "stack"
    BY DEF Debugging
  <2>2. Null.state = "null"
    BY DEF Null
  <2> QED BY <1>4, <2>1, <2>2
<1>6. /\ to.action # 0 /\ to.action \in DOMAIN debugFrame /\ to.session # NoTrace
      /\ to.session.pos \in DOMAIN debugFrame[to.action].trace
      /\ debugFrame[to.action] # NoTrace /\ to.session.draw = debugFrame[to.action]
  <2>1. to.action # 0 /\ to.session # NoTrace /\ to.action \in 0 .. Len(debugFrame)
        /\ to.session.pos \in DOMAIN debugFrame[to.action].trace
    BY <1>3, <1>5 DEF Stands, Reaches
  <2>2. to.action \in DOMAIN debugFrame
    <3> DEFINE N == Len(debugFrame)
    <3>1. to.action \in 0 .. N /\ to.action # 0 /\ DOMAIN debugFrame = 1 .. N /\ N \in Nat
      BY <1>2, <2>1
    <3> HIDE DEF N
    <3> QED BY <3>1
  <2>3. debugFrame[to.action] # NoTrace /\ SessionRight(debugFrame[to.action], to.session)
    BY <1>3, <1>5, <2>1 DEF Reaches, SessionAt
  <2> QED BY <2>1, <2>2, <2>3 DEF SessionRight
<1>7. HasBreakpoint(debugFrame[to.action], to.session.pos, sourceBreakpoints,
                    IF to.action = currentAction THEN lineBreakpoints ELSE {})
  BY <1>3, <1>5, <1>6, HitsAreBreakpoints
<1> QED BY <1>4, <1>6, <1>7

LEMMA BreakpointsPassNone ==
    ASSUME DebugInv, DebugInv', NEW sources, NEW lines, NEW breakpoints,
           SetBreakpoints(sources, lines, breakpoints),
           NEW d \in DOMAIN debugFrame, debugFrame[d] # NoTrace,
           NEW k \in DOMAIN debugFrame[d].trace, Passed(d, k)
    PROVE  FALSE
<1>1. /\ drawCallSession' = IF drawCallSession = NoTrace THEN NoTrace
                            ELSE [drawCallSession EXCEPT !.breakpoints = breakpoints]
      /\ currentAction' = currentAction /\ Debugging /\ debugFrame' = debugFrame
  BY DEF SetBreakpoints
<1>2. /\ currentAction # 0 /\ currentAction \in DOMAIN debugFrame
      /\ drawCallSession \in Sessions \cup {NoTrace}
  BY <1>1, DebuggingIs DEF DebugInv, SessionIsAt
<1>3. Pos(drawCallSession') = Pos(drawCallSession) /\ Pos(drawCallSession) \in Nat
  <2>1. CASE drawCallSession = NoTrace
    BY <1>1, <2>1 DEF Pos
  <2>2. CASE drawCallSession # NoTrace
    <3> DEFINE t == [drawCallSession EXCEPT !.breakpoints = breakpoints]
    <3>1. drawCallSession \in Sessions
      BY <1>2, <2>2
    <3>2. t.pos = drawCallSession.pos /\ drawCallSession.pos \in Nat
      BY <3>1 DEF Sessions
    <3>3. debugFrame[currentAction] # NoTrace
      BY <1>2, <2>2 DEF DebugInv, SessionIsAt, SessionAt
    <3>4. drawCallSession' # NoTrace
      BY <1>1, <1>2, <3>3 DEF DebugInv, SessionIsAt, SessionAt
    <3> QED BY <1>1, <2>2, <3>2, <3>4 DEF Pos
  <2> QED BY <2>1, <2>2
<1>4. k \in Nat /\ d \in Nat /\ currentAction \in Nat
  <2>1. IsDraw(debugFrame[d])
    BY DrawsAre DEF DebugInv, FrameRight
  <2> QED BY <1>2, <2>1, TracesAre, FramesAre DEF DebugInv, FrameRight
<1>5. d = currentAction
  BY <1>1, <1>2, <1>4 DEF Passed
<1> QED BY <1>1, <1>3, <1>4, <1>5 DEF Passed

\* No command passes a breakpoint of the user, step_into passes no line, and step_over
\* none that is not in a function called from where it was; what resume finds is a
\* breakpoint (do_source_step, the loops of the commands, step_to_next_draw_call).
THEOREM CommandsStopInTimeHolds == DebugSpec => CommandsStopInTime
<1> DEFINE stopsInTime ==
             /\ \A d \in {d \in DOMAIN debugFrame : HasTrace(debugFrame[d])} :
                LET draw  == debugFrame[d]
                    lines == IF d = currentAction THEN lineBreakpoints ELSE {}
                IN  \A k \in DOMAIN draw.trace :
                       Passed(d, k) /\ Enters(draw, k) =>
                           /\ ~HasBreakpoint(draw, k, sourceBreakpoints, lines)
                           /\ ~StepInto
                           /\ StepOver /\ ~InTree(sessionState)
                              => Depth(draw, k) > drawCallSession.callstackSize
             /\ Resume /\ Debugging' =>
                    HasBreakpoint(drawCallSession.draw, drawCallSession.pos,
                                  sourceBreakpoints, lineBreakpoints)'
<1>1. ASSUME DebugInv, DebugInv', DebugNext PROVE stopsInTime
  <2>1. ASSUME NEW d \in DOMAIN debugFrame, debugFrame[d] # NoTrace,
               NEW k \in DOMAIN debugFrame[d].trace, Passed(d, k), Enters(debugFrame[d], k)
        PROVE  /\ ~Hits(d, k, currentAction, lineBreakpoints)
               /\ ~StepInto
               /\ StepOver /\ ~InTree(sessionState)
                  => Depth(debugFrame[d], k) > drawCallSession.callstackSize
    <3>1. ASSUME NEW command, StepIn(command) PROVE ~Hits(d, k, currentAction, lineBreakpoints)
      <4>1. Debugging
        BY <3>1 DEF StepIn
      <4>2. currentAction # 0
        BY <1>1, <4>1, DebuggingIs
      <4> DEFINE inDraw == IF InTree(sessionState) /\ command = "step_over" THEN "resume" ELSE command
      <4>3. /\ d = currentAction /\ drawCallSession # NoTrace
            /\ \/ PassesBy(debugFrame[d], inDraw, drawCallSession, k)
               \/ inDraw = "resume" /\ drawCallSession.breakpoints = {}
        BY <1>1, <2>1, <3>1, StepInPasses
      <4> HIDE DEF inDraw
      <4> QED BY <1>1, <4>2, <4>3, PassedByHasNone
    <3>2. ~Hits(d, k, currentAction, lineBreakpoints)
      <4>1. CASE StartDrawCall
        BY <1>1, <2>1, <4>1, StartDrawCallPassesNone
      <4>2. CASE StartFrame
        BY <1>1, <2>1, <4>2, StartFramePasses
      <4>3. CASE StepInto \/ StepOver
        BY <3>1, <4>3 DEF StepInto, StepOver
      <4>4. CASE StepOut
        BY <1>1, <2>1, <4>4, StepOutPasses
      <4>5. CASE Resume
        BY <1>1, <2>1, <4>5, ResumePasses
      <4>6. ASSUME NEW sources, NEW lines, NEW breakpoints,
                   SetBreakpoints(sources, lines, breakpoints)
            PROVE  FALSE
        BY <1>1, <2>1, <4>6, BreakpointsPassNone
      <4>7. CASE \E b \in SourceBreakpoints : AddSourceBreakpoint(b) \/ RemoveSourceBreakpoint(b)
        BY <4>6, <4>7 DEF AddSourceBreakpoint, RemoveSourceBreakpoint
      <4>8. CASE \E bp \in TraceLines(drawCallSession.draw) :
                    AddLineBreakpoint(bp) \/ RemoveLineBreakpoint(bp)
        BY <4>6, <4>8 DEF AddLineBreakpoint, RemoveLineBreakpoint
      <4> QED BY <1>1, <4>1, <4>2, <4>3, <4>4, <4>5, <4>7, <4>8 DEF DebugNext
    <3>3. ~StepInto
      <4>1. SUFFICES ASSUME StepIn("step_into") PROVE FALSE
        BY DEF StepInto
      <4>2. \/ PassesBy(debugFrame[d], "step_into", drawCallSession, k)
            \/ "step_into" = "resume"
        BY <1>1, <2>1, <4>1, StepInPasses
      <4> QED BY <4>2 DEF PassesBy
    <3>4. ASSUME StepOver, ~InTree(sessionState)
          PROVE  Depth(debugFrame[d], k) > drawCallSession.callstackSize
      <4>1. StepIn("step_over")
        BY <3>4 DEF StepOver
      <4>2. \/ PassesBy(debugFrame[d], "step_over", drawCallSession, k)
            \/ "step_over" = "resume"
        BY <1>1, <2>1, <3>4, <4>1, StepInPasses
      <4> QED BY <4>2 DEF PassesBy
    <3> QED BY <3>2, <3>3, <3>4
  <2>2. ASSUME NEW d \in DOMAIN debugFrame, debugFrame[d] # NoTrace,
               NEW k \in DOMAIN debugFrame[d].trace, Passed(d, k), Enters(debugFrame[d], k)
        PROVE  ~HasBreakpoint(debugFrame[d], k, sourceBreakpoints,
                              IF d = currentAction THEN lineBreakpoints ELSE {})
    <3>1. ~Hits(d, k, currentAction, lineBreakpoints)
      BY <2>1, <2>2
    <3> QED BY <1>1, <2>2, <3>1, HitsAreBreakpoints
  <2>3. Resume /\ Debugging' =>
           HasBreakpoint(drawCallSession.draw, drawCallSession.pos,
                         sourceBreakpoints, lineBreakpoints)'
    BY <1>1, ResumeFinds
  <2> QED BY <2>1, <2>2, <2>3 DEF HasTrace
<1>2. ASSUME DebugInv, DebugInv', [DebugNext]_debugVars PROVE [stopsInTime]_debugVars
  <2> HIDE DEF stopsInTime
  <2> QED BY <1>1, <1>2
<1>3. CommandsStopInTime <=> [][stopsInTime]_debugVars
  BY DEF CommandsStopInTime
<1> HIDE DEF stopsInTime
<1> QED BY <1>2, <1>3, DebugInvHolds, PTL DEF DebugSpec
=============================================================================
