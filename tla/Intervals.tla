------------------------------- MODULE Intervals ------------------------------
(***************************************************************************)
(* struct Intervals (renderdoc/core/intervals.h): values of disjoint       *)
(* intervals, kept as a map from the start of each interval to its value.  *)
(* The driver composes the references to ranges of memory with it.         *)
(*                                                                         *)
(* update and merge walk the map they change; one iteration of their loops *)
(* is one step.                                                            *)
(***************************************************************************)
EXTENDS FrameRefTypes, FiniteSets

CONSTANTS
    UINT64_MAX,   \* the end of the last interval
    Values        \* what is stored, closed under comp

IntervalPoints == 0 .. UINT64_MAX - 1

ASSUME IntervalsAssumption ==
    /\ UINT64_MAX \in Nat \ {0}
    /\ eFrameRef_None \in Values /\ Values \subseteq FrameRefType
    /\ \A v, w \in Values : ComposeFrameRefs(v, w) \in Values

comp(v, w) == ComposeFrameRefs(v, w)

VARIABLES
    StartPoints,   \* the map
    i, j,          \* the intervals at hand, by their start points
    call,          \* the function that runs, with its arguments
    expected       \* what each point is to have when it returns

intervalsVars == <<StartPoints, i, j, call, expected>>

Idle == [name |-> "none"]

-----------------------------------------------------------------------------
(* Intervals of a map m.  An iterator is a start point, UINT64_MAX at end. *)

finish(m, p) == CHOOSE q \in DOMAIN m \cup {UINT64_MAX} :
                    q > p /\ \A r \in DOMAIN m : r > p => q <= r

find(m, x) == CHOOSE p \in DOMAIN m : p <= x /\ \A q \in DOMAIN m : q <= x => q <= p

ValueAt(m, x) == m[find(m, x)]

split(m, x) ==
    IF x \in DOMAIN m THEN m
    ELSE [p \in DOMAIN m \cup {x} |-> IF p = x THEN ValueAt(m, x) ELSE m[p]]

\* The interval to the left of p has the same value.
MergesLeft(m, p) == p # 0 /\ m[find(m, p - 1)] = m[p]

mergeLeft(m, p) == IF MergesLeft(m, p) THEN [q \in DOMAIN m \ {p} |-> m[q]] ELSE m

\* As Composed, with the arguments of comp swapped.
ComposedSwapped(m, p, bound, val) ==
    LET parted == IF finish(m, p) > bound THEN split(m, bound) ELSE m
    IN mergeLeft([parted EXCEPT ![p] = comp(val, @)], p)

\* One iteration: the part of i up to bound is composed with val.
Composed(m, p, bound, val) ==
    LET parted == IF finish(m, p) > bound THEN split(m, bound) ELSE m
    IN mergeLeft([parted EXCEPT ![p] = comp(@, val)], p)

\* The interval that follows, where the loops go on: i++ after the interval,
\* merged or not, that ends there.
Following(m, p, bound) == IF finish(m, p) > bound THEN bound ELSE finish(m, p)

-----------------------------------------------------------------------------
(* update.                                                                 *)

Update(start, end, val) ==
    /\ call = Idle
    /\ IF end <= start THEN UNCHANGED intervalsVars
       ELSE /\ StartPoints' = split(StartPoints, start)
            /\ i' = start
            /\ call' = [name |-> "update", finish |-> end, val |-> val]
            /\ expected' = [x \in IntervalPoints |->
                               IF x \in start .. end - 1 THEN comp(expected[x], val)
                               ELSE expected[x]]
            /\ UNCHANGED j

UpdateLoop ==
    /\ call.name = "update" /\ i # UINT64_MAX /\ i < call.finish
    /\ StartPoints' = Composed(StartPoints, i, call.finish, call.val)
    /\ i' = Following(StartPoints, i, call.finish)
    /\ UNCHANGED <<j, call, expected>>

UpdateReturn ==
    /\ call.name = "update" /\ (i = UINT64_MAX \/ i >= call.finish)
    /\ StartPoints' = IF i = UINT64_MAX THEN StartPoints ELSE mergeLeft(StartPoints, i)
    /\ call' = Idle /\ i' = 0
    /\ UNCHANGED <<j, expected>>

-----------------------------------------------------------------------------
(* merge.                                                                  *)

Merge(other) ==
    /\ call = Idle
    /\ i' = 0 /\ j' = 0
    /\ call' = [name |-> "merge", other |-> other]
    /\ expected' = [x \in IntervalPoints |-> comp(expected[x], ValueAt(other, x))]
    /\ UNCHANGED StartPoints

\* As MergeLoop, where j stays behind when i starts where it ends.
MergeLoopBehind ==
    /\ call.name = "merge"
    /\ LET end == finish(call.other, j)
           following == Following(StartPoints, i, end)
           returns == following = UINT64_MAX
       IN /\ StartPoints' = Composed(StartPoints, i, end, call.other[j])
          /\ i' = IF returns THEN 0 ELSE following
          /\ j' = IF returns THEN 0 ELSE IF following > end THEN end ELSE j
          /\ call' = IF returns THEN Idle ELSE call
    /\ UNCHANGED expected

MergeLoop ==
    /\ call.name = "merge"
    /\ LET end == finish(call.other, j)
           following == Following(StartPoints, i, end)
           returns == following = UINT64_MAX
       IN /\ StartPoints' = Composed(StartPoints, i, end, call.other[j])
          /\ i' = IF returns THEN 0 ELSE following
          /\ j' = IF returns THEN 0 ELSE IF following >= end THEN end ELSE j
          /\ call' = IF returns THEN Idle ELSE call
    /\ UNCHANGED expected

-----------------------------------------------------------------------------
\* The maps that merge is given: those of any values, without equal neighbours.
Maps == UNION {{m \in [{0} \cup points -> Values] : \A p \in points : ~MergesLeft(m, p)}
               : points \in SUBSET (IntervalPoints \ {0})}

IntervalsInit ==
    /\ StartPoints = [p \in {0} |-> eFrameRef_None]
    /\ expected = [x \in IntervalPoints |-> eFrameRef_None]
    /\ i = 0 /\ j = 0 /\ call = Idle

IntervalsNext ==
    \/ \E start \in IntervalPoints, end \in 0 .. UINT64_MAX, val \in Values :
           Update(start, end, val)
    \/ UpdateLoop \/ UpdateReturn
    \/ \E other \in Maps : Merge(other)
    \/ MergeLoop

IntervalsSpec == IntervalsInit /\ [][IntervalsNext]_intervalsVars

-----------------------------------------------------------------------------
\* The loop invariant of merge stated in the code (intervals.h:258): i is
\* contained in the interval j of the other map.
MergeLoopInvariant ==
    call.name = "merge" => i >= j /\ i < finish(call.other, j)

\* Types; the iterators are at intervals that exist whenever they are used.
IntervalsTypeOK ==
    /\ 0 \in DOMAIN StartPoints /\ DOMAIN StartPoints \subseteq IntervalPoints
    /\ StartPoints \in [DOMAIN StartPoints -> Values]
    /\ expected \in [IntervalPoints -> Values]
    /\ i \in DOMAIN StartPoints \cup {UINT64_MAX}
    /\ call.name = "merge" => i # UINT64_MAX /\ j \in DOMAIN call.other
    /\ MergeLoopInvariant

\* Between calls every point has the value that composing all updates and
\* merges point by point gives: splitting and merging intervals, in whatever
\* way they overlap those of the argument, changes no other point and composes
\* none twice.
ValuesAreComposed ==
    call = Idle => \A x \in IntervalPoints : ValueAt(StartPoints, x) = expected[x]

\* Between calls no two neighbouring intervals have the same value: the map
\* does not grow with the number of updates.
NoNeedlessIntervals ==
    call = Idle => \A p \in DOMAIN StartPoints : ~MergesLeft(StartPoints, p)

\* The map is the point by point composition in its shortest form.
IntervalsComposed == ValuesAreComposed /\ NoNeedlessIntervals
=============================================================================
