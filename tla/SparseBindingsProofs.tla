-------------------------- MODULE SparseBindingsProofs -------------------------
(***************************************************************************)
(* Page tables of sparse resources, for any memory, size of pages, layouts *)
(* and numbers of calls.                                                   *)
(*                                                                         *)
(* The mapping of a subresource under its operations: splitting and        *)
(* simplifying change no page, and binding changes the pages it is given   *)
(* and no other.                                                           *)
(*                                                                         *)
(* On Vulkan a table says of every page what the application bound it to,  *)
(* and a replay binds the same.  The lemmas say which pages the boxes of   *)
(* an image and the ranges of bytes of its tails are (ImageBoxIs,          *)
(* SomeTailsAre, TheTailIs) and what the runs of a replay have (RunsRight, *)
(* BindPageIs); they hold for every layout.  The inductive invariant       *)
(* VulkanTables has what a table looks like, that it Says what is bound,   *)
(* and that no page of memory is bound twice: the code would join pages    *)
(* that are like the second of a run.                                      *)
(*                                                                         *)
(* On D3D12 the pages of all subresources have an order, with the tail of  *)
(* a slice after its other mips.  PositionsAre says where in it those of a *)
(* subresource are (TilesAt), WrappedRangeBindsTiles that a call for a     *)
(* number of pages binds the ones that follow.  A call of                  *)
(* UpdateTileMappings is a sequence of pieces of tiles (IsPiece) that meet *)
(* their pages (AtPage, PieceBinds): UpdateBindsTiles.                     *)
(***************************************************************************)
EXTENDS SparseBindings, WellFoundedInduction, NaturalsInduction, FiniteSetTheorems, TLAPS

-----------------------------------------------------------------------------
(* Numbers.                                                                *)

LEMMA LeastOfTwo ==
    ASSUME NEW a \in Int, NEW b \in Int
    PROVE  Min({a, b}) = IF a <= b THEN a ELSE b
BY DEF Min

LEMMA GreatestOfTwo ==
    ASSUME NEW a \in Int, NEW b \in Int
    PROVE  Max({a, b}) = IF a >= b THEN a ELSE b
BY DEF Max

LEMMA Division ==
    ASSUME NEW a \in Nat, NEW b \in Nat \ {0}
    PROVE  /\ a \div b \in Nat /\ a % b \in Nat /\ a % b < b
           /\ a = (a \div b) * b + (a % b)
OBVIOUS

LEMMA DivisionIs ==
    ASSUME NEW b \in Nat \ {0}, NEW q \in Nat, NEW r \in Nat, r < b
    PROVE  (q * b + r) \div b = q /\ (q * b + r) % b = r
OBVIOUS

\* Places in rows of equal lengths.
LEMMA PlacesDiffer ==
    ASSUME NEW width \in Nat, NEW x \in Nat, NEW u \in Nat, x < width, u < width,
           NEW y \in Nat, NEW v \in Nat, y * width + x = v * width + u
    PROVE  x = u /\ y = v
BY DivisionIs

LEMMA PlacesOrdered ==
    ASSUME NEW width \in Nat, NEW x \in Nat, NEW u \in Nat, x < width, u < width,
           NEW y \in Nat, NEW v \in Nat
    PROVE  (y * width + x <= v * width + u) <=> (y < v \/ (y = v /\ x <= u))
<1>1. CASE y = v
  BY <1>1
<1>2. CASE y < v
  <2>1. PICK d \in Nat : v = y + 1 + d
    BY <1>2
  <2>2. v * width = y * width + width + d * width /\ d * width \in Nat /\ y * width \in Nat
    BY <2>1
  <2> QED BY <1>2, <2>2
<1>3. CASE v < y
  <2>1. PICK d \in Nat : y = v + 1 + d
    BY <1>3
  <2>2. y * width = v * width + width + d * width /\ d * width \in Nat /\ v * width \in Nat
    BY <2>1
  <2> QED BY <1>3, <2>2
<1> QED BY <1>1, <1>2, <1>3

\* The code takes the first.
LEMMA LeastNatural ==
    ASSUME NEW T \in SUBSET Nat, T # {}
    PROVE  \E n \in T : \A k \in T : n <= k
<1>1. PICK n \in T : \A k \in T : <<k, n>> \notin OpToRel(<, Nat)
  BY WFMin, NatLessThanWellFounded
<1>2. ASSUME NEW k \in T PROVE n <= k
  <2>1. k \in Nat /\ n \in Nat /\ ~(k < n)
    BY <1>1 DEF OpToRel
  <2> QED BY <2>1
<1> QED BY <1>2

LEMMA LeastIs ==
    ASSUME NEW T \in SUBSET Nat, T # {}
    PROVE  Min(T) \in T /\ \A k \in T : Min(T) <= k
BY LeastNatural DEF Min

LEMMA Counting ==
    ASSUME NEW N \in Nat, NEW T, 0 \in T, \A n \in 1 .. N : n - 1 \in T => n \in T
    PROVE  \A n \in 0 .. N : n \in T
<1> DEFINE U == {n \in 0 .. N : n \notin T}
<1>1. SUFFICES ASSUME U # {} PROVE FALSE
  BY DEF U
<1>2. U \in SUBSET Nat
  OBVIOUS
<1>3. PICK least \in U : \A n \in U : least <= n
  BY <1>1, <1>2, LeastNatural
<1>4. least \in 1 .. N /\ least - 1 \in 0 .. N /\ ~(least <= least - 1)
  OBVIOUS
<1>5. least - 1 \in T
  BY <1>3, <1>4
<1> QED BY <1>4, <1>5

\* What N iterations make of the base; the n-th is step[n].
Iterated(f, S, base, N, step) ==
    f \in [0 .. N -> S] /\ f = [n \in 0 .. N |-> IF n = 0 THEN base ELSE step[n][f[n - 1]]]

\* A loop of N iterations is defined.
LEMMA Iterating ==
    ASSUME NEW S, NEW base \in S, NEW N \in Nat, NEW step \in [1 .. N -> [S -> S]]
    PROVE  \E f : Iterated(f, S, base, N, step)
<1> DEFINE defined(m) == \E f \in [0 .. m -> S] :
                            f[0] = base /\ \A n \in 1 .. m : f[n] = step[n][f[n - 1]]
           T == {m \in 0 .. N : defined(m)}
<1>1. 0 \in T
  <2> DEFINE f == [n \in 0 .. 0 |-> base]
  <2>1. f \in [0 .. 0 -> S] /\ f[0] = base /\ 1 .. 0 = {}
    OBVIOUS
  <2>2. defined(0)
    BY <2>1
  <2> HIDE DEF defined
  <2> QED BY <2>2
<1>2. ASSUME NEW m \in 1 .. N, m - 1 \in T PROVE m \in T
  <2>1. PICK f \in [0 .. m - 1 -> S] : f[0] = base /\ \A n \in 1 .. m - 1 : f[n] = step[n][f[n - 1]]
    BY <1>2
  <2> DEFINE g == [n \in 0 .. m |-> IF n = m THEN step[m][f[m - 1]] ELSE f[n]]
  <2>2. m - 1 \in 0 .. m - 1 /\ step[m][f[m - 1]] \in S
    OBVIOUS
  <2>3. \A n \in 0 .. m : n # m => n \in 0 .. m - 1
    OBVIOUS
  <2>4. g \in [0 .. m -> S]
    BY <2>2, <2>3
  <2>5. g[0] = base
    BY <2>1
  <2>6. ASSUME NEW n \in 1 .. m PROVE g[n] = step[n][g[n - 1]]
    <3>1. n - 1 \in 0 .. m /\ n \in 0 .. m /\ n - 1 # m
      OBVIOUS
    <3>2. g[n - 1] = f[n - 1]
      BY <3>1
    <3>3. CASE n = m
      BY <3>1, <3>2, <3>3
    <3>4. CASE n # m
      BY <3>4, <2>1, <3>1, <3>2
    <3> QED BY <3>3, <3>4
  <2> HIDE DEF g
  <2>7. defined(m)
    BY <2>4, <2>5, <2>6
  <2> QED BY <2>7
<1>3. N \in T
  <2>1. \A n \in 0 .. N : n \in T
    BY <1>1, <1>2, Counting
  <2> HIDE DEF T
  <2> QED BY <2>1
<1>4. PICK f \in [0 .. N -> S] : f[0] = base /\ \A n \in 1 .. N : f[n] = step[n][f[n - 1]]
  BY <1>3
<1>5. f = [n \in 0 .. N |-> IF n = 0 THEN base ELSE step[n][f[n - 1]]]
  BY <1>4
<1> QED BY <1>5 DEF Iterated

-----------------------------------------------------------------------------
(* PageMappings.                                                           *)

PageOf(M) == [memory : M \cup {NoHeap}, offset : Nat]

\* A mapping of n pages of the memories M: single, or parted and with memory.
Parted(pages) == [single |-> NoPage, reused |-> FALSE, pages |-> pages]

Partings(M, n) == {pages \in [0 .. n - 1 -> PageOf(M)] : \E idx \in 0 .. n - 1 : pages[idx].memory # NoHeap}

Mapping(M, n) == {SingleMapping(page, reused) : page \in PageOf(M), reused \in BOOLEAN}
                 \cup {Parted(pages) : pages \in Partings(M, n)}

LEMMA SingleIs ==
    ASSUME NEW page, NEW reused
    PROVE  /\ hasSingleMapping(SingleMapping(page, reused))
           /\ SingleMapping(page, reused).single = page /\ SingleMapping(page, reused).reused = reused
           /\ SingleMapping(page, reused).pages = <<>>
BY DEF SingleMapping, hasSingleMapping

LEMMA PartedIs ==
    ASSUME NEW n \in Nat \ {0}, NEW pages, DOMAIN pages = 0 .. n - 1
    PROVE  /\ ~hasSingleMapping(Parted(pages)) /\ Parted(pages).pages = pages
           /\ Parted(pages).single = NoPage /\ ~Parted(pages).reused
           /\ \A idx : getPage(Parted(pages), idx) = pages[idx]
<1>1. 0 \in 0 .. n - 1
  OBVIOUS
<1> QED BY <1>1 DEF Parted, hasSingleMapping, getPage

LEMMA PagesReplaced ==
    ASSUME NEW A, NEW B, NEW C, NEW r \in [single : A, reused : B, pages : C], NEW f
    PROVE  [r EXCEPT !.pages = f] = [single |-> r.single, reused |-> r.reused, pages |-> f]
OBVIOUS

LEMMA PartedExcept ==
    ASSUME NEW pages, NEW f
    PROVE  [Parted(pages) EXCEPT !.pages = f] = Parted(f)
<1> DEFINE no == FALSE
<1>1. [single |-> NoPage, reused |-> no, pages |-> pages]
          \in [single : {NoPage}, reused : {no}, pages : {pages}]
  OBVIOUS
<1>2. [[single |-> NoPage, reused |-> no, pages |-> pages] EXCEPT !.pages = f]
        = [single |-> NoPage, reused |-> no, pages |-> f]
  <2> HIDE DEF no
  <2> QED BY <1>1, PagesReplaced
<1> QED BY <1>2, Zenon DEF Parted

LEMMA SingleIn ==
    ASSUME NEW M, NEW n, NEW page \in PageOf(M), NEW reused \in BOOLEAN
    PROVE  SingleMapping(page, reused) \in Mapping(M, n)
BY DEF Mapping

LEMMA NoPageIs == /\ NoPage.memory = NoHeap /\ NoPage.offset = 0
                  /\ \A M : NoPage \in PageOf(M)
BY DEF NoPage, Page, PageOf

\* What getPage finds in a single mapping.
LEMMA PageOfSingle ==
    ASSUME NEW M, NEW page \in PageOf(M), NEW reused \in BOOLEAN, NEW idx \in Nat
    PROVE  /\ getPage(SingleMapping(page, reused), idx) \in PageOf(M)
           /\ getPage(SingleMapping(page, reused), idx).memory = page.memory
           /\ getPage(SingleMapping(page, reused), idx) =
                 IF reused THEN page ELSE [page EXCEPT !.offset = @ + idx * PageBytes]
           /\ SamePage(getPage(SingleMapping(page, reused), idx),
                       IF reused THEN page ELSE PagesOn(page, idx))
BY PageBytesAssumption, SingleIs DEF PageOf, getPage, SamePage, PagesOn

LEMMA PagesOnType ==
    ASSUME NEW M, NEW page \in PageOf(M), NEW n \in Nat
    PROVE  PagesOn(page, n) \in PageOf(M) /\ PagesOn(page, n).memory = page.memory
BY PageBytesAssumption DEF PageOf, PagesOn

LEMMA GetPageType ==
    ASSUME NEW M, NEW n \in Nat \ {0}, NEW m \in Mapping(M, n), NEW idx \in 0 .. n - 1
    PROVE  getPage(m, idx) \in PageOf(M)
BY PageOfSingle, PartedIs DEF Partings, Mapping

(* A mapping that is parted (createPages) has a page for each index, and the *)
(* same one as before.                                                      *)
THEOREM SplitKeepsPages ==
    ASSUME NEW M, NEW n \in Nat \ {0}, NEW m \in Mapping(M, n)
    PROVE  \E pages \in [0 .. n - 1 -> PageOf(M)] :
              /\ createPages(m, n) = Parted(pages)
              /\ \A idx \in 0 .. n - 1 : SamePage(pages[idx], getPage(m, idx))
<1>1. ASSUME NEW page \in PageOf(M), NEW reused \in BOOLEAN, m = SingleMapping(page, reused)
      PROVE  \E pages \in [0 .. n - 1 -> PageOf(M)] :
              /\ createPages(m, n) = Parted(pages)
              /\ \A idx \in 0 .. n - 1 : SamePage(pages[idx], getPage(m, idx))
  <2> DEFINE pages == [idx \in 0 .. n - 1 |->
                         IF m.reused \/ m.single.memory = NoHeap THEN m.single ELSE getPage(m, idx)]
  <2>1. createPages(m, n) = Parted(pages)
    BY <1>1, SingleIs DEF createPages, Parted
  <2>2. \A idx \in 0 .. n - 1 : pages[idx] \in PageOf(M) /\ SamePage(pages[idx], getPage(m, idx))
    BY <1>1, GetPageType, SingleIs, PageOfSingle DEF SamePage
  <2>3. pages \in [0 .. n - 1 -> PageOf(M)]
    BY <2>2
  <2> HIDE DEF pages
  <2> QED BY <2>1, <2>2, <2>3
<1>2. ASSUME NEW pages \in Partings(M, n), m = Parted(pages)
      PROVE  /\ createPages(m, n) = Parted(pages)
             /\ \A idx \in 0 .. n - 1 : SamePage(pages[idx], getPage(m, idx))
  BY <1>2, PartedIs DEF Partings, createPages, SamePage
<1> QED BY <1>1, <1>2 DEF Mapping, Partings

(* A parted mapping without memory is made single again (simplifyUnmapped),  *)
(* and no page changes.                                                     *)
THEOREM SimplifyKeepsPages ==
    ASSUME NEW M, NEW n \in Nat \ {0}, NEW pages \in [0 .. n - 1 -> PageOf(M)]
    PROVE  /\ simplifyUnmapped(Parted(pages)) \in Mapping(M, n)
           /\ \A idx \in 0 .. n - 1 : SamePage(getPage(simplifyUnmapped(Parted(pages)), idx), pages[idx])
<1>1. CASE \E idx \in 0 .. n - 1 : pages[idx].memory # NoHeap
  BY <1>1, PartedIs DEF simplifyUnmapped, Mapping, Partings, SamePage
<1>2. CASE ~\E idx \in 0 .. n - 1 : pages[idx].memory # NoHeap
  <2>1. simplifyUnmapped(Parted(pages)) = SingleMapping(NoPage, FALSE)
    <3>1. /\ ~hasSingleMapping(Parted(pages))
          /\ ~\E idx \in DOMAIN Parted(pages).pages : Parted(pages).pages[idx].memory # NoHeap
      BY <1>2, PartedIs
    <3> QED BY <3>1, Zenon DEF simplifyUnmapped, Unmapped
  <2>2. SingleMapping(NoPage, FALSE) \in Mapping(M, n)
    <3>1. NoPage \in PageOf(M)
      BY NoPageIs
    <3> QED BY <3>1, SingleIn, FALSE \in BOOLEAN, Zenon
  <2>3. \A idx \in 0 .. n - 1 : getPage(SingleMapping(NoPage, FALSE), idx).memory = NoHeap
    <3>1. NoPage \in PageOf(M) /\ NoPage.memory = NoHeap
      BY NoPageIs
    <3>2. ASSUME NEW reused \in BOOLEAN, NEW idx \in 0 .. n - 1
          PROVE  getPage(SingleMapping(NoPage, reused), idx).memory = NoHeap
      BY <3>1, PageOfSingle
    <3> QED BY <3>2, FALSE \in BOOLEAN, Zenon
  <2> QED BY <1>2, <2>1, <2>2, <2>3 DEF SamePage
<1> QED BY <1>1, <1>2

(* A binding of the pages DOMAIN nth (the loops over pages of              *)
(* sparse_page_table.cpp) changes these as it should, whatever the mapping *)
(* looked like and looks like afterwards, and leaves the others alone.     *)
THEOREM BindPagesBindsThese ==
    ASSUME NEW M, NEW n \in Nat \ {0}, NEW m \in Mapping(M, n),
           NEW S \in SUBSET (0 .. n - 1), NEW nth \in [S -> Nat],
           NEW page \in PageOf(M), NEW reused \in BOOLEAN
    PROVE  LET after == BindPages(m, n, nth, page, reused) IN
           /\ after \in Mapping(M, n)
           /\ \A idx \in 0 .. n - 1 :
                SamePage(getPage(after, idx),
                         IF idx \notin S THEN getPage(m, idx)
                         ELSE IF reused THEN page ELSE PagesOn(page, nth[idx]))
<1>1. PICK before \in [0 .. n - 1 -> PageOf(M)] :
          /\ createPages(m, n) = Parted(before)
          /\ \A idx \in 0 .. n - 1 : SamePage(before[idx], getPage(m, idx))
  BY SplitKeepsPages
<1> DEFINE pages == [idx \in 0 .. n - 1 |->
                       IF idx \notin S THEN before[idx]
                       ELSE IF reused THEN page ELSE PagesOn(page, nth[idx])]
<1>2. BindPages(m, n, nth, page, reused) = simplifyUnmapped(Parted(pages))
  <2>1. DOMAIN nth = S /\ DOMAIN before = 0 .. n - 1 /\ Parted(before).pages = before
    BY PartedIs
  <2>2. [Parted(before) EXCEPT !.pages = [idx \in DOMAIN @ |->
            IF idx \notin DOMAIN nth THEN @[idx]
            ELSE IF reused THEN page ELSE PagesOn(page, nth[idx])]] = Parted(pages)
    <3>1. [idx \in DOMAIN Parted(before).pages |->
              IF idx \notin DOMAIN nth THEN Parted(before).pages[idx]
              ELSE IF reused THEN page ELSE PagesOn(page, nth[idx])] = pages
      BY <2>1
    <3>2. [Parted(before) EXCEPT !.pages = pages] = Parted(pages)
      BY PartedExcept
    <3> QED BY <3>1, <3>2, Zenon
  <2> QED BY <1>1, <2>2, Zenon DEF BindPages
<1>3. \A idx \in S : PagesOn(page, nth[idx]) \in PageOf(M)
  BY PagesOnType
<1>4. pages \in [0 .. n - 1 -> PageOf(M)]
  BY <1>3
<1>5. \A idx \in 0 .. n - 1 : pages[idx] =
          IF idx \notin S THEN before[idx] ELSE IF reused THEN page ELSE PagesOn(page, nth[idx])
  OBVIOUS
<1> HIDE DEF pages
<1>6. /\ simplifyUnmapped(Parted(pages)) \in Mapping(M, n)
      /\ \A idx \in 0 .. n - 1 : SamePage(getPage(simplifyUnmapped(Parted(pages)), idx), pages[idx])
  BY <1>4, SimplifyKeepsPages
<1> QED BY <1>1, <1>2, <1>5, <1>6 DEF SamePage

-----------------------------------------------------------------------------
(* Layouts.                                                                *)

Known == layout \in VulkanLayouts \cup D3D12Layouts

LEMMA PartOfBytes ==
    ASSUME NEW o \in Nat, NEW u \in Nat, NEW bytes \in Nat, NEW most \in Nat, (o + u) * bytes <= most
    PROVE  (o + u) * bytes \in 0 .. most /\ o * bytes \in 0 .. most
<1>1. (o + u) * bytes = o * bytes + u * bytes
  OBVIOUS
<1>2. o * bytes \in Nat /\ u * bytes \in Nat
  OBVIOUS
<1> QED BY <1>1, <1>2

LEMMA Multiple ==
    ASSUME NEW a \in Nat, NEW b \in Nat \ {0}, a % b = 0
    PROVE  a = (a \div b) * b /\ a \div b \in Nat
BY Division

\* A quotient, rounded up.
LEMMA CeilingIs ==
    ASSUME NEW n \in Nat, NEW b \in Nat \ {0}, NEW c \in Nat
    PROVE  (n + b - 1) \div b = c <=> (n <= c * b /\ c * b < n + b)
<1> DEFINE q == (n + b - 1) \div b
           r == (n + b - 1) % b
<1>1. n + b - 1 \in Nat
  OBVIOUS
<1>2. q \in Nat /\ r \in Nat /\ r < b /\ n + b - 1 = q * b + r
  BY <1>1, Division
<1> HIDE DEF q, r
<1>3. q * b \in Nat /\ c * b \in Nat
  BY <1>2
<1>4. n <= q * b /\ q * b < n + b
  BY <1>2, <1>3
<1>5. ASSUME n <= c * b, c * b < n + b PROVE q = c
  <2>1. CASE q < c
    <3>1. PICK d \in Nat : c = q + 1 + d
      BY <1>2, <2>1
    <3>2. c * b = q * b + b + d * b /\ d * b \in Nat
      BY <1>2, <3>1
    <3> QED BY <1>3, <1>4, <1>5, <3>2
  <2>2. CASE c < q
    <3>1. PICK d \in Nat : q = c + 1 + d
      BY <1>2, <2>2
    <3>2. q * b = c * b + b + d * b /\ d * b \in Nat
      BY <3>1
    <3> QED BY <1>3, <1>4, <1>5, <3>2
  <2> QED BY <1>2, <2>1, <2>2
<1> QED BY <1>4, <1>5 DEF q

LEMMA CeilingType ==
    ASSUME NEW n \in Nat, NEW b \in Nat \ {0}
    PROVE  /\ (n + b - 1) \div b \in Nat
           /\ n > 0 => (n + b - 1) \div b > 0
           /\ n <= ((n + b - 1) \div b) * b /\ ((n + b - 1) \div b) * b < n + b
<1>1. (n + b - 1) \div b \in Nat
  BY Division
<1> DEFINE c == (n + b - 1) \div b
<1>2. n <= c * b /\ c * b < n + b
  BY <1>1, CeilingIs
<1>3. n > 0 => c > 0
  BY <1>1, <1>2
<1> QED BY <1>1, <1>2, <1>3

LEMMA PagesAre ==
    ASSUME NEW n \in Nat
    PROVE  /\ Pages(n) \in Nat
           /\ n > 0 => Pages(n) > 0
           /\ n <= Pages(n) * PageBytes /\ Pages(n) * PageBytes < n + PageBytes
BY CeilingType, PageBytesAssumption DEF Pages

LEMMA PagesIs ==
    ASSUME NEW n \in Nat
    PROVE  Pages(n * PageBytes) = n
BY PageBytesAssumption, CeilingIs DEF Pages

LEMMA ShiftedIs ==
    ASSUME NEW n \in Nat, NEW by \in Nat
    PROVE  Shifted(n, by) \in Nat
<1> DEFINE eq(f) == f = [k \in 0 .. by |-> IF k = 0 THEN n ELSE f[k - 1] \div 2]
           shifted == CHOOSE f : eq(f)
           step == [k \in 1 .. by |-> [x \in Nat |-> x \div 2]]
<1>1. \E f : eq(f)
  <2>1. step \in [1 .. by -> [Nat -> Nat]]
    OBVIOUS
  <2>2. \A k \in 1 .. by : \A x \in Nat : step[k][x] = x \div 2
    OBVIOUS
  <2> HIDE DEF step
  <2>3. PICK f : Iterated(f, Nat, n, by, step)
    BY <2>1, Iterating
  <2>4. ASSUME NEW k \in 0 .. by, k # 0 PROVE step[k][f[k - 1]] = f[k - 1] \div 2
    <3>1. k - 1 \in 0 .. by /\ k \in 1 .. by
      BY <2>4
    <3>2. f[k - 1] \in Nat
      BY <2>3, <3>1 DEF Iterated
    <3> QED BY <2>2, <3>1, <3>2
  <2>5. [k \in 0 .. by |-> IF k = 0 THEN n ELSE step[k][f[k - 1]]]
        = [k \in 0 .. by |-> IF k = 0 THEN n ELSE f[k - 1] \div 2]
    BY <2>4
  <2>6. eq(f)
    BY <2>3, <2>5 DEF Iterated
  <2> QED BY <2>6
<1>2. eq(shifted)
  BY <1>1
<1>3. Shifted(n, by) = shifted[by]
  BY DEF Shifted
<1> HIDE DEF shifted
<1>4. shifted[0] = n /\ \A k \in 1 .. by : shifted[k] = shifted[k - 1] \div 2
  BY <1>2
<1> HIDE DEF eq
<1> DEFINE T == {k \in 0 .. by : shifted[k] \in Nat}
<1>5. 0 \in T
  BY <1>4
<1>6. ASSUME NEW k \in 1 .. by, k - 1 \in T PROVE k \in T
  BY <1>4, <1>6
<1>7. by \in 0 .. by /\ \A k \in 0 .. by : k \in T
  <2> HIDE DEF T
  <2> QED BY <1>5, <1>6, Counting
<1> QED BY <1>3, <1>7

LEMMA LayoutIs ==
    ASSUME Known
    PROVE  /\ layout.mips \in Nat \ {0} /\ layout.slices \in Nat \ {0} /\ layout.subs \in Nat
           /\ layout.firstMip \in 0 .. layout.mips
           /\ layout.byteOffset \in Nat /\ layout.byteStride \in Nat /\ layout.packed \in Nat
           /\ \A d \in 1 .. 2 : layout.dim[d] \in Nat \ {0} /\ layout.texels[d] \in Nat \ {0}
           /\ layout.subs = 0 => /\ layout.mips = 1 /\ layout.slices = 1 /\ layout.firstMip = 0
                                 /\ layout.byteOffset = 0 /\ layout.byteStride = 0
           /\ layout.subs # 0 => layout.subs = layout.slices * layout.mips
           /\ layout.firstMip < layout.mips => layout.packed > 0
           /\ (layout.firstMip < layout.mips /\ layout.byteStride > 0 /\ layout.slices > 1) =>
                  LET tail == layout.packed \div layout.slices IN
                  /\ layout.packed = layout.slices * tail /\ tail % PageBytes = 0
                  /\ tail <= layout.byteStride /\ layout.byteStride % PageBytes = 0
<1>1. IsLayout(layout)
  BY LayoutAssumption DEF Known
<1>2. layout \in [dim : Positive \X Positive, texels : Positive \X Positive, mips : Positive,
              slices : Positive, subs : Nat, firstMip : 0 .. layout.mips, byteOffset : Nat,
              byteStride : Nat, packed : Nat]
  BY <1>1 DEF IsLayout
<1>3. layout.dim \in Positive \X Positive /\ layout.texels \in Positive \X Positive
  BY <1>2
<1>4. \A d \in 1 .. 2 : layout.dim[d] \in Nat \ {0} /\ layout.texels[d] \in Nat \ {0}
  BY <1>3 DEF Positive
<1>5. layout.subs = 0 => /\ layout.mips = 1 /\ layout.slices = 1 /\ layout.firstMip = 0
                         /\ layout.byteOffset = 0 /\ layout.byteStride = 0
  BY <1>1 DEF IsLayout, BufferLayout
<1>6. /\ layout.subs # 0 => layout.subs = layout.slices * layout.mips
      /\ layout.firstMip < layout.mips => layout.packed > 0
      /\ (layout.firstMip < layout.mips /\ layout.byteStride > 0 /\ layout.slices > 1) =>
                  LET tail == layout.packed \div layout.slices IN
                  /\ layout.packed = layout.slices * tail /\ tail % PageBytes = 0
                  /\ tail <= layout.byteStride /\ layout.byteStride % PageBytes = 0
  BY <1>1 DEF IsLayout
<1> QED BY <1>2, <1>4, <1>5, <1>6 DEF Positive

LEMMA TailsAre ==
    ASSUME Known
    PROVE  /\ NumTails \in Nat /\ (NumTails > 0 <=> layout.firstMip < layout.mips)
           /\ TailBytes \in Nat /\ TailPages \in Nat
           /\ NumTails > 0 => TailBytes > 0 /\ TailPages > 0
           /\ NumTails = 1 => TailBytes = layout.packed
           /\ NumTails > 1 =>
                 /\ NumTails = layout.slices /\ layout.byteStride > 0 /\ layout.subs # 0
                 /\ layout.packed = NumTails * TailBytes /\ TailBytes = TailPages * PageBytes
                 /\ TailBytes <= layout.byteStride
                 /\ layout.byteStride \div PageBytes \in Nat
                 /\ layout.byteStride = (layout.byteStride \div PageBytes) * PageBytes
<1>1. NumTails \in Nat /\ (NumTails > 0 <=> layout.firstMip < layout.mips)
  BY LayoutIs DEF NumTails
<1>2. Max({1, NumTails}) \in Nat \ {0} /\ (NumTails > 0 => Max({1, NumTails}) = NumTails)
  BY <1>1, GreatestOfTwo
<1>3. TailBytes \in Nat
  BY LayoutIs, <1>2, Division DEF TailBytes
<1>4. TailPages \in Nat /\ (TailBytes > 0 => TailPages > 0)
  BY <1>3, PagesAre DEF TailPages
<1>5. NumTails = 1 => TailBytes = layout.packed
  BY LayoutIs, <1>2 DEF TailBytes
<1>6. ASSUME NumTails > 1
      PROVE  /\ NumTails = layout.slices /\ layout.byteStride > 0 /\ layout.subs # 0
             /\ layout.packed = NumTails * TailBytes /\ TailBytes = TailPages * PageBytes
             /\ TailBytes <= layout.byteStride
             /\ layout.byteStride \div PageBytes \in Nat
             /\ layout.byteStride = (layout.byteStride \div PageBytes) * PageBytes
             /\ TailBytes > 0
  <2>1. /\ NumTails = layout.slices /\ layout.byteStride > 0 /\ layout.byteStride \in Nat
        /\ layout.firstMip < layout.mips
    BY <1>6, LayoutIs DEF NumTails
  <2>2. layout.subs # 0
    BY <1>6, <2>1, LayoutIs
  <2>3. TailBytes = layout.packed \div layout.slices
    BY <1>1, <1>2, <1>6, <2>1 DEF TailBytes
  <2>4. /\ layout.packed = NumTails * TailBytes /\ TailBytes % PageBytes = 0
        /\ TailBytes <= layout.byteStride /\ layout.byteStride % PageBytes = 0
    BY <1>6, <2>1, <2>3, LayoutIs
  <2>5. TailBytes = (TailBytes \div PageBytes) * PageBytes /\ TailBytes \div PageBytes \in Nat
    BY <1>3, <2>4, Division, PageBytesAssumption
  <2>6. TailPages = TailBytes \div PageBytes
    BY <2>5, PagesIs DEF TailPages
  <2>7. /\ layout.byteStride = (layout.byteStride \div PageBytes) * PageBytes
        /\ layout.byteStride \div PageBytes \in Nat
    BY <2>1, <2>4, Multiple, PageBytesAssumption, Zenon
  <2>8. TailBytes > 0
    BY <1>1, <2>1, LayoutIs, <1>3, <2>4
  <2> QED BY <2>1, <2>2, <2>4, <2>5, <2>6, <2>7, <2>8
<1>7. NumTails = 1 => TailBytes > 0
  BY <1>1, <1>5, LayoutIs
<1> QED BY <1>1, <1>3, <1>4, <1>5, <1>6, <1>7

LEMMA DimsAre ==
    ASSUME Known, NEW sub \in Nat
    PROVE  /\ \A d \in 1 .. 2 : /\ MipDim(sub)[d] \in Nat \ {0}
                                /\ calcSubresourcePageDim(sub)[d] \in Nat \ {0}
                                /\ calcSubresourcePageDim(sub)[d] =
                                     (MipDim(sub)[d] + layout.texels[d] - 1) \div layout.texels[d]
           /\ SubPages(sub) \in Nat \ {0}
           /\ calcSubresourcePageDim(sub) = [d \in 1 .. 2 |-> calcSubresourcePageDim(sub)[d]]
<1>1. ASSUME NEW d \in 1 .. 2
      PROVE  /\ MipDim(sub)[d] \in Nat \ {0}
             /\ calcSubresourcePageDim(sub)[d] \in Nat \ {0}
             /\ calcSubresourcePageDim(sub)[d] =
                  (MipDim(sub)[d] + layout.texels[d] - 1) \div layout.texels[d]
  <2>1. layout.dim[d] \in Nat \ {0} /\ layout.texels[d] \in Nat \ {0} /\ layout.mips \in Nat \ {0}
    BY LayoutIs
  <2>2. Shifted(layout.dim[d], sub % layout.mips) \in Nat
    BY <2>1, Division, ShiftedIs
  <2>3. MipDim(sub)[d] \in Nat \ {0}
    BY <2>2, GreatestOfTwo DEF MipDim
  <2>4. calcSubresourcePageDim(sub)[d] =
                  (MipDim(sub)[d] + layout.texels[d] - 1) \div layout.texels[d]
    BY DEF calcSubresourcePageDim
  <2>5. /\ (MipDim(sub)[d] + layout.texels[d] - 1) \div layout.texels[d] \in Nat
        /\ (MipDim(sub)[d] + layout.texels[d] - 1) \div layout.texels[d] > 0
    <3> DEFINE n == MipDim(sub)[d]
               b == layout.texels[d]
    <3>1. n \in Nat /\ n > 0 /\ b \in Nat \ {0}
      BY <2>1, <2>3
    <3> HIDE DEF n, b
    <3>2. (n + b - 1) \div b \in Nat /\ (n + b - 1) \div b > 0
      BY <3>1, CeilingType
    <3> QED BY <3>2 DEF n, b
  <2> QED BY <2>3, <2>4, <2>5
<1>2. SubPages(sub) \in Nat \ {0}
  BY <1>1 DEF SubPages
<1>3. calcSubresourcePageDim(sub) = [d \in 1 .. 2 |-> calcSubresourcePageDim(sub)[d]]
  BY DEF calcSubresourcePageDim
<1> QED BY <1>1, <1>2, <1>3

\* Every mapping has a page.
LEMMA NumPagesIs ==
    ASSUME Known
    PROVE  /\ \A key \in Subs \cup Tails : NumPages(key) \in Nat \ {0}
           /\ \A key \in Tails : NumPages(key) = TailPages
           /\ \A key \in Subs : key \notin Tails /\ NumPages(key) = SubPages(key[2])
           /\ UsedMappings \subseteq Subs \cup Tails
<1>1. ASSUME NEW key \in Tails PROVE NumPages(key) = TailPages /\ NumPages(key) \in Nat \ {0}
  <2>1. NumTails > 0
    BY TailsAre DEF Tails
  <2> QED BY <2>1, TailsAre DEF NumPages
<1>2. ASSUME NEW key \in Subs
      PROVE  key \notin Tails /\ NumPages(key) = SubPages(key[2]) /\ NumPages(key) \in Nat \ {0}
  BY LayoutIs, DimsAre DEF Subs, Tails, NumPages
<1> QED BY <1>1, <1>2 DEF UsedMappings

-----------------------------------------------------------------------------
(* The tiles of a resource.                                                *)

UsedTiles == {tile \in UsedMappings \X Nat : tile[2] < NumPages(tile[1])}

AllSubs == 0 .. Max({1, layout.subs}) - 1

LEMMA AllSubsAre ==
    ASSUME Known
    PROVE  /\ Max({1, layout.subs}) \in Nat \ {0}
           /\ layout.subs # 0 => AllSubs = 0 .. layout.subs - 1
           /\ layout.subs = 0 => AllSubs = {0}
<1>1. layout.subs \in Nat
  BY LayoutIs
<1>2. Max({1, layout.subs}) = IF 1 >= layout.subs THEN 1 ELSE layout.subs
  BY <1>1, GreatestOfTwo
<1> QED BY <1>1, <1>2 DEF AllSubs

LEMMA MappingIsUsed ==
    ASSUME Known, NEW sub \in AllSubs
    PROVE  MappingOf(sub) \in UsedMappings
<1>1. /\ sub \in Nat /\ layout.mips \in Nat \ {0} /\ layout.slices \in Nat \ {0}
      /\ layout.firstMip \in 0 .. layout.mips
  BY LayoutIs, AllSubsAre DEF AllSubs
<1>2. sub % layout.mips \in Nat /\ sub % layout.mips < layout.mips /\ sub \div layout.mips \in Nat
  BY <1>1, Division
<1>3. CASE isSubresourceInMipTail(sub)
  BY <1>1, <1>2, <1>3, TailsAre, Division DEF isSubresourceInMipTail, MappingOf, UsedMappings, Tails
<1>4. CASE ~isSubresourceInMipTail(sub)
  BY <1>1, <1>2, <1>4, LayoutIs, AllSubsAre DEF isSubresourceInMipTail, MappingOf, UsedMappings, Subs
<1> QED BY <1>3, <1>4

LEMMA UsedIsMapping ==
    ASSUME Known, NEW key \in UsedMappings
    PROVE  \E sub \in AllSubs : key = MappingOf(sub)
<1>1. /\ layout.mips \in Nat \ {0} /\ layout.slices \in Nat \ {0} /\ layout.subs \in Nat
      /\ layout.firstMip \in 0 .. layout.mips
  BY LayoutIs
<1>2. ASSUME NEW k \in 0 .. NumTails - 1, key = <<"tail", k>>
      PROVE  \E sub \in AllSubs : key = MappingOf(sub)
  <2> DEFINE sub == k * layout.mips + layout.firstMip
  <2>1. NumTails \in Nat /\ NumTails > 0 /\ layout.firstMip < layout.mips /\ k \in Nat
    BY <1>2, TailsAre
  <2>2. sub % layout.mips = layout.firstMip /\ sub \div layout.mips = k
    <3> DEFINE m == layout.mips
               f == layout.firstMip
    <3>1. m \in Nat \ {0} /\ f \in Nat /\ f < m /\ k \in Nat
      BY <1>1, <2>1
    <3> HIDE DEF m, f, sub
    <3>2. (k * m + f) % m = f /\ (k * m + f) \div m = k
      BY <3>1, DivisionIs
    <3> QED BY <3>2 DEF m, f, sub
  <2>3. isSubresourceInMipTail(sub)
    BY <1>1, <2>2 DEF isSubresourceInMipTail
  <2>4. k < layout.slices
    BY <1>1, <1>2, <2>1, TailsAre
  <2>5. k % layout.slices = k
    BY <1>1, <2>1, <2>4
  <2>6. MappingOf(sub) = key
    BY <1>2, <2>2, <2>3, <2>5 DEF MappingOf
  <2>7. sub \in AllSubs
    <3>1. CASE layout.subs = 0
      BY <2>1, <2>4, <3>1, LayoutIs, AllSubsAre
    <3>2. CASE layout.subs # 0
      <4>1. layout.subs = layout.slices * layout.mips
        BY <3>2, LayoutIs
      <4>2. PICK d \in Nat : layout.slices = k + 1 + d
        <5>1. layout.slices - k - 1 \in Nat /\ layout.slices = k + 1 + (layout.slices - k - 1)
          BY <1>1, <2>1, <2>4
        <5> QED BY <5>1
      <4>3. /\ layout.slices * layout.mips = k * layout.mips + layout.mips + d * layout.mips
            /\ d * layout.mips \in Nat /\ k * layout.mips \in Nat
        BY <1>1, <2>1, <4>2
      <4>4. sub \in 0 .. layout.subs - 1
        BY <1>1, <2>1, <4>1, <4>3
      <4> QED BY <3>2, <4>4, AllSubsAre
    <3> QED BY <3>1, <3>2
  <2> HIDE DEF sub
  <2> QED BY <2>6, <2>7
<1>3. ASSUME key \in Subs, ~isSubresourceInMipTail(key[2])
      PROVE  \E sub \in AllSubs : key = MappingOf(sub)
  BY <1>3, <1>1, AllSubsAre DEF Subs, MappingOf
<1> QED BY <1>2, <1>3 DEF UsedMappings, Tails

LEMMA RangeOfBoth ==
    ASSUME NEW S, NEW s \in Seq(S), NEW t \in Seq(S)
    PROVE  /\ s \o t \in Seq(S)
           /\ Range(s \o t) = Range(s) \cup Range(t)
<1>1. /\ s \o t \in Seq(S) /\ Len(s \o t) = Len(s) + Len(t) /\ Len(s) \in Nat /\ Len(t) \in Nat
      /\ DOMAIN s = 1 .. Len(s) /\ DOMAIN t = 1 .. Len(t) /\ DOMAIN (s \o t) = 1 .. Len(s) + Len(t)
      /\ \A i \in 1 .. Len(s) + Len(t) : (s \o t)[i] = IF i <= Len(s) THEN s[i] ELSE t[i - Len(s)]
  OBVIOUS
<1>2. \A i \in 1 .. Len(s) + Len(t) : IF i <= Len(s) THEN i \in 1 .. Len(s) ELSE i - Len(s) \in 1 .. Len(t)
  BY <1>1
<1>3. Range(s \o t) \subseteq Range(s) \cup Range(t)
  BY <1>1, <1>2 DEF Range
<1>4. \A i \in 1 .. Len(s) : i \in 1 .. Len(s) + Len(t) /\ i <= Len(s)
  BY <1>1
<1>5. \A i \in 1 .. Len(t) : /\ i + Len(s) \in 1 .. Len(s) + Len(t) /\ ~(i + Len(s) <= Len(s))
                             /\ (i + Len(s)) - Len(s) = i
  BY <1>1
<1>6. Range(s) \subseteq Range(s \o t)
  BY <1>1, <1>4 DEF Range
<1>7. Range(t) \subseteq Range(s \o t)
  BY <1>1, <1>5 DEF Range
<1> QED BY <1>1, <1>3, <1>6, <1>7

LEMMA MoreTiles ==
    ASSUME Known, NEW key \in UsedMappings
    PROVE  LET more == [i \in 1 .. NumPages(key) |-> <<key, i - 1>>] IN
           more \in Seq(UsedTiles) /\ Range(more) = {tile \in UsedTiles : tile[1] = key}
<1> DEFINE n == NumPages(key)
           more == [i \in 1 .. n |-> <<key, i - 1>>]
<1>1. n \in Nat \ {0}
  BY NumPagesIs
<1>2. \A i \in 1 .. n : <<key, i - 1>> \in UsedTiles
  BY <1>1 DEF UsedTiles
<1>3. more \in Seq(UsedTiles)
  BY <1>2, <1>1
<1>4. Range(more) = {tile \in UsedTiles : tile[1] = key}
  <2>1. Range(more) = {<<key, i - 1>> : i \in 1 .. n}
    BY DEF Range
  <2>2. ASSUME NEW tile \in UsedTiles, tile[1] = key PROVE \E i \in 1 .. n : tile = <<key, i - 1>>
    BY <2>2, <1>1 DEF UsedTiles
  <2> HIDE DEF more, n
  <2> QED BY <1>2, <2>1, <2>2
<1> QED BY <1>3, <1>4

LEMMA TilesThroughType ==
    ASSUME Known, NEW key \in UsedMappings, NEW seq \in Seq(UsedTiles)
    PROVE  TilesThrough(seq, key) \in Seq(UsedTiles)
BY MoreTiles DEF TilesThrough

LEMMA TilesThroughIs ==
    ASSUME Known, NEW key \in UsedMappings, NEW seq \in Seq(UsedTiles), NEW K,
           Range(seq) = {tile \in UsedTiles : tile[1] \in K}
    PROVE  Range(TilesThrough(seq, key)) = {tile \in UsedTiles : tile[1] \in K \cup {key}}
<1>1. CASE seq # <<>> /\ Last(seq)[1] = key
  <2>1. TilesThrough(seq, key) = seq
    BY <1>1 DEF TilesThrough
  <2>2. Last(seq) \in Range(seq)
    BY <1>1 DEF Last, Range
  <2>3. key \in K
    BY <1>1, <2>2
  <2>4. K \cup {key} = K
    BY <2>3
  <2> QED BY <2>1, <2>4
<1>2. CASE ~(seq # <<>> /\ Last(seq)[1] = key)
  BY <1>2, MoreTiles, RangeOfBoth DEF TilesThrough
<1> QED BY <1>1, <1>2

LEMMA TileOrderIs ==
    ASSUME Known
    PROVE  Range(TileOrder) = UsedTiles
<1> DEFINE N == Max({1, layout.subs})
           S == Seq(UsedTiles)
           eq(f) == f = [sub \in 0 .. N |->
                           IF sub = 0 THEN <<>> ELSE TilesThrough(f[sub - 1], MappingOf(sub - 1))]
           upto == CHOOSE f : eq(f)
           step == [sub \in 1 .. N |-> [seq \in S |-> TilesThrough(seq, MappingOf(sub - 1))]]
<1>1. N \in Nat \ {0} /\ AllSubs = 0 .. N - 1
  BY AllSubsAre DEF AllSubs
<1>2. \A sub \in 1 .. N : sub - 1 \in AllSubs /\ MappingOf(sub - 1) \in UsedMappings
  <2>1. \A sub \in 1 .. N : sub - 1 \in AllSubs
    BY <1>1
  <2> QED BY <2>1, MappingIsUsed
<1>3. TileOrder = upto[N]
  BY DEF TileOrder
<1> HIDE DEF N
<1>4. \E f : eq(f)
  <2>1. \A sub \in 1 .. N : \A seq \in S : TilesThrough(seq, MappingOf(sub - 1)) \in S
    BY <1>2, TilesThroughType
  <2>2. step \in [1 .. N -> [S -> S]]
    BY <2>1
  <2>3. \A sub \in 1 .. N : \A seq \in S : step[sub][seq] = TilesThrough(seq, MappingOf(sub - 1))
    OBVIOUS
  <2>4. <<>> \in S
    OBVIOUS
  <2> HIDE DEF step, S
  <2>5. PICK f : Iterated(f, S, <<>>, N, step)
    BY <1>1, <2>2, <2>4, Iterating
  <2>6. ASSUME NEW sub \in 0 .. N, sub # 0
        PROVE  step[sub][f[sub - 1]] = TilesThrough(f[sub - 1], MappingOf(sub - 1))
    BY <1>1, <2>6, <2>5, <2>3 DEF Iterated
  <2>7. [sub \in 0 .. N |-> IF sub = 0 THEN <<>> ELSE step[sub][f[sub - 1]]]
        = [sub \in 0 .. N |-> IF sub = 0 THEN <<>> ELSE TilesThrough(f[sub - 1], MappingOf(sub - 1))]
    BY <2>6
  <2>8. eq(f)
    BY <2>5, <2>7 DEF Iterated
  <2> QED BY <2>8
<1>5. eq(upto)
  BY <1>4
<1> HIDE DEF upto
<1>6. upto[0] = <<>> /\ \A sub \in 1 .. N : upto[sub] = TilesThrough(upto[sub - 1], MappingOf(sub - 1))
  BY <1>1, <1>5
<1> HIDE DEF eq
<1> DEFINE K(sub) == {MappingOf(s) : s \in 0 .. sub - 1}
           T == {sub \in 0 .. N : /\ upto[sub] \in Seq(UsedTiles)
                                  /\ Range(upto[sub]) = {tile \in UsedTiles : tile[1] \in K(sub)}}
<1>7. 0 \in T
  <2>1. K(0) = {} /\ 0 \in 0 .. N
    BY <1>1
  <2>2. <<>> \in Seq(UsedTiles) /\ Range(<<>>) = {}
    BY DEF Range
  <2> QED BY <1>6, <2>1, <2>2
<1>8. ASSUME NEW sub \in 1 .. N, sub - 1 \in T PROVE sub \in T
  <2>1. K(sub) = K(sub - 1) \cup {MappingOf(sub - 1)}
    BY <1>1
  <2> HIDE DEF K
  <2>2. /\ upto[sub - 1] \in Seq(UsedTiles)
        /\ Range(upto[sub - 1]) = {tile \in UsedTiles : tile[1] \in K(sub - 1)}
        /\ MappingOf(sub - 1) \in UsedMappings /\ sub \in 0 .. N
    BY <1>1, <1>2, <1>8
  <2> DEFINE seq == upto[sub - 1]
             key == MappingOf(sub - 1)
             k == K(sub - 1)
  <2>4. /\ seq \in Seq(UsedTiles) /\ key \in UsedMappings
        /\ Range(seq) = {tile \in UsedTiles : tile[1] \in k}
    BY <2>2
  <2> HIDE DEF seq, key, k
  <2>3. /\ TilesThrough(seq, key) \in Seq(UsedTiles)
        /\ Range(TilesThrough(seq, key)) = {tile \in UsedTiles : tile[1] \in k \cup {key}}
    BY <2>4, TilesThroughIs, TilesThroughType
  <2> QED BY <1>6, <2>1, <2>2, <2>3 DEF seq, key, k
<1>9. N \in T
  <2>1. \A sub \in 0 .. N : sub \in T
    BY <1>1, <1>7, <1>8, Counting
  <2> HIDE DEF T
  <2> QED BY <1>1, <2>1
<1>10. UsedMappings \subseteq K(N)
  BY <1>1, UsedIsMapping
<1> HIDE DEF K
<1>11. \A tile \in UsedTiles : tile[1] \in K(N)
  BY <1>10 DEF UsedTiles
<1>12. Range(upto[N]) = {tile \in UsedTiles : tile[1] \in K(N)}
  BY <1>9
<1> HIDE DEF T
<1> QED BY <1>3, <1>11, <1>12

-----------------------------------------------------------------------------
(* Tables, and what they say.                                              *)

IsTable(table) ==
    /\ table = [key \in Subs \cup Tails |-> table[key]]
    /\ \A key \in Subs \cup Tails : table[key] \in Mapping(Heaps, NumPages(key))

\* The table says of every page what it is bound to.
Says(table, b) == \A tile \in UsedTiles : SamePage(getPage(table[tile[1]], tile[2]), b[tile])

LEMMA MappingReplaced ==
    ASSUME NEW table, IsTable(table), NEW key \in Subs \cup Tails, NEW m \in Mapping(Heaps, NumPages(key))
    PROVE  /\ IsTable([table EXCEPT ![key] = m])
           /\ [table EXCEPT ![key] = m][key] = m
           /\ \A k \in Subs \cup Tails : k # key => [table EXCEPT ![key] = m][k] = table[k]
BY DEF IsTable

-----------------------------------------------------------------------------
(* Bindings.                                                               *)

\* The n-th tile is bound to the n-th page.
BoundInOrder(b, after, N, to, pages) ==
    /\ DOMAIN after = DOMAIN b
    /\ \A n \in 1 .. N : to[n] \in DOMAIN b => after[to[n]] = pages[n]
    /\ \A tile \in DOMAIN b : (\A n \in 1 .. N : to[n] # tile) => after[tile] = b[tile]

Once(N, to) == \A n, k \in 1 .. N : to[n] = to[k] => n = k

LEMMA BindIs ==
    ASSUME NEW b, NEW N \in Nat, NEW to, DOMAIN to = 1 .. N, Once(N, to),
           NEW pages, \A n \in 1 .. N : pages[n] # Kept
    PROVE  BoundInOrder(b, Bind(b, to, pages), N, to, pages)
<1> DEFINE bound(tile) == {n \in 1 .. N : to[n] = tile /\ pages[n] # Kept}
<1>1. Bind(b, to, pages) =
          [tile \in DOMAIN b |-> IF bound(tile) = {} THEN b[tile] ELSE pages[Max(bound(tile))]]
  BY DEF Bind
<1>2. ASSUME NEW n \in 1 .. N PROVE bound(to[n]) = {n}
  BY DEF Once
<1>3. \A tile : (\A n \in 1 .. N : to[n] # tile) => bound(tile) = {}
  OBVIOUS
<1>4. ASSUME NEW n \in 1 .. N PROVE Max({n}) = n
  BY DEF Max
<1> HIDE DEF bound
<1>5. \A n \in 1 .. N : bound(to[n]) # {} /\ Max(bound(to[n])) = n
  BY <1>2, <1>4
<1> QED BY <1>1, <1>3, <1>5 DEF BoundInOrder

-----------------------------------------------------------------------------
(* Boxes.                                                                  *)

\* The box fits in the subresource.
Fits(coord, size, dim) ==
    /\ dim[1] \in Nat \ {0} /\ dim[2] \in Nat \ {0}
    /\ coord[1] \in Nat /\ coord[2] \in Nat /\ size[1] \in Nat \ {0} /\ size[2] \in Nat \ {0}
    /\ coord[1] + size[1] <= dim[1] /\ coord[2] + size[2] <= dim[2]

LEMMA BoxIs ==
    ASSUME NEW coord, NEW size, NEW dim, Fits(coord, size, dim)
    PROVE  LET box == BoxPages(coord, size, dim)
               N == size[1] * size[2]
           IN /\ N \in Nat \ {0} /\ DOMAIN box = 0 .. N - 1
              /\ \A i \in 0 .. N - 1 : box[i] \in 0 .. dim[1] * dim[2] - 1
              /\ \A i, k \in 0 .. N - 1 : box[i] = box[k] => i = k
              /\ (coord[1] = 0 /\ coord[2] = 0 /\ size[1] = dim[1]) => \A i \in 0 .. N - 1 : box[i] = i
<1> DEFINE box == BoxPages(coord, size, dim)
           N == size[1] * size[2]
           w == size[1]
           W == dim[1]
           x(i) == coord[1] + (i % w)
           y(i) == coord[2] + (i \div w)
<1>1. /\ N \in Nat \ {0} /\ w \in Nat \ {0} /\ W \in Nat \ {0} /\ dim[2] \in Nat \ {0}
      /\ coord[1] \in Nat /\ coord[2] \in Nat /\ size[2] \in Nat \ {0}
      /\ coord[1] + w <= W /\ coord[2] + size[2] <= dim[2]
  BY DEF Fits
<1>2. \A i \in 0 .. N - 1 : box[i] = y(i) * W + x(i)
  BY DEF BoxPages, PageAt
<1>3. DOMAIN box = 0 .. N - 1
  BY DEF BoxPages
<1>4. ASSUME NEW i \in 0 .. N - 1
      PROVE  /\ i = (i \div w) * w + (i % w)
             /\ x(i) \in Nat /\ y(i) \in Nat /\ x(i) < W /\ y(i) < dim[2]
             /\ i % w \in Nat /\ i \div w \in Nat
  <2>1. i \in Nat
    BY <1>1
  <2>2. i % w \in Nat /\ i \div w \in Nat /\ i % w < w /\ i = (i \div w) * w + (i % w)
    BY <1>1, <2>1, Division
  <2>3. i \div w < size[2]
    <3> DEFINE q == i \div w
               h == size[2]
    <3>1. q \in Nat /\ h \in Nat /\ q * w <= i /\ i < w * h
      <4>1. i % w \in Nat /\ q \in Nat /\ i = q * w + (i % w)
        BY <2>2
      <4>2. q * w \in Nat
        BY <1>1, <4>1
      <4> HIDE DEF w, q
      <4> QED BY <1>1, <2>1, <4>1, <4>2 DEF w
    <3> HIDE DEF q, h, w
    <3>2. SUFFICES ASSUME h <= q PROVE FALSE
      BY <3>1 DEF q, h
    <3>3. PICK d \in Nat : q = h + d
      BY <3>1, <3>2
    <3>4. q * w = w * h + d * w /\ d * w \in Nat /\ w * h \in Nat
      BY <1>1, <3>1, <3>3
    <3> QED BY <2>1, <3>1, <3>4
  <2> HIDE DEF w, W
  <2> QED BY <1>1, <2>2, <2>3
<1>5. ASSUME NEW i \in 0 .. N - 1 PROVE box[i] \in 0 .. dim[1] * dim[2] - 1
  <2> DEFINE u == x(i)
             v == y(i)
             H == dim[2]
  <2>1. box[i] = v * W + u /\ u \in Nat /\ v \in Nat /\ u < W /\ v < H
    BY <1>2, <1>4
  <2>2. H \in Nat /\ W \in Nat /\ dim[1] * dim[2] = W * H
    BY <1>1
  <2> HIDE DEF u, v, H, W, box
  <2>3. PICK d \in Nat : H = v + 1 + d
    BY <2>1, <2>2
  <2>4. W * H = v * W + W + d * W /\ d * W \in Nat /\ v * W \in Nat
    BY <2>1, <2>2, <2>3
  <2> QED BY <2>1, <2>2, <2>4
<1>6. ASSUME NEW i \in 0 .. N - 1, NEW k \in 0 .. N - 1, box[i] = box[k] PROVE i = k
  <2>1. y(i) * W + x(i) = y(k) * W + x(k)
    BY <1>2, <1>6
  <2>2. x(i) = x(k) /\ y(i) = y(k)
    <3> DEFINE x1 == x(i)
               y1 == y(i)
               x2 == x(k)
               y2 == y(k)
    <3>1. /\ x1 \in Nat /\ y1 \in Nat /\ x2 \in Nat /\ y2 \in Nat /\ x1 < W /\ x2 < W
          /\ y1 * W + x1 = y2 * W + x2 /\ W \in Nat
      BY <1>1, <1>4, <2>1
    <3> HIDE DEF x1, x2, y1, y2, W
    <3>2. x1 = x2 /\ y1 = y2
      BY <3>1, PlacesDiffer
    <3> QED BY <3>2 DEF x1, x2, y1, y2
  <2>3. i % w = k % w /\ i \div w = k \div w
    <3>1. i % w \in Nat /\ k % w \in Nat /\ i \div w \in Nat /\ k \div w \in Nat
      BY <1>4
    <3> DEFINE a == i % w
               b == k % w
               c == i \div w
               d == k \div w
    <3>2. a \in Nat /\ b \in Nat /\ c \in Nat /\ d \in Nat
          /\ coord[1] + a = coord[1] + b /\ coord[2] + c = coord[2] + d
      BY <2>2, <3>1
    <3> HIDE DEF a, b, c, d
    <3>3. a = b /\ c = d
      BY <1>1, <3>2
    <3> QED BY <3>3 DEF a, b, c, d
  <2>4. i = (i \div w) * w + (i % w) /\ k = (k \div w) * w + (k % w)
    BY <1>4
  <2> QED BY <2>3, <2>4
<1>7. ASSUME coord[1] = 0, coord[2] = 0, w = W, NEW i \in 0 .. N - 1 PROVE box[i] = i
  <2>1. i % w \in Nat /\ i \div w \in Nat /\ i = (i \div w) * w + (i % w)
    BY <1>4
  <2>2. x(i) = i % w /\ y(i) = i \div w
    BY <1>7, <2>1
  <2> HIDE DEF w, W
  <2> QED BY <1>2, <1>7, <2>1, <2>2
<1> QED BY <1>1, <1>3, <1>5, <1>6, <1>7

LEMMA AntiFunctionIs ==
    ASSUME NEW N \in Nat, NEW f, DOMAIN f = 0 .. N - 1,
           \A i, k \in 0 .. N - 1 : f[i] = f[k] => i = k
    PROVE  /\ AntiFunction(f) \in [Range(f) -> Nat]
           /\ \A i \in 0 .. N - 1 : f[i] \in Range(f) /\ AntiFunction(f)[f[i]] = i
           /\ \A t \in Range(f) : \E i \in 0 .. N - 1 : t = f[i]
<1> DEFINE chosen(t) == CHOOSE s \in 0 .. N - 1 : t \in Range(f) => f[s] = t
<1>1. AntiFunction(f) = [t \in Range(f) |-> chosen(t)]
  BY DEF AntiFunction, Inverse
<1>2. \A i \in 0 .. N - 1 : f[i] \in Range(f)
  BY DEF Range
<1>3. \A t \in Range(f) : \E i \in 0 .. N - 1 : t = f[i]
  BY DEF Range
<1>4. ASSUME NEW i \in 0 .. N - 1 PROVE chosen(f[i]) = i
  BY <1>2
<1> HIDE DEF chosen
<1>5. \A t \in Range(f) : chosen(t) \in Nat
  BY <1>3, <1>4
<1> QED BY <1>1, <1>2, <1>3, <1>4, <1>5

\* The pages of a box are bound to those from page on.
BoxBound(table, after, sub, coord, size, page, reused) ==
    LET key == <<"sub", sub>>
        box == BoxPages(coord, size, calcSubresourcePageDim(sub))
    IN  /\ IsTable(after)
        /\ \A k \in Subs \cup Tails : k # key => after[k] = table[k]
        /\ \A i \in 0 .. size[1] * size[2] - 1 :
              SamePage(getPage(after[key], box[i]), IF reused THEN page ELSE PagesOn(page, i))
        /\ \A idx \in 0 .. SubPages(sub) - 1 :
              (\A i \in 0 .. size[1] * size[2] - 1 : box[i] # idx)
                 => SamePage(getPage(after[key], idx), getPage(table[key], idx))

IsPair(p) == p = [d \in 1 .. 2 |-> p[d]]

\* setImageBoxRange binds the pages of the box, in their order.
LEMMA ImageBoxIs ==
    ASSUME Known, NEW table, IsTable(table), NEW sub \in 0 .. layout.subs - 1,
           NEW coord, NEW size, Fits(coord, size, calcSubresourcePageDim(sub)),
           NEW texels, \A d \in 1 .. 2 : (texels[d] + layout.texels[d] - 1) \div layout.texels[d] = size[d],
           IsPair(size),
           NEW page \in PageOf(Heaps), NEW reused \in BOOLEAN
    PROVE  BoxBound(table, setImageBoxRange(table, sub, Texels(coord), texels, page, reused),
                    sub, coord, size, page, reused)
<1> DEFINE key == <<"sub", sub>>
           dim == calcSubresourcePageDim(sub)
           box == BoxPages(coord, size, dim)
           N == size[1] * size[2]
           n == SubPages(sub)
           from == IF page.memory = NoHeap THEN NoPage ELSE page
           m == IF coord[1] = 0 /\ coord[2] = 0 /\ size = dim THEN SingleMapping(from, reused)
                ELSE BindPages(table[key], n, AntiFunction(box), from, reused)
           after == setImageBoxRange(table, sub, Texels(coord), texels, page, reused)
<1>1. /\ \A d \in 1 .. 2 : layout.texels[d] \in Nat \ {0} /\ dim[d] \in Nat \ {0}
      /\ n \in Nat \ {0} /\ n = dim[1] * dim[2] /\ sub \in Nat /\ dim = [d \in 1 .. 2 |-> dim[d]]
  BY LayoutIs, DimsAre DEF SubPages
<1>2. key \in Subs /\ NumPages(key) = n /\ table[key] \in Mapping(Heaps, n)
  BY NumPagesIs DEF Subs, IsTable
<1>3. \A d \in 1 .. 2 : coord[d] \in Nat
  BY DEF Fits
<1>4. \A d \in 1 .. 2 : Texels(coord)[d] \div layout.texels[d] = coord[d]
  <2> TAKE d \in 1 .. 2
  <2> DEFINE t == layout.texels[d]
             c == coord[d]
  <2>1. t \in Nat \ {0} /\ c \in Nat /\ Texels(coord)[d] = c * t + 0
    BY <1>1, <1>3 DEF Texels
  <2> HIDE DEF t, c
  <2>2. (c * t + 0) \div t = c
    BY <2>1, DivisionIs
  <2> QED BY <2>1, <2>2 DEF t, c
<1> DEFINE org == [d \in 1 .. 2 |-> Texels(coord)[d] \div layout.texels[d]]
           siz == [d \in 1 .. 2 |-> (texels[d] + layout.texels[d] - 1) \div layout.texels[d]]
<1>5. org = [d \in 1 .. 2 |-> coord[d]] /\ siz = size
  BY <1>4 DEF IsPair
<1>6. BoxPages(org, size, dim) = box
  BY <1>5 DEF BoxPages
<1>7. org = <<0, 0>> <=> coord[1] = 0 /\ coord[2] = 0
  <2>1. <<0, 0>> = [d \in 1 .. 2 |-> 0]
    OBVIOUS
  <2>2. 1 \in 1 .. 2 /\ 2 \in 1 .. 2 /\ \A d \in 1 .. 2 : d = 1 \/ d = 2
    OBVIOUS
  <2> HIDE DEF org
  <2>3. org[1] = coord[1] /\ org[2] = coord[2]
    BY <1>5
  <2>4. ASSUME coord[1] = 0, coord[2] = 0 PROVE [d \in 1 .. 2 |-> coord[d]] = [d \in 1 .. 2 |-> 0]
    BY <2>2, <2>4
  <2> QED BY <1>5, <2>1, <2>3, <2>4
<1>8. after = [table EXCEPT ![key] = m]
  BY <1>5, <1>6, <1>7 DEF setImageBoxRange, IsTable
<1>9. /\ N \in Nat \ {0} /\ DOMAIN box = 0 .. N - 1
      /\ \A i \in 0 .. N - 1 : box[i] \in 0 .. n - 1
      /\ \A i, k \in 0 .. N - 1 : box[i] = box[k] => i = k
      /\ (coord[1] = 0 /\ coord[2] = 0 /\ size[1] = dim[1]) => \A i \in 0 .. N - 1 : box[i] = i
  <2>1. /\ N \in Nat \ {0} /\ DOMAIN box = 0 .. N - 1
        /\ \A i \in 0 .. N - 1 : box[i] \in 0 .. dim[1] * dim[2] - 1
        /\ \A i, k \in 0 .. N - 1 : box[i] = box[k] => i = k
        /\ (coord[1] = 0 /\ coord[2] = 0 /\ size[1] = dim[1]) => \A i \in 0 .. N - 1 : box[i] = i
    BY BoxIs
  <2> HIDE DEF n, dim, box, N
  <2> QED BY <1>1, <2>1
<1>10. /\ from \in PageOf(Heaps)
       /\ \A i \in Nat : SamePage(IF reused THEN from ELSE PagesOn(from, i),
                                  IF reused THEN page ELSE PagesOn(page, i))
  <2>1. from \in PageOf(Heaps)
    BY NoPageIs
  <2> QED BY <2>1, NoPageIs DEF SamePage, PagesOn
<1> DEFINE inv == AntiFunction(box)
<1>11. /\ inv \in [Range(box) -> Nat]
       /\ \A i \in 0 .. N - 1 : box[i] \in Range(box) /\ inv[box[i]] = i
       /\ \A t \in Range(box) : \E i \in 0 .. N - 1 : t = box[i]
  <2> HIDE DEF box, N
  <2> QED BY <1>9, AntiFunctionIs
<1> HIDE DEF key, dim, box, N, n, from, after, inv, org, siz
<1>12. /\ m \in Mapping(Heaps, n)
       /\ \A i \in 0 .. N - 1 : SamePage(getPage(m, box[i]), IF reused THEN page ELSE PagesOn(page, i))
       /\ \A idx \in 0 .. n - 1 : (\A i \in 0 .. N - 1 : box[i] # idx)
             => SamePage(getPage(m, idx), getPage(table[key], idx))
  <2>1. CASE coord[1] = 0 /\ coord[2] = 0 /\ size = dim
    <3>1. m = SingleMapping(from, reused) /\ N = n /\ \A i \in 0 .. N - 1 : box[i] = i
      BY <1>1, <1>9, <2>1 DEF N
    <3>2. m \in Mapping(Heaps, n)
      BY <1>10, <3>1, SingleIn
    <3>3. ASSUME NEW i \in Nat PROVE SamePage(getPage(m, i), IF reused THEN page ELSE PagesOn(page, i))
      BY <1>10, <3>1, PageOfSingle DEF SamePage
    <3>4. \A i \in 0 .. N - 1 : i \in Nat
      BY <1>9
    <3> HIDE DEF m
    <3> QED BY <3>1, <3>2, <3>3, <3>4
  <2>2. CASE ~(coord[1] = 0 /\ coord[2] = 0 /\ size = dim)
    <3>1. m = BindPages(table[key], n, inv, from, reused)
      BY <2>2 DEF inv
    <3> DEFINE S == Range(box)
    <3>2. S \in SUBSET (0 .. n - 1) /\ inv \in [S -> Nat]
      BY <1>9, <1>11
    <3> HIDE DEF S, m
    <3>3. /\ m \in Mapping(Heaps, n)
          /\ \A idx \in 0 .. n - 1 :
                SamePage(getPage(m, idx),
                         IF idx \notin S THEN getPage(table[key], idx)
                         ELSE IF reused THEN from ELSE PagesOn(from, inv[idx]))
      BY <1>1, <1>2, <1>10, <3>1, <3>2, BindPagesBindsThese
    <3>4. ASSUME NEW i \in 0 .. N - 1
          PROVE  SamePage(getPage(m, box[i]), IF reused THEN page ELSE PagesOn(page, i))
      <4>1. box[i] \in 0 .. n - 1 /\ box[i] \in S /\ inv[box[i]] = i /\ i \in Nat
        BY <1>9, <1>11 DEF S
      <4>2. SamePage(getPage(m, box[i]), IF reused THEN from ELSE PagesOn(from, i))
        BY <3>3, <4>1
      <4> QED BY <1>10, <4>1, <4>2 DEF SamePage
    <3>5. ASSUME NEW idx \in 0 .. n - 1, \A i \in 0 .. N - 1 : box[i] # idx
          PROVE  SamePage(getPage(m, idx), getPage(table[key], idx))
      BY <1>11, <3>5, <3>3 DEF S
    <3> QED BY <3>3, <3>4, <3>5
  <2> QED BY <2>1, <2>2
<1> HIDE DEF m
<1>13. /\ IsTable(after) /\ after[key] = m
       /\ \A k \in Subs \cup Tails : k # key => after[k] = table[k]
  <2>1. key \in Subs \cup Tails /\ m \in Mapping(Heaps, NumPages(key))
    BY <1>2, <1>12
  <2>2. /\ IsTable([table EXCEPT ![key] = m]) /\ [table EXCEPT ![key] = m][key] = m
        /\ \A k \in Subs \cup Tails : k # key => [table EXCEPT ![key] = m][k] = table[k]
    BY <2>1, MappingReplaced
  <2> QED BY <1>8, <2>2, Zenon
<1> QED BY <1>12, <1>13 DEF after, key, box, dim, N, n, BoxBound

-----------------------------------------------------------------------------
(* Ranges of tails.                                                        *)

LEMMA CountOf ==
    ASSUME NEW a \in Int, NEW b \in Int, a <= b + 1
    PROVE  Cardinality(a .. b) = b - a + 1
BY FS_Interval

\* c pages from the q-th on, as far as the tail has them.
LEMMA TailRangeIs ==
    ASSUME NEW q \in Nat, NEW bytes \in Nat, NEW e \in Nat, e <= TailPages, TailPages \in Nat,
           \A p \in 0 .. TailPages - 1 : p < Pages(q * PageBytes + bytes) <=> p < e
    PROVE  TailRange(q * PageBytes, bytes) = [idx \in q .. e - 1 |-> idx - q]
<1>1. (q * PageBytes) \div PageBytes = q
  BY DivisionIs, PageBytesAssumption
<1> DEFINE range == {p \in 0 .. TailPages - 1 : q <= p /\ p < Pages(q * PageBytes + bytes)}
<1>2. range = q .. e - 1
  OBVIOUS
<1>3. TailRange(q * PageBytes, bytes) = [idx \in range |-> idx - q]
  BY <1>1 DEF TailRange
<1> HIDE DEF range
<1> QED BY <1>2, <1>3

\* The pages q .. e - 1 of a tail are bound one after the other.
LEMMA TailBound ==
    ASSUME NEW table, IsTable(table), Known, NEW k \in 0 .. NumTails - 1,
           NEW q \in Nat, NEW e \in Nat, e <= TailPages, NEW page \in PageOf(Heaps)
    PROVE  LET key == <<"tail", k>>
               m == BindPages(table[key], TailPages, [idx \in q .. e - 1 |-> idx - q], page, FALSE)
           IN /\ m \in Mapping(Heaps, NumPages(key))
              /\ \A idx \in 0 .. TailPages - 1 :
                    SamePage(getPage(m, idx), IF q <= idx /\ idx < e THEN PagesOn(page, idx - q)
                                              ELSE getPage(table[key], idx))
<1> DEFINE key == <<"tail", k>>
           nth == [idx \in q .. e - 1 |-> idx - q]
           S == q .. e - 1
           m == BindPages(table[key], TailPages, nth, page, FALSE)
<1>1. /\ key \in Tails /\ NumPages(key) = TailPages /\ TailPages \in Nat \ {0}
      /\ table[key] \in Mapping(Heaps, TailPages)
  BY NumPagesIs DEF Tails, IsTable
<1>2. S \in SUBSET (0 .. TailPages - 1) /\ nth \in [S -> Nat]
  BY <1>1
<1>3. \A idx \in S : nth[idx] = idx - q
  OBVIOUS
<1>4. \A idx \in 0 .. TailPages - 1 : idx \in S <=> q <= idx /\ idx < e
  BY <1>1
<1> HIDE DEF nth, S, m, key
<1>5. ASSUME NEW reused \in BOOLEAN
      PROVE  LET after == BindPages(table[key], TailPages, nth, page, reused) IN
             /\ after \in Mapping(Heaps, TailPages)
             /\ \A idx \in 0 .. TailPages - 1 :
                  SamePage(getPage(after, idx),
                           IF idx \notin S THEN getPage(table[key], idx)
                           ELSE IF reused THEN page ELSE PagesOn(page, nth[idx]))
  BY <1>1, <1>2, BindPagesBindsThese
<1>6. /\ m \in Mapping(Heaps, TailPages)
      /\ \A idx \in 0 .. TailPages - 1 :
           SamePage(getPage(m, idx), IF idx \notin S THEN getPage(table[key], idx)
                                     ELSE PagesOn(page, nth[idx]))
  BY <1>5, FALSE \in BOOLEAN DEF m
<1> QED BY <1>1, <1>3, <1>4, <1>6 DEF m, key, nth

\* The same of a whole tail.
LEMMA TailWhole ==
    ASSUME Known, NEW k \in 0 .. NumTails - 1, NEW page \in PageOf(Heaps)
    PROVE  /\ SingleMapping(page, FALSE) \in Mapping(Heaps, NumPages(<<"tail", k>>))
           /\ \A idx \in 0 .. TailPages - 1 :
                 SamePage(getPage(SingleMapping(page, FALSE), idx), PagesOn(page, idx))
<1>1. ASSUME NEW reused \in BOOLEAN
      PROVE  /\ SingleMapping(page, reused) \in Mapping(Heaps, NumPages(<<"tail", k>>))
             /\ \A idx \in 0 .. TailPages - 1 :
                   SamePage(getPage(SingleMapping(page, reused), idx), IF reused THEN page ELSE PagesOn(page, idx))
  BY SingleIn, TailsAre, PageOfSingle
<1> QED BY <1>1, FALSE \in BOOLEAN

-----------------------------------------------------------------------------
(* The loop of setMipTailRange.                                            *)

AllMappings == UNION {Mapping(Heaps, NumPages(key)) : key \in Subs \cup Tails}

TailLoops == [table : [Subs \cup Tails -> AllMappings], page : PageOf(Heaps),
              tail : Nat, start : Nat, bytes : Nat]

LEMMA TableType ==
    ASSUME NEW table, IsTable(table)
    PROVE  table \in [Subs \cup Tails -> AllMappings]
BY DEF IsTable, AllMappings

\* One iteration, with the bytes in pages.
LEMMA OneTailIs ==
    ASSUME Known, NumTails > 1, NEW st \in TailLoops, IsTable(st.table), st.tail < NumTails,
           NEW q \in 0 .. TailPages - 1, st.start = q * PageBytes,
           NEW c \in Nat \ {0}, st.bytes = c * PageBytes
    PROVE  LET next == SetOneTail(st, FALSE)
               e == IF q + c < TailPages THEN q + c ELSE TailPages
               stride == layout.byteStride \div PageBytes
               key == <<"tail", st.tail>>
           IN /\ next \in TailLoops /\ IsTable(next.table)
              /\ next.tail = st.tail + 1 /\ next.start = 0
              /\ next.page.memory = st.page.memory
              /\ st.page.memory # NoHeap =>
                    next.page.offset = st.page.offset + (stride - TailPages + e - q) * PageBytes
              /\ next.bytes = IF q + c <= stride THEN 0 ELSE (q + c - stride) * PageBytes
              /\ \A k \in Subs \cup Tails : k # key => next.table[k] = st.table[k]
              /\ \A idx \in 0 .. TailPages - 1 :
                    SamePage(getPage(next.table[key], idx),
                             IF q <= idx /\ idx < e THEN PagesOn(st.page, idx - q)
                             ELSE getPage(st.table[key], idx))
<1> DEFINE TP == TailPages
           PB == PageBytes
           stride == layout.byteStride \div PageBytes
           e == IF q + c < TP THEN q + c ELSE TP
           key == <<"tail", st.tail>>
           whole == st.start = 0 /\ st.bytes >= TailBytes
           range == TailRange(st.start, st.bytes)
           consumed == IF whole THEN TailBytes ELSE PageBytes * Cardinality(DOMAIN range)
           padding == layout.byteStride - TailBytes
           passed == IF whole THEN layout.byteStride
                     ELSE padding + (IF st.page.memory = NoHeap THEN 0 ELSE consumed)
           page == [st.page EXCEPT !.offset = @ + passed]
           m == IF whole THEN SingleMapping(st.page, FALSE)
                ELSE BindPages(st.table[key], TP, range, st.page, FALSE)
           table == [st.table EXCEPT ![key] = m]
           bytes == IF st.start + consumed >= TailBytes
                    THEN Max({0, st.bytes - consumed - padding}) ELSE 0
           next == SetOneTail(st, FALSE)
<1>1. next = [table |-> table, page |-> page, tail |-> st.tail + 1, start |-> 0, bytes |-> bytes]
  <2>1. passed = CASE whole -> IF FALSE THEN 0 ELSE layout.byteStride
                 [] OTHER -> padding + (IF FALSE \/ st.page.memory = NoHeap THEN 0 ELSE consumed)
    OBVIOUS
  <2>2. table = [st.table EXCEPT ![key] = IF whole THEN SingleMapping(st.page, FALSE)
                                          ELSE BindPages(@, TP, range, st.page, FALSE)]
    BY DEF IsTable
  <2> HIDE DEF passed, table, m
  <2> QED BY <2>1, <2>2, Zenon DEF SetOneTail
<1>2. /\ TP \in Nat \ {0} /\ PB \in Nat \ {0} /\ stride \in Nat /\ TailBytes = TP * PB
      /\ layout.byteStride = stride * PB /\ TailBytes <= layout.byteStride /\ TailBytes \in Nat
      /\ st.tail \in 0 .. NumTails - 1 /\ NumTails \in Nat
      /\ st.page \in PageOf(Heaps) /\ st.page.offset \in Nat
  BY TailsAre, PageBytesAssumption DEF TailLoops, PageOf
<1> HIDE DEF next
<1>3. TP <= stride
  <2> HIDE DEF TP, PB, stride
  <2>1. SUFFICES ASSUME stride < TP PROVE FALSE
    BY <1>2
  <2>2. PICK d \in Nat : TP = stride + 1 + d
    BY <1>2, <2>1
  <2>3. TP * PB = stride * PB + PB + d * PB /\ d * PB \in Nat /\ stride * PB \in Nat
    BY <1>2, <2>2
  <2> QED BY <1>2, <2>3
<1>4. e \in Nat /\ q \in Nat /\ q < e /\ e <= TP /\ e <= q + c
  BY <1>2
<1>5. range = [idx \in q .. e - 1 |-> idx - q]
  <2>1. st.start + st.bytes = (q + c) * PB /\ st.bytes \in Nat
    BY <1>2, <1>4
  <2>2. Pages(st.start + st.bytes) = q + c
    BY <1>4, <2>1, PagesIs
  <2>3. \A p \in 0 .. TailPages - 1 : p < Pages(q * PageBytes + st.bytes) <=> p < e
    BY <1>2, <1>4, <2>2
  <2> DEFINE b == st.bytes
  <2>4. /\ q \in Nat /\ b \in Nat /\ e \in Nat /\ e <= TailPages /\ TailPages \in Nat
        /\ \A p \in 0 .. TailPages - 1 : p < Pages(q * PageBytes + b) <=> p < e
    BY <1>2, <1>4, <2>1, <2>3
  <2> HIDE DEF e, b
  <2>5. TailRange(q * PageBytes, b) = [idx \in q .. e - 1 |-> idx - q]
    BY <2>4, TailRangeIs
  <2> QED BY <2>5 DEF b
<1>6. whole <=> q = 0 /\ c >= TP
  <2>1. st.start = 0 <=> q = 0
    BY <1>2, <1>4
  <2>2. st.bytes >= TailBytes <=> c >= TP
    <3> DEFINE x == c * PB
               y == TP * PB
    <3>1. CASE c >= TP
      <4>1. PICK d \in Nat : c = TP + d
        <5>1. c - TP \in Nat /\ c = TP + (c - TP)
          BY <1>2, <3>1
        <5> QED BY <5>1
      <4>2. c * PB = TP * PB + d * PB /\ d * PB \in Nat /\ TP * PB \in Nat
        BY <1>2, <4>1
      <4> QED BY <1>2, <3>1, <4>2
    <3>2. CASE ~(c >= TP)
      <4>1. PICK d \in Nat : TP = c + 1 + d
        <5>1. TP - c - 1 \in Nat /\ TP = c + 1 + (TP - c - 1)
          BY <1>2, <3>2
        <5> QED BY <5>1
      <4>2. TP * PB = c * PB + PB + d * PB /\ d * PB \in Nat /\ c * PB \in Nat
        BY <1>2, <4>1
      <4> QED BY <1>2, <3>2, <4>2
    <3> QED BY <3>1, <3>2
  <2> QED BY <2>1, <2>2
<1>7. consumed = (e - q) * PB
  <2>1. CASE whole
    BY <1>2, <1>6, <2>1
  <2>2. CASE ~whole
    <3>1. DOMAIN range = q .. e - 1
      BY <1>5
    <3>2. Cardinality(q .. e - 1) = (e - 1) - q + 1
      <4> HIDE DEF e
      <4>1. q <= (e - 1) + 1 /\ e - 1 \in Int
        BY <1>4
      <4> QED BY <4>1, CountOf
    <3>3. (e - 1) - q + 1 = e - q /\ e - q \in Nat
      BY <1>4
    <3> HIDE DEF whole, range, e
    <3> QED BY <1>2, <2>2, <3>1, <3>2, <3>3
  <2> QED BY <2>1, <2>2
<1> HIDE DEF whole, range, TP, stride, e
<1>8. consumed \in Nat /\ padding \in Nat /\ padding = (stride - TP) * PB
  BY <1>2, <1>3, <1>4, <1>7
<1>9. passed \in Nat /\ (st.page.memory # NoHeap => passed = (stride - TP + e - q) * PB)
  BY <1>2, <1>6, <1>8, <1>4, <1>7 DEF e
<1> HIDE DEF passed
<1>10. /\ page \in PageOf(Heaps) /\ page.memory = st.page.memory
       /\ st.page.memory # NoHeap => page.offset = st.page.offset + (stride - TP + e - q) * PB
  BY <1>2, <1>9 DEF PageOf
<1>11. bytes \in Nat /\ bytes = IF q + c <= stride THEN 0 ELSE (q + c - stride) * PB
  <2>1. st.start + consumed = e * PB
    BY <1>2, <1>4, <1>7
  <2>2. st.start + consumed >= TailBytes <=> e = TP
    <3>1. CASE e = TP
      BY <1>2, <2>1, <3>1
    <3>2. CASE e < TP
      <4>1. PICK d \in Nat : TP = e + 1 + d
        <5>1. TP - e - 1 \in Nat /\ TP = e + 1 + (TP - e - 1)
          BY <1>2, <1>4, <3>2
        <5> QED BY <5>1
      <4>2. TP * PB = e * PB + PB + d * PB /\ d * PB \in Nat /\ e * PB \in Nat
        BY <1>2, <1>4, <4>1
      <4> HIDE DEF consumed
      <4> QED BY <1>2, <2>1, <3>2, <4>2
    <3> QED BY <1>2, <1>4, <3>1, <3>2
  <2>3. CASE e = TP
    <3>1. st.bytes - consumed - padding = (q + c - stride) * PB
      BY <1>2, <1>4, <2>3, <1>7, <1>8
    <3>2. Max({0, (q + c - stride) * PB}) = IF q + c <= stride THEN 0 ELSE (q + c - stride) * PB
      <4>1. (q + c - stride) * PB \in Int
        BY <1>2, <1>4
      <4>2. q + c <= stride => (q + c - stride) * PB <= 0
        <5>1. ASSUME q + c <= stride PROVE (q + c - stride) * PB <= 0
          BY <1>2, <1>4, <5>1
        <5> QED BY <5>1
      <4>3. q + c > stride => (q + c - stride) * PB > 0
        <5>1. ASSUME q + c > stride PROVE (q + c - stride) * PB > 0
          BY <1>2, <1>4, <5>1
        <5> QED BY <5>1
      <4> DEFINE x == (q + c - stride) * PB
      <4>4. Max({0, x}) = IF 0 >= x THEN 0 ELSE x
        BY <4>1, GreatestOfTwo
      <4>5. q + c <= stride \/ q + c > stride
        BY <1>2, <1>4
      <4> HIDE DEF x
      <4> QED BY <4>1, <4>2, <4>3, <4>4, <4>5 DEF x
    <3>3. bytes = IF q + c <= stride THEN 0 ELSE (q + c - stride) * PB
      BY <2>2, <2>3, <3>1, <3>2
    <3>4. q + c > stride => (q + c - stride) * PB \in Nat
      BY <1>2, <1>4
    <3> HIDE DEF bytes
    <3> QED BY <1>2, <1>4, <3>3, <3>4
  <2>4. CASE e # TP
    BY <2>2, <2>4, <1>2, <1>3, <1>4 DEF e
  <2> QED BY <2>3, <2>4
<1>12. /\ m \in Mapping(Heaps, NumPages(key))
       /\ \A idx \in 0 .. TP - 1 :
             SamePage(getPage(m, idx), IF q <= idx /\ idx < e THEN PagesOn(st.page, idx - q)
                                       ELSE getPage(st.table[key], idx))
  <2>1. CASE whole
    <3>1. q = 0 /\ e = TP /\ \A idx \in 0 .. TP - 1 : q <= idx /\ idx < e /\ idx - q = idx
      BY <1>2, <1>6, <2>1 DEF e
    <3>2. m = SingleMapping(st.page, FALSE)
      BY <2>1
    <3> HIDE DEF m
    <3> QED BY <1>2, <3>1, <3>2, TailWhole DEF TP
  <2>2. CASE ~whole
    <3>1. m = BindPages(st.table[key], TP, [idx \in q .. e - 1 |-> idx - q], st.page, FALSE)
      BY <1>5, <2>2
    <3>2. e \in Nat /\ e <= TailPages /\ q \in Nat /\ st.tail \in 0 .. NumTails - 1 /\ st.page \in PageOf(Heaps)
      BY <1>2, <1>4 DEF TP
    <3> HIDE DEF m, e
    <3> QED BY <3>1, <3>2, TailBound DEF TP
  <2> QED BY <2>1, <2>2
<1> HIDE DEF m, page, bytes
<1>13. /\ IsTable(table) /\ table[key] = m
       /\ \A k \in Subs \cup Tails : k # key => table[k] = st.table[k]
  BY <1>2, <1>12, MappingReplaced DEF Tails, IsTable
<1> HIDE DEF table
<1>14. next \in TailLoops
  BY <1>13, TableType, <1>2, <1>1, <1>10, <1>11 DEF TailLoops
<1>15. /\ next.table = table /\ next.page = page /\ next.tail = st.tail + 1 /\ next.start = 0
       /\ next.bytes = bytes
  BY <1>1
<1> QED BY <1>10, <1>11, <1>12, <1>13, <1>14, <1>15 DEF next, key, e, stride, TP

\* The pages of a tail after those of another.
StridePages == layout.byteStride \div PageBytes

\* Page idx of tail k is not before page p of tail j; and how far it is from that.
NotBefore(j, p, k, idx) == j < k \/ (j = k /\ p <= idx)
Distance(j, p, k, idx)  == (k - j) * StridePages + idx - p

\* Of the tails before t, the pages from the first to the last are bound.
TailsBound(table, after, k1, p1, k2, p2, page, t) ==
    /\ \A key \in Subs : after[key] = table[key]
    /\ \A k \in 0 .. NumTails - 1 : \A idx \in 0 .. TailPages - 1 :
          SamePage(getPage(after[<<"tail", k>>], idx),
                   IF k < t /\ NotBefore(k1, p1, k, idx) /\ NotBefore(k, idx, k2, p2)
                   THEN PagesOn(page, Distance(k1, p1, k, idx))
                   ELSE getPage(table[<<"tail", k>>], idx))

FirstOf(st, k1, p1) == IF st.tail = k1 THEN p1 ELSE 0

LoopRight(table, k1, p1, k2, p2, page, st) ==
    /\ st \in TailLoops /\ IsTable(st.table) /\ st.tail >= k1
    /\ TailsBound(table, st.table, k1, p1, k2, p2, page, st.tail)
    /\ st.tail > k2 => st.bytes = 0
    /\ st.tail <= k2 =>
          /\ st.start = FirstOf(st, k1, p1) * PageBytes
          /\ st.bytes = ((k2 - st.tail) * StridePages + p2 + 1 - FirstOf(st, k1, p1)) * PageBytes
          /\ st.page.memory = page.memory
          /\ page.memory # NoHeap =>
                st.page.offset = page.offset
                    + ((st.tail - k1) * StridePages + FirstOf(st, k1, p1) - p1) * PageBytes

\* What the proofs about the loop assume.
RangeOfTails(table, k1, p1, k2, p2, page) ==
    /\ Known /\ IsTable(table) /\ page \in PageOf(Heaps)
    /\ k1 \in 0 .. NumTails - 1 /\ k2 \in 0 .. NumTails - 1
    /\ p1 \in 0 .. TailPages - 1 /\ p2 \in 0 .. TailPages - 1
    /\ NotBefore(k1, p1, k2, p2)

LEMMA RangeOfTailsIs ==
    ASSUME NEW table, NEW k1, NEW p1, NEW k2, NEW p2, NEW page,
           RangeOfTails(table, k1, p1, k2, p2, page)
    PROVE  /\ Known /\ IsTable(table) /\ page \in PageOf(Heaps)
           /\ NumTails \in Nat /\ TailPages \in Nat /\ StridePages \in Nat /\ PageBytes \in Nat \ {0}
           /\ k1 \in Nat /\ k2 \in Nat /\ k1 < NumTails /\ k2 < NumTails /\ k1 <= k2
           /\ p1 \in Nat /\ p2 \in Nat /\ p1 < TailPages /\ p2 < TailPages
           /\ k1 = k2 => p1 <= p2
           /\ NumTails > 1 => TailPages <= StridePages /\ layout.byteStride = StridePages * PageBytes
<1>1. Known
  BY DEF RangeOfTails
<1>2. NumTails \in Nat /\ TailPages \in Nat /\ PageBytes \in Nat \ {0}
  BY <1>1, TailsAre, PageBytesAssumption
<1>3. StridePages \in Nat
  BY <1>1, LayoutIs, Division, PageBytesAssumption DEF StridePages
<1>4. ASSUME NumTails > 1 PROVE TailPages <= StridePages /\ layout.byteStride = StridePages * PageBytes
  <2>1. /\ layout.byteStride = StridePages * PageBytes
        /\ TailPages * PageBytes <= StridePages * PageBytes
    BY <1>1, <1>4, TailsAre DEF StridePages
  <2>2. SUFFICES ASSUME StridePages < TailPages PROVE FALSE
    BY <1>2, <1>3, <2>1
  <2> DEFINE a == TailPages
             b == StridePages
  <2>3. a \in Nat /\ b \in Nat /\ b < a /\ a * PageBytes <= b * PageBytes
    BY <1>2, <1>3, <2>1, <2>2
  <2> HIDE DEF a, b
  <2>4. PICK d \in Nat : a = b + 1 + d
    BY <2>3
  <2>5. a * PageBytes = b * PageBytes + PageBytes + d * PageBytes /\ d * PageBytes \in Nat
        /\ b * PageBytes \in Nat
    BY <1>2, <2>3, <2>4
  <2> QED BY <1>2, <2>3, <2>5
<1>5. /\ k1 \in 0 .. NumTails - 1 /\ k2 \in 0 .. NumTails - 1
      /\ p1 \in 0 .. TailPages - 1 /\ p2 \in 0 .. TailPages - 1
      /\ k1 < k2 \/ (k1 = k2 /\ p1 <= p2)
  BY DEF RangeOfTails, NotBefore
<1>6. IsTable(table) /\ page \in PageOf(Heaps)
  BY DEF RangeOfTails
<1> QED BY <1>1, <1>2, <1>3, <1>4, <1>5, <1>6

LEMMA TailsStep ==
    ASSUME NEW table, NEW k1, NEW p1, NEW k2, NEW p2, NEW page,
           RangeOfTails(table, k1, p1, k2, p2, page), NumTails > 1,
           NEW st, LoopRight(table, k1, p1, k2, p2, page, st)
    PROVE  /\ LoopRight(table, k1, p1, k2, p2, page, SetNextTail(st, FALSE))
           /\ \/ SetNextTail(st, FALSE).tail = st.tail + 1
              \/ SetNextTail(st, FALSE).tail > k2
<1> DEFINE q == FirstOf(st, k1, p1)
           t == st.tail
           S == StridePages
           TP == TailPages
           c == (k2 - t) * S + p2 + 1 - q
           e == IF q + c < TP THEN q + c ELSE TP
           next == SetOneTail(st, FALSE)
           key == <<"tail", t>>
<1>1. /\ Known /\ IsTable(table) /\ page \in PageOf(Heaps)
      /\ NumTails \in Nat /\ TP \in Nat /\ S \in Nat /\ PageBytes \in Nat \ {0}
      /\ k1 \in Nat /\ k2 \in Nat /\ k1 < NumTails /\ k2 < NumTails /\ k1 <= k2
      /\ p1 \in Nat /\ p2 \in Nat /\ p1 < TP /\ p2 < TP
      /\ k1 = k2 => p1 <= p2
      /\ TP <= S
  BY RangeOfTailsIs
<1>2. /\ st \in TailLoops /\ IsTable(st.table) /\ t >= k1 /\ t \in Nat
      /\ st.page \in PageOf(Heaps) /\ st.bytes \in Nat
      /\ TailsBound(table, st.table, k1, p1, k2, p2, page, t)
      /\ t > k2 => st.bytes = 0
      /\ t <= k2 =>
          /\ st.start = q * PageBytes /\ st.bytes = c * PageBytes
          /\ st.page.memory = page.memory
          /\ page.memory # NoHeap =>
                st.page.offset = page.offset + ((t - k1) * S + q - p1) * PageBytes
  BY DEF LoopRight, TailLoops
<1>3. CASE t > k2
  BY <1>2, <1>3 DEF SetNextTail
<1>4. CASE t <= k2
  <2>1. q \in 0 .. TP - 1 /\ (t = k1 => q = p1) /\ (t # k1 => q = 0)
    BY <1>1 DEF FirstOf
  <2> DEFINE z == (k2 - t) * S
  <2>2. /\ z \in Nat /\ (t = k2 => z = 0) /\ (t < k2 => z >= S /\ z - S = (k2 - (t + 1)) * S)
    <3>1. CASE t = k2
      BY <1>1, <3>1
    <3>2. CASE t < k2
      <4>1. PICK d \in Nat : k2 = t + 1 + d
        <5>1. k2 - t - 1 \in Nat /\ k2 = t + 1 + (k2 - t - 1)
          BY <1>1, <1>2, <3>2
        <5> QED BY <5>1
      <4>2. k2 - t = d + 1 /\ k2 - (t + 1) = d
        BY <1>2, <4>1
      <4>3. (d + 1) * S = d * S + S /\ d * S \in Nat
        BY <1>1, <4>1
      <4> HIDE DEF S
      <4> QED BY <1>1, <3>2, <4>2, <4>3
    <3> QED BY <1>1, <1>2, <1>4, <3>1, <3>2
  <2>3. c = z + p2 + 1 - q
    OBVIOUS
  <2> HIDE DEF q, S, TP, z, c, t
  <2>4. c \in Nat \ {0} /\ (t < k2 => q + c > S) /\ (t = k2 => q + c = p2 + 1 /\ q + c <= S)
        /\ q + c = z + p2 + 1
    BY <1>1, <1>2, <1>4, <2>1, <2>2, <2>3
  <2>5. e \in Nat /\ (t < k2 => e = TP) /\ (t = k2 => e = p2 + 1)
    BY <1>1, <1>2, <1>4, <2>1, <2>2, <2>4
  <2>6. SetNextTail(st, FALSE) = next
    <3>1. st.bytes # 0
      BY <1>1, <2>4, <1>2, <1>4
    <3> QED BY <3>1 DEF SetNextTail
  <2>7. /\ next \in TailLoops /\ IsTable(next.table)
        /\ next.tail = st.tail + 1 /\ next.start = 0
        /\ next.page.memory = st.page.memory
        /\ st.page.memory # NoHeap =>
              next.page.offset = st.page.offset + (S - TP + e - q) * PageBytes
        /\ next.bytes = IF q + c <= S THEN 0 ELSE (q + c - S) * PageBytes
        /\ \A k \in Subs \cup Tails : k # key => next.table[k] = st.table[k]
        /\ \A idx \in 0 .. TP - 1 :
              SamePage(getPage(next.table[key], idx),
                       IF q <= idx /\ idx < e THEN PagesOn(st.page, idx - q)
                       ELSE getPage(st.table[key], idx))
    <3>1. /\ Known /\ NumTails > 1 /\ st \in TailLoops /\ IsTable(st.table) /\ st.tail < NumTails
          /\ q \in 0 .. TailPages - 1 /\ st.start = q * PageBytes
          /\ c \in Nat \ {0} /\ st.bytes = c * PageBytes
      BY <1>1, <1>2, <1>4, <2>1, <2>4 DEF TP, t
    <3> HIDE DEF next
    <3> QED BY <3>1, OneTailIs DEF S, TP, StridePages, key, t, next
  <2> HIDE DEF next, e
  <2>8. next.tail = t + 1
    BY <2>7 DEF t
  <2>9. FirstOf(next, k1, p1) = 0
    BY <1>1, <1>2, <2>8 DEF FirstOf
  <2>10. next.tail > k2 => next.bytes = 0
    BY <1>1, <1>2, <1>4, <2>4, <2>7, <2>8
  <2>11. ASSUME next.tail <= k2
         PROVE  /\ next.start = FirstOf(next, k1, p1) * PageBytes
                /\ next.bytes = ((k2 - next.tail) * S + p2 + 1 - FirstOf(next, k1, p1)) * PageBytes
                /\ next.page.memory = page.memory
                /\ page.memory # NoHeap =>
                     next.page.offset = page.offset
                        + ((next.tail - k1) * S + FirstOf(next, k1, p1) - p1) * PageBytes
    <3>1. t < k2
      BY <1>1, <1>2, <2>8, <2>11
    <3>2. next.start = FirstOf(next, k1, p1) * PageBytes
      BY <1>1, <2>7, <2>9
    <3>3. next.bytes = ((k2 - next.tail) * S + p2 + 1 - FirstOf(next, k1, p1)) * PageBytes
      BY <1>1, <2>1, <2>4, <2>7, <3>1, <2>2, <2>8, <2>9
    <3>4. next.page.memory = page.memory
      BY <1>2, <1>4, <2>7
    <3>5. ASSUME page.memory # NoHeap
          PROVE  next.page.offset = page.offset
                        + ((next.tail - k1) * S + FirstOf(next, k1, p1) - p1) * PageBytes
      <4> DEFINE w == (t - k1) * S
      <4>1. w \in Nat /\ ((t + 1) - k1) * S = w + S /\ (t = k1 => w = 0)
        BY <1>1, <1>2
      <4> HIDE DEF w
      <4>2. st.page.offset = page.offset + (w + q - p1) * PageBytes
        BY <1>2, <1>4, <3>5 DEF w
      <4>3. next.page.offset = st.page.offset + (S - TP + TP - q) * PageBytes
        BY <1>2, <1>4, <2>5, <2>7, <3>1, <3>5
      <4>4. (w + q - p1) * PageBytes + (S - TP + TP - q) * PageBytes = (w + S + 0 - p1) * PageBytes
        BY <1>1, <2>1, <4>1
      <4>5. page.offset \in Nat
        BY <1>1 DEF PageOf
      <4>6. (w + q - p1) * PageBytes \in Int /\ (S - TP + TP - q) * PageBytes \in Int
        BY <1>1, <2>1, <4>1
      <4>7. next.page.offset = page.offset + (w + S + 0 - p1) * PageBytes
        BY <4>2, <4>3, <4>4, <4>5, <4>6
      <4> QED BY <2>8, <2>9, <4>1, <4>7
    <3> QED BY <3>2, <3>3, <3>4, <3>5
  <2>12. TailsBound(table, next.table, k1, p1, k2, p2, page, t + 1)
    <3>1. \A k \in Subs : next.table[k] = table[k]
      BY <1>2, <2>7 DEF Subs, TailsBound
    <3>2. ASSUME NEW k \in 0 .. NumTails - 1, NEW idx \in 0 .. TP - 1
          PROVE  SamePage(getPage(next.table[<<"tail", k>>], idx),
                   IF k < t + 1 /\ NotBefore(k1, p1, k, idx) /\ NotBefore(k, idx, k2, p2)
                   THEN PagesOn(page, Distance(k1, p1, k, idx))
                   ELSE getPage(table[<<"tail", k>>], idx))
      <4>1. SamePage(getPage(st.table[<<"tail", k>>], idx),
                   IF k < t /\ NotBefore(k1, p1, k, idx) /\ NotBefore(k, idx, k2, p2)
                   THEN PagesOn(page, Distance(k1, p1, k, idx))
                   ELSE getPage(table[<<"tail", k>>], idx))
        BY <1>2 DEF TailsBound, TP
      <4>2. CASE k # t
        BY <4>2, <2>7, <1>1, <1>2, <4>1 DEF Tails
      <4>3. CASE k = t
        <5>1. ~(k < t) /\ k < t + 1
          BY <1>2, <4>3
        <5>2. SamePage(getPage(st.table[key], idx), getPage(table[key], idx))
          BY <4>1, <4>3, <5>1
        <5>3. SamePage(getPage(next.table[key], idx),
                       IF q <= idx /\ idx < e THEN PagesOn(st.page, idx - q)
                       ELSE getPage(st.table[key], idx))
          BY <2>7
        <5>4. (q <= idx /\ idx < e) <=> (NotBefore(k1, p1, t, idx) /\ NotBefore(t, idx, k2, p2))
          BY <1>1, <1>2, <1>4, <2>1, <2>5 DEF NotBefore
        <5>5. ASSUME q <= idx, idx < e
              PROVE  SamePage(PagesOn(st.page, idx - q), PagesOn(page, Distance(k1, p1, t, idx)))
          <6>1. CASE page.memory = NoHeap
            BY <1>2, <1>4, <6>1 DEF PagesOn, SamePage
          <6>2. CASE page.memory # NoHeap
            <7> DEFINE w == (t - k1) * S
            <7>1. w \in Int /\ page.offset \in Nat /\ idx \in Nat /\ q \in Nat
              BY <1>1, <1>2, <2>1 DEF PageOf
            <7>2. st.page.offset = page.offset + (w + q - p1) * PageBytes /\ st.page.memory = page.memory
              BY <1>2, <1>4, <6>2
            <7>3. Distance(k1, p1, t, idx) = w + idx - p1
              BY DEF Distance, S
            <7> HIDE DEF w
            <7>4. (w + q - p1) * PageBytes + (idx - q) * PageBytes = (w + idx - p1) * PageBytes
              BY <1>1, <7>1
            <7>5. (w + q - p1) * PageBytes \in Int /\ (idx - q) * PageBytes \in Int
              BY <1>1, <7>1
            <7>6. page.offset + (w + q - p1) * PageBytes + (idx - q) * PageBytes
                    = page.offset + (w + idx - p1) * PageBytes
              BY <7>1, <7>4, <7>5
            <7>7. PagesOn(page, w + idx - p1).memory = page.memory
                  /\ PagesOn(page, w + idx - p1).offset = page.offset + (w + idx - p1) * PageBytes
              BY <1>1, <6>2 DEF PagesOn, PageOf
            <7>8. /\ PagesOn(st.page, idx - q).memory = page.memory
                  /\ PagesOn(st.page, idx - q).offset = st.page.offset + (idx - q) * PageBytes
              BY <1>2, <6>2, <7>2 DEF PagesOn, PageOf
            <7> QED BY <7>2, <7>3, <7>6, <7>7, <7>8 DEF SamePage
          <6> QED BY <6>1, <6>2
        <5> QED BY <4>3, <5>1, <5>2, <5>3, <5>4, <5>5 DEF SamePage
      <4> QED BY <4>2, <4>3
    <3> QED BY <3>1, <3>2 DEF TailsBound, TP
  <2>13. next.tail >= k1
    BY <1>1, <1>2, <2>8
  <2>14. LoopRight(table, k1, p1, k2, p2, page, next)
    BY <2>7, <2>8, <2>10, <2>11, <2>12, <2>13 DEF LoopRight, S
  <2> QED BY <2>6, <2>8, <2>14 DEF t
<1>5. t > k2 \/ t <= k2
  BY <1>1, <1>2
<1> QED BY <1>3, <1>4, <1>5

LEMMA SetTailsIs ==
    ASSUME NEW table, NEW k1, NEW p1, NEW k2, NEW p2, NEW page,
           RangeOfTails(table, k1, p1, k2, p2, page), NumTails > 1,
           NEW start, start = [table |-> table, page |-> page, tail |-> k1,
                  bytes |-> ((k2 - k1) * StridePages + p2 + 1 - p1) * PageBytes,
                  start |-> p1 * PageBytes]
    PROVE  /\ IsTable(SetTails(start, FALSE))
           /\ TailsBound(table, SetTails(start, FALSE), k1, p1, k2, p2, page, NumTails)
<1> DEFINE N == NumTails - start.tail
           S == {st \in TailLoops : LoopRight(table, k1, p1, k2, p2, page, st)}
           eq(f) == f = [n \in 0 .. N |-> IF n = 0 THEN start ELSE SetNextTail(f[n - 1], FALSE)]
           after == CHOOSE f : eq(f)
           step == [n \in 1 .. N |-> [st \in S |-> SetNextTail(st, FALSE)]]
<1>1. /\ Known /\ IsTable(table) /\ page \in PageOf(Heaps)
      /\ NumTails \in Nat /\ TailPages \in Nat /\ StridePages \in Nat /\ PageBytes \in Nat \ {0}
      /\ k1 \in Nat /\ k2 \in Nat /\ k1 < NumTails /\ k2 < NumTails /\ k1 <= k2
      /\ p1 \in Nat /\ p2 \in Nat /\ p1 < TailPages /\ p2 < TailPages
      /\ k1 = k2 => p1 <= p2
      /\ TailPages <= StridePages
  BY RangeOfTailsIs
<1>2. start.tail = k1 /\ N \in Nat \ {0} /\ N = NumTails - k1
  BY <1>1
<1>3. SetTails(start, FALSE) = after[N].table
  BY DEF SetTails
<1>4. start \in S
  <2> DEFINE c == (k2 - k1) * StridePages + p2 + 1 - p1
  <2>1. c \in Nat
    <3> DEFINE z == (k2 - k1) * StridePages
               T == StridePages
    <3>1. z \in Nat /\ (k1 < k2 => z >= T) /\ T \in Nat
      <4>1. CASE k1 = k2
        BY <1>1, <4>1
      <4>2. CASE k1 < k2
        <5>1. PICK d \in Nat : k2 = k1 + 1 + d
          BY <1>1, <4>2
        <5>2. k2 - k1 = d + 1
          BY <1>1, <5>1
        <5>3. T \in Nat
          BY <1>1
        <5> HIDE DEF T
        <5>4. (d + 1) * T = d * T + T /\ d * T \in Nat
          BY <5>1, <5>3
        <5> QED BY <5>2, <5>3, <5>4 DEF T
      <4> QED BY <1>1, <4>1, <4>2
    <3>2. T >= TailPages
      BY <1>1
    <3> HIDE DEF z, T
    <3> QED BY <1>1, <3>1, <3>2 DEF z
  <2>2. c * PageBytes \in Nat /\ p1 * PageBytes \in Nat
    BY <1>1, <2>1
  <2>3. table \in [Subs \cup Tails -> AllMappings]
    BY <1>1, TableType
  <2> HIDE DEF c
  <2>4. start = [table |-> table, page |-> page, tail |-> k1, bytes |-> c * PageBytes, start |-> p1 * PageBytes]
    BY DEF c
  <2>5. start \in TailLoops
    BY <1>1, <2>2, <2>3, <2>4 DEF TailLoops
  <2>6. TailsBound(table, table, k1, p1, k2, p2, page, k1)
    BY <1>1 DEF NotBefore, TailsBound, SamePage
  <2>7. FirstOf(start, k1, p1) = p1
    BY <2>4 DEF FirstOf
  <2>8. page.offset = page.offset + ((k1 - k1) * StridePages + p1 - p1) * PageBytes
    BY <1>1 DEF PageOf
  <2>9. ~(start.tail > k2) /\ start.tail >= k1
    BY <1>1, <2>4
  <2> QED BY <1>1, <2>4, <2>5, <2>6, <2>7, <2>8, <2>9 DEF LoopRight, c
<1>5. ASSUME NEW st \in S
      PROVE  /\ SetNextTail(st, FALSE) \in S
             /\ SetNextTail(st, FALSE).tail = st.tail + 1 \/ SetNextTail(st, FALSE).tail > k2
  <2>1. LoopRight(table, k1, p1, k2, p2, page, st)
    OBVIOUS
  <2>2. /\ LoopRight(table, k1, p1, k2, p2, page, SetNextTail(st, FALSE))
        /\ SetNextTail(st, FALSE).tail = st.tail + 1 \/ SetNextTail(st, FALSE).tail > k2
    BY <2>1, TailsStep
  <2> QED BY <2>2 DEF LoopRight
<1> HIDE DEF S, N
<1>6. \E f : eq(f)
  <2>1. step \in [1 .. N -> [S -> S]]
    BY <1>5
  <2>2. \A n \in 1 .. N : \A st \in S : step[n][st] = SetNextTail(st, FALSE)
    OBVIOUS
  <2> HIDE DEF step
  <2>3. PICK f : Iterated(f, S, start, N, step)
    BY <1>2, <1>4, <2>1, Iterating
  <2>4. ASSUME NEW n \in 0 .. N, n # 0 PROVE step[n][f[n - 1]] = SetNextTail(f[n - 1], FALSE)
    <3>1. n - 1 \in 0 .. N /\ n \in 1 .. N
      BY <1>2, <2>4
    <3>2. f[n - 1] \in S
      BY <2>3, <3>1 DEF Iterated
    <3> QED BY <2>2, <3>1, <3>2
  <2>5. [n \in 0 .. N |-> IF n = 0 THEN start ELSE step[n][f[n - 1]]]
        = [n \in 0 .. N |-> IF n = 0 THEN start ELSE SetNextTail(f[n - 1], FALSE)]
    BY <2>4
  <2>6. eq(f)
    BY <2>3, <2>5 DEF Iterated
  <2> QED BY <2>6
<1>7. eq(after)
  BY <1>6
<1> HIDE DEF after
<1>8. after[0] = start /\ \A n \in 1 .. N : after[n] = SetNextTail(after[n - 1], FALSE)
  <2>1. 0 \in 0 .. N /\ \A n \in 1 .. N : n \in 0 .. N /\ n # 0
    BY <1>2
  <2> QED BY <1>7, <2>1
<1> HIDE DEF eq
<1> DEFINE T == {n \in 0 .. N : after[n] \in S /\ (after[n].tail = k1 + n \/ after[n].tail > k2)}
<1>9. 0 \in T
  BY <1>1, <1>2, <1>4, <1>8
<1>10. ASSUME NEW n \in 1 .. N, n - 1 \in T PROVE n \in T
  <2>1. after[n] = SetNextTail(after[n - 1], FALSE) /\ after[n - 1] \in S
    BY <1>8, <1>10
  <2>2. after[n] \in S /\ (after[n].tail = after[n - 1].tail + 1 \/ after[n].tail > k2)
    BY <1>5, <2>1
  <2>3. after[n - 1].tail > k2 => after[n].tail > k2
    <3>1. ASSUME after[n - 1].tail > k2 PROVE after[n] = after[n - 1]
      BY <2>1, <3>1 DEF S, LoopRight, SetNextTail
    <3> QED BY <3>1
  <2>4. after[n - 1].tail = k1 + (n - 1) \/ after[n - 1].tail > k2
    BY <1>10
  <2>5. (k1 + (n - 1)) + 1 = k1 + n /\ n \in 0 .. N
    BY <1>1, <1>2
  <2> QED BY <2>2, <2>3, <2>4, <2>5
<1>11. N \in T
  <2>1. \A n \in 0 .. N : n \in T
    BY <1>2, <1>9, <1>10, Counting
  <2> HIDE DEF T
  <2> QED BY <1>2, <2>1
<1> DEFINE end == after[N]
<1>12. /\ LoopRight(table, k1, p1, k2, p2, page, end) /\ end.tail \in Nat
       /\ end.tail = NumTails \/ end.tail > k2
  BY <1>11, <1>1, <1>2 DEF S, TailLoops
<1> HIDE DEF end
<1>13. end.tail > k2
  BY <1>1, <1>12
<1>14. TailsBound(table, end.table, k1, p1, k2, p2, page, NumTails)
  <2>1. TailsBound(table, end.table, k1, p1, k2, p2, page, end.tail)
    BY <1>12 DEF LoopRight
  <2>2. ASSUME NEW k \in 0 .. NumTails - 1, NEW idx \in 0 .. TailPages - 1
        PROVE  k < NumTails /\ NotBefore(k1, p1, k, idx) /\ NotBefore(k, idx, k2, p2)
                 <=> k < end.tail /\ NotBefore(k1, p1, k, idx) /\ NotBefore(k, idx, k2, p2)
    BY <1>1, <1>12, <1>13 DEF NotBefore
  <2> QED BY <2>1, <2>2 DEF TailsBound
<1>15. IsTable(end.table)
  BY <1>12 DEF LoopRight
<1> QED BY <1>3, <1>14, <1>15 DEF end

\* setMipTailRange binds the pages of the tails from the first to the last.
LEMMA SomeTailsAre ==
    ASSUME NEW table, NEW k1, NEW p1, NEW k2, NEW p2, NEW page,
           RangeOfTails(table, k1, p1, k2, p2, page), NumTails > 1,
           NEW bytes, bytes = ((k2 - k1) * StridePages + p2 + 1 - p1) * PageBytes,
           ~(k1 = 0 /\ p1 = 0 /\ bytes = layout.packed)
    PROVE  LET after == setMipTailRange(table, layout.byteOffset + k1 * layout.byteStride + p1 * PageBytes,
                                        page, bytes, FALSE)
           IN IsTable(after) /\ TailsBound(table, after, k1, p1, k2, p2, page, NumTails)
<1> DEFINE at == layout.byteOffset + k1 * layout.byteStride + p1 * PageBytes
           from == at - layout.byteOffset
           first == from \div layout.byteStride
           start == [table |-> table, page |-> page, tail |-> k1, bytes |-> bytes, start |-> p1 * PageBytes]
<1>1. /\ Known /\ IsTable(table) /\ page \in PageOf(Heaps)
      /\ NumTails \in Nat /\ TailPages \in Nat /\ StridePages \in Nat /\ PageBytes \in Nat \ {0}
      /\ k1 \in Nat /\ k2 \in Nat /\ k1 < NumTails /\ k2 < NumTails /\ k1 <= k2
      /\ p1 \in Nat /\ p2 \in Nat /\ p1 < TailPages /\ p2 < TailPages
      /\ TailPages <= StridePages /\ layout.byteStride = StridePages * PageBytes
  BY RangeOfTailsIs
<1>2. layout.byteOffset \in Nat /\ layout.byteStride \in Nat /\ layout.byteStride > 0
      /\ layout.packed = NumTails * TailBytes /\ TailBytes = TailPages * PageBytes /\ layout.packed \in Nat
  BY <1>1, TailsAre, LayoutIs
<1>3. p1 * PageBytes \in Nat /\ p1 * PageBytes < layout.byteStride
  <2> DEFINE S == StridePages
  <2>1. p1 < S /\ S \in Nat /\ layout.byteStride = S * PageBytes
    BY <1>1
  <2> HIDE DEF S
  <2>2. PICK d \in Nat : S = p1 + 1 + d
    BY <1>1, <2>1
  <2>3. S * PageBytes = p1 * PageBytes + PageBytes + d * PageBytes
        /\ d * PageBytes \in Nat /\ p1 * PageBytes \in Nat
    BY <1>1, <2>2
  <2> QED BY <1>1, <2>1, <2>3
<1>4. from = k1 * layout.byteStride + p1 * PageBytes
  BY <1>1, <1>2, <1>3
<1>5. first = k1 /\ from - first * layout.byteStride = p1 * PageBytes
  <2> DEFINE s == layout.byteStride
             b == p1 * PageBytes
  <2>1. s \in Nat \ {0} /\ b \in Nat /\ b < s /\ from = k1 * s + b
    BY <1>2, <1>3, <1>4
  <2> HIDE DEF s, b, from
  <2>2. (k1 * s + b) \div s = k1
    BY <1>1, <2>1, DivisionIs
  <2>3. k1 * s \in Nat /\ (k1 * s + b) - k1 * s = b
    BY <1>1, <2>1
  <2> QED BY <2>1, <2>2, <2>3 DEF s, b
<1>6. ~(from = 0 /\ bytes \in {layout.packed, Pages(layout.packed) * PageBytes})
  <2>1. Pages(layout.packed) * PageBytes = layout.packed
    <3> DEFINE n == NumTails * TailPages
    <3>1. n \in Nat /\ layout.packed = n * PageBytes
      BY <1>1, <1>2
    <3> HIDE DEF n
    <3> QED BY <3>1, PagesIs
  <2>2. from = 0 => k1 = 0 /\ p1 = 0
    <3>1. k1 * layout.byteStride \in Nat
      BY <1>1, <1>2
    <3>2. from = 0 => k1 * layout.byteStride = 0 /\ p1 * PageBytes = 0
      BY <1>3, <1>4, <3>1
    <3>3. k1 * layout.byteStride = 0 => k1 = 0
      BY <1>2, <1>1
    <3>4. p1 * PageBytes = 0 => p1 = 0
      BY <1>1
    <3> HIDE DEF from
    <3> QED BY <3>2, <3>3, <3>4
  <2> HIDE DEF from
  <2> QED BY <2>1, <2>2
<1>7. setMipTailRange(table, at, page, bytes, FALSE) = SetTails(start, FALSE)
  <2>1. NumTails # 1
    BY <1>1
  <2>2. [table |-> table, page |-> page, tail |-> first, bytes |-> bytes,
         start |-> from - first * layout.byteStride] = start
    BY <1>5
  <2> HIDE DEF at, first, start
  <2>3. setMipTailRange(table, at, page, bytes, FALSE) =
          SetTails([table |-> table, page |-> page, tail |-> first, bytes |-> bytes,
                    start |-> from - first * layout.byteStride], FALSE)
    BY <1>6, <2>1, Zenon DEF setMipTailRange, first
  <2> QED BY <2>2, <2>3
<1>8. start = [table |-> table, page |-> page, tail |-> k1,
                  bytes |-> ((k2 - k1) * StridePages + p2 + 1 - p1) * PageBytes,
                  start |-> p1 * PageBytes]
  OBVIOUS
<1> HIDE DEF start
<1>9. IsTable(SetTails(start, FALSE)) /\ TailsBound(table, SetTails(start, FALSE), k1, p1, k2, p2, page, NumTails)
  BY <1>8, SetTailsIs
<1> QED BY <1>7, <1>9

LEMMA TheTailIs ==
    ASSUME NEW table, NEW k1, NEW p1, NEW k2, NEW p2, NEW page,
           RangeOfTails(table, k1, p1, k2, p2, page), NumTails = 1,
           NEW bytes \in Nat, Pages(p1 * PageBytes + bytes) = p2 + 1
    PROVE  LET after == setMipTailRange(table, layout.byteOffset + k1 * layout.byteStride + p1 * PageBytes,
                                        page, bytes, FALSE)
           IN IsTable(after) /\ TailsBound(table, after, k1, p1, k2, p2, page, NumTails)
<1> DEFINE at == layout.byteOffset + k1 * layout.byteStride + p1 * PageBytes
           from == at - layout.byteOffset
           key == <<"tail", 0>>
           after == setMipTailRange(table, at, page, bytes, FALSE)
<1>1. /\ Known /\ IsTable(table) /\ page \in PageOf(Heaps)
      /\ TailPages \in Nat /\ StridePages \in Nat /\ PageBytes \in Nat \ {0}
      /\ k1 = 0 /\ k2 = 0 /\ p1 \in Nat /\ p2 \in Nat /\ p1 < TailPages /\ p2 < TailPages /\ p1 <= p2
  BY RangeOfTailsIs
<1>2. layout.byteOffset \in Nat /\ layout.byteStride \in Nat /\ layout.packed \in Nat
      /\ TailPages = Pages(layout.packed)
  BY <1>1, TailsAre, LayoutIs DEF TailPages
<1>3. from = p1 * PageBytes
  BY <1>1, <1>2
<1>4. DOMAIN table = Subs \cup Tails /\ Tails = {key} /\ key \in Subs \cup Tails
      /\ table = [k \in Subs \cup Tails |-> table[k]] /\ key \notin Subs
  <2>1. Tails = {key}
    BY DEF Tails
  <2>2. key \notin Subs
    BY DEF Subs
  <2>3. table = [k \in Subs \cup Tails |-> table[k]]
    BY <1>1, Zenon DEF IsTable
  <2> HIDE DEF key
  <2> QED BY <2>1, <2>2, <2>3
<1> DEFINE all == from = 0 /\ bytes \in {layout.packed, Pages(layout.packed) * PageBytes}
<1>5. all => p1 = 0 /\ p2 + 1 = TailPages
  <2>1. from = 0 => p1 = 0
    BY <1>1, <1>3
  <2>2. bytes = layout.packed \/ bytes = TailPages * PageBytes => Pages(bytes) = TailPages
    BY <1>1, PagesIs, <1>2
  <2>3. p1 = 0 => p1 * PageBytes + bytes = bytes
    BY <1>1
  <2> HIDE DEF from
  <2> QED BY <1>2, <2>1, <2>2, <2>3
<1> DEFINE m == IF all THEN SingleMapping(page, FALSE)
                ELSE BindPages(table[key], TailPages, [idx \in p1 .. p2 |-> idx - p1], page, FALSE)
<1>6. after = [table EXCEPT ![key] = m]
  <2>1. CASE all
    <3>1. after = [k \in DOMAIN table |->
                     IF k \notin Tails THEN table[k]
                     ELSE SingleMapping([page EXCEPT !.offset = @ + IF FALSE THEN 0 ELSE
                         layout.byteStride * ((k[2] * (k[2] - 1)) \div 2)], FALSE)]
      BY <2>1 DEF setMipTailRange
    <3>2. layout.byteStride * ((key[2] * (key[2] - 1)) \div 2) = 0
      BY <1>2
    <3>3. [page EXCEPT !.offset = @ + IF FALSE THEN 0 ELSE
                         layout.byteStride * ((key[2] * (key[2] - 1)) \div 2)] = page
      BY <1>1, <3>2 DEF PageOf
    <3>4. m = SingleMapping(page, FALSE)
      BY <2>1
    <3> HIDE DEF all, m, key, after
    <3> QED BY <1>4, <3>1, <3>3, <3>4
  <2>2. CASE ~all
    <3>1. after = [table EXCEPT ![key] = BindPages(@, TailPages, TailRange(from, bytes), page, FALSE)]
      BY <2>2 DEF setMipTailRange
    <3>2. TailRange(from, bytes) = [idx \in p1 .. (p2 + 1) - 1 |-> idx - p1]
      <4> DEFINE e == p2 + 1
      <4>1. e \in Nat /\ e <= TailPages /\ Pages(p1 * PageBytes + bytes) = e
        BY <1>1
      <4> HIDE DEF e
      <4>2. TailRange(p1 * PageBytes, bytes) = [idx \in p1 .. e - 1 |-> idx - p1]
        BY <1>1, <4>1, TailRangeIs
      <4> QED BY <1>3, <4>2 DEF e
    <3>3. (p2 + 1) - 1 = p2
      BY <1>1
    <3>4. m = BindPages(table[key], TailPages, TailRange(from, bytes), page, FALSE)
      BY <2>2, <3>2, <3>3
    <3> HIDE DEF all, m, key, after, from
    <3> QED BY <1>4, <3>1, <3>4
  <2> QED BY <2>1, <2>2
<1>7. /\ m \in Mapping(Heaps, NumPages(key))
      /\ \A idx \in 0 .. TailPages - 1 :
           SamePage(getPage(m, idx), IF p1 <= idx /\ idx <= p2 THEN PagesOn(page, idx - p1)
                                     ELSE getPage(table[key], idx))
  <2>0. 0 \in 0 .. NumTails - 1
    OBVIOUS
  <2>1. CASE all
    <3>1. m = SingleMapping(page, FALSE)
      BY <2>1
    <3>2. \A idx \in 0 .. TailPages - 1 : p1 <= idx /\ idx <= p2 /\ idx - p1 = idx
      BY <1>1, <1>5, <2>1
    <3> HIDE DEF all, m
    <3> QED BY <1>1, <2>0, <3>1, <3>2, TailWhole
  <2>2. CASE ~all
    <3> DEFINE e == p2 + 1
    <3>1. m = BindPages(table[key], TailPages, [idx \in p1 .. e - 1 |-> idx - p1], page, FALSE)
      <4>1. e - 1 = p2
        BY <1>1
      <4> QED BY <2>2, <4>1
    <3>2. e \in Nat /\ e <= TailPages /\ \A idx \in 0 .. TailPages - 1 : idx < e <=> idx <= p2
      BY <1>1
    <3> HIDE DEF all, m, e
    <3>3. /\ m \in Mapping(Heaps, NumPages(key))
          /\ \A idx \in 0 .. TailPages - 1 :
               SamePage(getPage(m, idx), IF p1 <= idx /\ idx < e THEN PagesOn(page, idx - p1)
                                     ELSE getPage(table[key], idx))
      BY <1>1, <2>0, <3>1, <3>2, TailBound
    <3> QED BY <3>2, <3>3
  <2> QED BY <2>1, <2>2
<1> HIDE DEF m, all
<1>8. /\ IsTable(after) /\ after[key] = m
      /\ \A k \in Subs \cup Tails : k # key => after[k] = table[k]
  <2> HIDE DEF after, key
  <2> QED BY <1>1, <1>4, <1>6, <1>7, MappingReplaced
<1> HIDE DEF after
<1>9. ASSUME NEW k \in 0 .. NumTails - 1, NEW idx \in 0 .. TailPages - 1
      PROVE  SamePage(getPage(after[<<"tail", k>>], idx),
                   IF k < NumTails /\ NotBefore(k1, p1, k, idx) /\ NotBefore(k, idx, k2, p2)
                   THEN PagesOn(page, Distance(k1, p1, k, idx))
                   ELSE getPage(table[<<"tail", k>>], idx))
  <2>1. k = 0 /\ k < NumTails
    OBVIOUS
  <2>2. NotBefore(k1, p1, k, idx) /\ NotBefore(k, idx, k2, p2) <=> p1 <= idx /\ idx <= p2
    BY <1>1, <2>1 DEF NotBefore
  <2>3. Distance(k1, p1, k, idx) = idx - p1
    BY <1>1, <2>1 DEF Distance
  <2> QED BY <1>7, <1>8, <2>1, <2>2, <2>3
<1>10. \A k \in Subs : after[k] = table[k]
  BY <1>4, <1>8
<1>11. TailsBound(table, after, k1, p1, k2, p2, page, NumTails)
  BY <1>9, <1>10 DEF TailsBound
<1> QED BY <1>8, <1>11 DEF after

-----------------------------------------------------------------------------
(* What a replay binds.                                                    *)

Runs(M) == [first : Nat, count : Nat \ {0}, page : PageOf(M)]

InRun(run, idx) == run.first <= idx /\ idx < run.first + run.count

\* The runs bind the pages before p as they are.
RunsRight(M, runs, pages, p) ==
    /\ runs \in Seq(Runs(M))
    /\ \A i \in 1 .. Len(runs) : runs[i].first + runs[i].count <= p
    /\ \A i \in 1 .. Len(runs) : \A idx \in 0 .. p - 1 :
          InRun(runs[i], idx) => SamePage(PagesOn(runs[i].page, idx - runs[i].first), pages[idx])
    /\ \A idx \in 0 .. p - 1 : \E i \in 1 .. Len(runs) : InRun(runs[i], idx)
    /\ runs # <<>> => runs[Len(runs)].first + runs[Len(runs)].count = p

LEMMA RunsBind ==
    ASSUME NEW M, NEW runs, NEW pages, NEW n \in Nat, RunsRight(M, runs, pages, n), NEW idx \in 0 .. n - 1
    PROVE  SamePage(PageOfRuns(runs, idx), pages[idx])
<1> DEFINE I == {i \in 1 .. Len(runs) : runs[i].first <= idx /\ idx < runs[i].first + runs[i].count}
           r == SelectInSeq(runs, LAMBDA x : x.first <= idx /\ idx < x.first + x.count)
<1>1. I # {} /\ I \in SUBSET Nat
  BY DEF RunsRight, InRun
<1>2. r = Min(I)
  BY <1>1 DEF SelectInSeq
<1>3. r \in I
  BY <1>1, <1>2, LeastIs
<1>4. PageOfRuns(runs, idx) = PagesOn(runs[r].page, idx - runs[r].first)
  BY DEF PageOfRuns
<1> HIDE DEF r
<1> QED BY <1>3, <1>4 DEF RunsRight, InRun

\* Where pages with memory differ, it does not matter that the code joins pages
\* that are like the second of a run.
LEMMA BindPageIs ==
    ASSUME NEW M, NEW n \in Nat, NEW pages \in [0 .. n - 1 -> PageOf(M)], NEW p \in 0 .. n - 1,
           layout \in D3D12Layouts \/
              \A i, k \in 0 .. n - 1 : i # k /\ pages[i].memory # NoHeap => ~SamePage(pages[i], pages[k]),
           NEW runs, RunsRight(M, runs, pages, p)
    PROVE  RunsRight(M, BindPage(runs, p, pages[p]), pages, p + 1)
<1> DEFINE page == pages[p]
           L == Len(runs)
           run == runs[L]
           after == BindPage(runs, p, page)
<1>1. page \in PageOf(M) /\ p \in Nat /\ n \in Nat /\ p < n
  OBVIOUS
<1>2. /\ runs \in Seq(Runs(M)) /\ L \in Nat
      /\ \A i \in 1 .. L : /\ runs[i] \in Runs(M) /\ runs[i].first \in Nat /\ runs[i].count \in Nat \ {0}
                           /\ runs[i].page \in PageOf(M) /\ runs[i].first + runs[i].count <= p
                           /\ \A idx \in 0 .. p - 1 : InRun(runs[i], idx) =>
                                 SamePage(PagesOn(runs[i].page, idx - runs[i].first), pages[idx])
      /\ \A idx \in 0 .. p - 1 : \E i \in 1 .. L : InRun(runs[i], idx)
      /\ runs # <<>> => run.first + run.count = p
  <2>1. runs \in Seq(Runs(M)) /\ L \in Nat
    BY DEF RunsRight
  <2>2. \A i \in 1 .. L : runs[i] \in Runs(M)
    BY <2>1
  <2>3. \A i \in 1 .. L : /\ runs[i].first \in Nat /\ runs[i].count \in Nat \ {0} /\ runs[i].page \in PageOf(M)
    BY <2>2 DEF Runs
  <2> QED BY <2>1, <2>2, <2>3 DEF RunsRight
<1>3. CASE runs # <<>> /\ Joins(Last(runs), page)
  <2>1. L \in 1 .. L /\ Last(runs) = run
    BY <1>2, <1>3 DEF Last
  <2> DEFINE longer == [run EXCEPT !.count = @ + 1]
  <2>2. /\ run \in Runs(M) /\ run.first \in Nat /\ run.count \in Nat \ {0} /\ run.page \in PageOf(M)
        /\ run.first + run.count = p /\ run.page.offset \in Nat
    BY <1>2, <1>3, <2>1 DEF PageOf
  <2>3. /\ longer \in Runs(M) /\ longer.first = run.first /\ longer.count = run.count + 1
        /\ longer.page = run.page
    BY <2>2 DEF Runs
  <2>4. after = [runs EXCEPT ![L] = longer]
    BY <1>3 DEF BindPage
  <2> HIDE DEF longer, after, page, run, L
  <2>5. /\ after \in Seq(Runs(M)) /\ Len(after) = L /\ after[L] = longer
        /\ \A i \in 1 .. L : i # L => after[i] = runs[i]
    BY <1>2, <2>1, <2>3, <2>4 DEF L
  <2>6. ASSUME NEW i \in 1 .. L PROVE after[i].first + after[i].count <= p + 1
    <3>1. CASE i = L
      BY <1>1, <2>2, <2>3, <2>5, <3>1
    <3>2. CASE i # L
      <4>1. after[i] = runs[i]
        BY <2>5, <3>2
      <4>2. runs[i].first + runs[i].count <= p /\ runs[i].first \in Nat /\ runs[i].count \in Nat
        BY <1>2
      <4> QED BY <1>1, <4>1, <4>2
    <3> QED BY <3>1, <3>2
  <2>7. SamePage(PagesOn(run.page, run.count), page)
    <3>1. /\ page.memory = run.page.memory
          /\ \/ page.memory = NoHeap
             \/ page.offset = run.page.offset
                          + PageBytes * (IF layout \in D3D12Layouts THEN run.count ELSE 1)
      BY <1>3, <2>1 DEF Joins
    <3>2. CASE page.memory = NoHeap
      BY <3>1, <3>2 DEF SamePage, PagesOn
    <3>3. CASE page.memory # NoHeap /\ (layout \in D3D12Layouts \/ run.count = 1)
      BY <2>2, <3>1, <3>3, PageBytesAssumption DEF PagesOn, PageOf, SamePage
    <3>4. CASE page.memory # NoHeap /\ ~(layout \in D3D12Layouts) /\ run.count # 1
      <4> DEFINE s == run.first + 1
      <4>1. s \in 0 .. p - 1 /\ InRun(run, s) /\ s - run.first = 1 /\ s # p
        BY <1>1, <2>2, <3>4 DEF InRun
      <4>2. SamePage(PagesOn(run.page, 1), pages[s])
        BY <1>2, <2>1, <4>1 DEF run
      <4>3. /\ PagesOn(run.page, 1).memory = run.page.memory
            /\ PagesOn(run.page, 1).offset = run.page.offset + 1 * PageBytes
        BY <2>2, <3>1, <3>4 DEF PagesOn, PageOf
      <4>4. page.offset = run.page.offset + 1 * PageBytes
        BY <3>1, <3>4, PageBytesAssumption
      <4>5. SamePage(page, pages[s])
        BY <3>1, <3>4, <4>2, <4>3, <4>4 DEF SamePage
      <4>6. s \in 0 .. n - 1 /\ p \in 0 .. n - 1 /\ p # s
        BY <1>1, <4>1
      <4> QED BY <3>4, <4>5, <4>6 DEF page
    <3> QED BY <3>2, <3>3, <3>4
  <2>8. ASSUME NEW i \in 1 .. L, NEW idx \in 0 .. (p + 1) - 1, InRun(after[i], idx)
        PROVE  SamePage(PagesOn(after[i].page, idx - after[i].first), pages[idx])
    <3>1. CASE idx = p
      <4>1. i = L
        BY <1>2, <2>5, <1>1, <2>8, <3>1 DEF InRun
      <4>2. after[i].page = run.page /\ idx - after[i].first = run.count
        BY <2>2, <2>3, <2>5, <3>1, <4>1
      <4> QED BY <2>7, <3>1, <4>2 DEF page
    <3>2. CASE idx # p
      <4>1. idx \in 0 .. p - 1
        BY <1>1, <3>2
      <4>2. CASE i = L
        <5>1. InRun(run, idx)
          BY <1>1, <2>2, <4>1, <2>3, <2>5, <2>8, <4>2 DEF InRun
        <5> QED BY <1>2, <2>1, <2>3, <2>5, <4>1, <4>2, <5>1 DEF run
      <4>3. CASE i # L
        BY <1>2, <2>5, <2>8, <4>1, <4>3
      <4> QED BY <4>2, <4>3
    <3> QED BY <3>1, <3>2
  <2>9. ASSUME NEW idx \in 0 .. (p + 1) - 1 PROVE \E i \in 1 .. L : InRun(after[i], idx)
    <3>1. CASE idx = p
      BY <1>1, <2>2, <2>3, <2>1, <2>5, <3>1 DEF InRun
    <3>2. CASE idx # p
      <4>1. idx \in 0 .. p - 1
        BY <1>1, <3>2
      <4>2. PICK i \in 1 .. L : InRun(runs[i], idx)
        BY <1>2, <4>1
      <4>3. CASE i = L
        <5>1. InRun(longer, idx)
          BY <1>1, <2>2, <2>3, <4>1, <4>2, <4>3 DEF InRun, run
        <5> QED BY <2>1, <2>5, <5>1
      <4>4. CASE i # L
        BY <2>5, <4>2, <4>4
      <4> QED BY <4>3, <4>4
    <3> QED BY <3>1, <3>2
  <2>10. after[L].first + after[L].count = p + 1
    BY <1>1, <2>2, <2>3, <2>5
  <2> QED BY <2>5, <2>6, <2>8, <2>9, <2>10 DEF RunsRight, after, page
<1>4. CASE ~(runs # <<>> /\ Joins(Last(runs), page))
  <2> DEFINE new == [first |-> p, count |-> 1, page |-> page]
  <2>1. after = Append(runs, new)
    BY <1>4 DEF BindPage
  <2>2. new \in Runs(M) /\ new.first = p /\ new.count = 1 /\ new.page = page
    BY <1>1 DEF Runs
  <2> HIDE DEF new, after, page, L, run
  <2>3. /\ after \in Seq(Runs(M)) /\ Len(after) = L + 1 /\ after[L + 1] = new
        /\ \A i \in 1 .. L : after[i] = runs[i]
        /\ \A i \in 1 .. L + 1 : i \in 1 .. L \/ i = L + 1
        /\ L + 1 \in 1 .. L + 1 /\ \A i \in 1 .. L : i \in 1 .. L + 1
    BY <1>2, <2>1, <2>2 DEF L
  <2>4. ASSUME NEW i \in 1 .. L + 1 PROVE after[i].first + after[i].count <= p + 1
    <3>1. CASE i = L + 1
      BY <1>1, <2>2, <2>3, <3>1
    <3>2. CASE i \in 1 .. L
      <4>1. /\ after[i] = runs[i] /\ runs[i].first + runs[i].count <= p
            /\ runs[i].first \in Nat /\ runs[i].count \in Nat
        BY <1>2, <2>3, <3>2
      <4> QED BY <1>1, <4>1
    <3> QED BY <2>3, <3>1, <3>2
  <2>5. ASSUME NEW i \in 1 .. L + 1, NEW idx \in 0 .. (p + 1) - 1, InRun(after[i], idx)
        PROVE  SamePage(PagesOn(after[i].page, idx - after[i].first), pages[idx])
    <3>1. CASE i = L + 1
      <4>1. idx = p /\ idx - after[i].first = 0
        BY <1>1, <2>2, <2>3, <2>5, <3>1 DEF InRun
      <4>2. PagesOn(page, 0).memory = page.memory
            /\ (page.memory # NoHeap => PagesOn(page, 0).offset = page.offset + 0 * PageBytes)
            /\ page.offset \in Nat
        BY <1>1 DEF PagesOn, PageOf
      <4>3. 0 * PageBytes = 0
        BY PageBytesAssumption
      <4>4. SamePage(PagesOn(page, 0), page)
        BY <4>2, <4>3 DEF SamePage
      <4> QED BY <2>2, <2>3, <3>1, <4>1, <4>4 DEF page
    <3>2. CASE i \in 1 .. L
      <4>1. after[i] = runs[i] /\ runs[i].first + runs[i].count <= p /\ runs[i].first \in Nat
            /\ runs[i].count \in Nat
        BY <1>2, <2>3, <3>2
      <4>2. idx \in 0 .. p - 1
        BY <1>1, <2>5, <4>1 DEF InRun
      <4> QED BY <1>2, <2>5, <3>2, <4>1, <4>2
    <3> QED BY <2>3, <3>1, <3>2
  <2>6. ASSUME NEW idx \in 0 .. (p + 1) - 1 PROVE \E i \in 1 .. L + 1 : InRun(after[i], idx)
    <3>1. CASE idx = p
      BY <1>1, <2>2, <2>3, <3>1 DEF InRun
    <3>2. CASE idx # p
      BY <1>1, <3>2, <1>2, <2>3
    <3> QED BY <3>1, <3>2
  <2>7. after[L + 1].first + after[L + 1].count = p + 1
    BY <2>2, <2>3
  <2> QED BY <2>3, <2>4, <2>5, <2>6, <2>7 DEF RunsRight, after, page
<1> QED BY <1>3, <1>4

\* A replay binds the pages that a mapping has.
LEMMA ReplayIs ==
    ASSUME NEW M, NEW n \in Nat \ {0}, NEW m \in Mapping(M, n), ~m.reused,
           layout \in D3D12Layouts \/
              \A i, k \in 0 .. n - 1 : i # k /\ getPage(m, i).memory # NoHeap
                                          => ~SamePage(getPage(m, i), getPage(m, k))
    PROVE  \A idx \in 0 .. n - 1 : SamePage(ReplayedPages(m, n)[idx], getPage(m, idx))
<1> DEFINE loaded == Loaded(m)
           runs == SparseBinds(loaded, n)
<1>1. ReplayedPages(m, n) = [idx \in 0 .. n - 1 |-> PageOfRuns(runs, idx)]
  BY DEF ReplayedPages
<1>2. SUFFICES \E pages : /\ RunsRight(M, runs, pages, n)
                          /\ \A idx \in 0 .. n - 1 : SamePage(pages[idx], getPage(m, idx))
  <2>1. PICK pages : /\ RunsRight(M, runs, pages, n)
                     /\ \A idx \in 0 .. n - 1 : SamePage(pages[idx], getPage(m, idx))
    BY <1>2
  <2> HIDE DEF runs
  <2>2. \A idx \in 0 .. n - 1 : SamePage(PageOfRuns(runs, idx), pages[idx])
    BY <2>1, RunsBind
  <2> QED BY <1>1, <2>1, <2>2 DEF SamePage
<1>3. ASSUME NEW page \in PageOf(M), NEW reused \in BOOLEAN, m = SingleMapping(page, reused)
      PROVE  \E pages : /\ RunsRight(M, runs, pages, n)
                        /\ \A idx \in 0 .. n - 1 : SamePage(pages[idx], getPage(m, idx))
  <2>1. loaded.single = page /\ loaded.pages = <<>>
    BY <1>3 DEF Loaded, SingleMapping
  <2>2. hasSingleMapping(loaded)
    BY <2>1 DEF hasSingleMapping
  <2> DEFINE run == [first |-> 0, count |-> n, page |-> page]
  <2>3. runs = <<run>>
    BY <2>1, <2>2 DEF SparseBinds
  <2> DEFINE pages == [idx \in 0 .. n - 1 |-> PagesOn(page, idx)]
  <2>4. run \in Runs(M) /\ run.first = 0 /\ run.count = n /\ run.page = page
    BY DEF Runs
  <2> HIDE DEF run, runs
  <2>5. runs \in Seq(Runs(M)) /\ Len(runs) = 1 /\ runs[1] = run /\ 1 .. Len(runs) = {1}
    BY <2>3, <2>4
  <2>6. \A idx \in 0 .. n - 1 : InRun(run, idx) /\ idx - run.first = idx /\ pages[idx] = PagesOn(page, idx)
    BY <2>4 DEF InRun
  <2>7. \A idx \in 0 .. n - 1 : SamePage(pages[idx], getPage(m, idx))
    BY <1>3, SingleIs, PageOfSingle DEF SamePage
  <2> HIDE DEF pages
  <2>8. RunsRight(M, runs, pages, n)
    BY <2>4, <2>5, <2>6 DEF RunsRight, SamePage
  <2> QED BY <2>7, <2>8
<1>4. ASSUME NEW pages \in Partings(M, n), m = Parted(pages)
      PROVE  \E p : /\ RunsRight(M, runs, p, n)
                    /\ \A idx \in 0 .. n - 1 : SamePage(p[idx], getPage(m, idx))
  <2>1. /\ pages \in [0 .. n - 1 -> PageOf(M)] /\ ~hasSingleMapping(m) /\ m.pages = pages
        /\ \A idx : getPage(m, idx) = pages[idx]
    BY <1>4, PartedIs DEF Partings
  <2>2. loaded.pages = pages
    BY <1>4 DEF Loaded, Parted
  <2>3. ~hasSingleMapping(loaded)
    BY <2>1, <2>2 DEF hasSingleMapping
  <2> DEFINE S == {s \in Seq(Runs(M)) : \E p \in 0 .. n : RunsRight(M, s, pages, p)}
             T == Seq([first : Nat, count : Nat, page : PageOf(M)])
             eq(f) == f = [p \in 0 .. n |-> IF p = 0 THEN <<>> ELSE BindPage(f[p - 1], p - 1, loaded.pages[p - 1])]
             upto == CHOOSE f : eq(f)
             step == [p \in 1 .. n |-> [s \in T |-> BindPage(s, p - 1, loaded.pages[p - 1])]]
  <2>4. runs = upto[n]
    BY <2>3 DEF SparseBinds
  <2> HIDE DEF loaded
  <2>5. \A p \in 1 .. n : p - 1 \in 0 .. n - 1 /\ loaded.pages[p - 1] \in PageOf(M)
    BY <2>1, <2>2
  <2>6. ASSUME NEW s \in T, NEW idx \in Nat, NEW page \in PageOf(M)
        PROVE  BindPage(s, idx, page) \in T
    <3> DEFINE R == [first : Nat, count : Nat, page : PageOf(M)]
               L == Len(s)
               longer == [s[L] EXCEPT !.count = @ + 1]
               new == [first |-> idx, count |-> 1, page |-> page]
    <3>1. new \in R
      OBVIOUS
    <3>2. T = Seq(R)
      OBVIOUS
    <3>3. \A x \in R : [x EXCEPT !.count = @ + 1] \in R
      OBVIOUS
    <3>4. s \in Seq(R)
      OBVIOUS
    <3>5. CASE s # <<>> /\ Joins(Last(s), page)
      <4>1. BindPage(s, idx, page) = [s EXCEPT ![L] = longer]
        BY <3>5 DEF BindPage
      <4> HIDE DEF R, T
      <4>2. L \in 1 .. L /\ s[L] \in R
        BY <3>4, <3>5
      <4>3. longer \in R
        BY <3>3, <4>2
      <4> HIDE DEF longer
      <4>4. [s EXCEPT ![L] = longer] \in Seq(R)
        BY <3>4, <4>2, <4>3
      <4> QED BY <3>2, <4>1, <4>4
    <3>6. CASE ~(s # <<>> /\ Joins(Last(s), page))
      <4>1. BindPage(s, idx, page) = Append(s, new)
        BY <3>6 DEF BindPage
      <4> HIDE DEF R, T, new
      <4>2. Append(s, new) \in Seq(R)
        BY <3>1, <3>4
      <4> QED BY <3>2, <4>1, <4>2
    <3> QED BY <3>5, <3>6
  <2>7. \E f : eq(f)
    <3>1. step \in [1 .. n -> [T -> T]]
      <4>1. \A p \in 1 .. n : p - 1 \in Nat
        OBVIOUS
      <4>2. \A p \in 1 .. n : \A s \in T : BindPage(s, p - 1, loaded.pages[p - 1]) \in T
        BY <2>5, <2>6, <4>1
      <4> HIDE DEF T
      <4> QED BY <4>2
    <3>2. \A p \in 1 .. n : \A s \in T : step[p][s] = BindPage(s, p - 1, loaded.pages[p - 1])
      OBVIOUS
    <3>3. <<>> \in T
      OBVIOUS
    <3> HIDE DEF step, T
    <3>4. PICK f : Iterated(f, T, <<>>, n, step)
      BY <3>1, <3>3, Iterating
    <3>5. ASSUME NEW p \in 0 .. n, p # 0 PROVE step[p][f[p - 1]] = BindPage(f[p - 1], p - 1, loaded.pages[p - 1])
      BY <3>5, <3>4, <3>2 DEF Iterated
    <3>6. [p \in 0 .. n |-> IF p = 0 THEN <<>> ELSE step[p][f[p - 1]]]
          = [p \in 0 .. n |-> IF p = 0 THEN <<>> ELSE BindPage(f[p - 1], p - 1, loaded.pages[p - 1])]
      BY <3>5
    <3>7. eq(f)
      BY <3>4, <3>6 DEF Iterated
    <3> QED BY <3>7
  <2>8. eq(upto)
    BY <2>7
  <2> HIDE DEF upto
  <2>9. upto[0] = <<>> /\ \A p \in 1 .. n : upto[p] = BindPage(upto[p - 1], p - 1, pages[p - 1])
    BY <2>2, <2>8
  <2> HIDE DEF eq
  <2> DEFINE U == {p \in 0 .. n : RunsRight(M, upto[p], pages, p)}
  <2>10. 0 \in U
    <3>1. RunsRight(M, <<>>, pages, 0)
      BY DEF RunsRight
    <3> QED BY <2>9, <3>1
  <2>11. ASSUME NEW p \in 1 .. n, p - 1 \in U PROVE p \in U
    <3>1. /\ RunsRight(M, upto[p - 1], pages, p - 1) /\ p - 1 \in 0 .. n - 1
          /\ upto[p] = BindPage(upto[p - 1], p - 1, pages[p - 1]) /\ p \in 0 .. n
      BY <2>9, <2>11
    <3> DEFINE k == p - 1
               s == upto[p - 1]
    <3>2. k \in 0 .. n - 1 /\ RunsRight(M, s, pages, k) /\ n \in Nat
      BY <3>1
    <3>3. layout \in D3D12Layouts \/
              \A i, j \in 0 .. n - 1 : i # j /\ pages[i].memory # NoHeap => ~SamePage(pages[i], pages[j])
      BY <2>1
    <3> HIDE DEF k, s
    <3>4. RunsRight(M, BindPage(s, k, pages[k]), pages, k + 1)
      BY <2>1, <3>2, <3>3, BindPageIs
    <3>5. k + 1 = p
      BY DEF k
    <3> QED BY <3>1, <3>4, <3>5 DEF k, s
  <2>12. n \in U
    <3>1. \A p \in 0 .. n : p \in U
      BY <2>10, <2>11, Counting
    <3> HIDE DEF U
    <3> QED BY <3>1
  <2>13. RunsRight(M, runs, pages, n)
    BY <2>4, <2>12
  <2> QED BY <2>1, <2>13 DEF SamePage
<1> QED BY <1>3, <1>4 DEF Mapping

-----------------------------------------------------------------------------
(* The calls of Vulkan.                                                    *)

\* A table and what its pages are bound to.
TableRight(table, b) ==
    /\ IsTable(table)
    /\ b \in [UsedTiles -> PageOf(Heaps)]
    /\ Says(table, b)

LEMMA UsedTilesAre ==
    ASSUME Known
    PROVE  /\ \A key \in UsedMappings, idx \in Nat : <<key, idx>> \in UsedTiles <=> idx \in 0 .. NumPages(key) - 1
           /\ \A tile \in UsedTiles : /\ tile[1] \in UsedMappings /\ tile[2] \in 0 .. NumPages(tile[1]) - 1
                                      /\ tile = <<tile[1], tile[2]>>
BY NumPagesIs DEF UsedTiles

LEMMA VulkanPagesAre == VulkanPages \subseteq PageOf(Heaps)
BY SparseBindingsAssumption, PageBytesAssumption, NoPageIs DEF VulkanPages, Page, PageOf

LEMMA PagesNotKept ==
    ASSUME NEW page \in PageOf(Heaps), NEW n \in Nat
    PROVE  PagesOn(page, n) # Kept
BY PagesOnType, SparseBindingsAssumption DEF PageOf, NoHeap, Kept, Page

\* An extent in texels that is cut at the border has as many pages.
LEMMA ExtentIs ==
    ASSUME NEW t \in Nat \ {0}, NEW mip \in Nat \ {0}, NEW c \in Nat, NEW s \in Nat \ {0},
           c + s <= (mip + t - 1) \div t
    PROVE  (Min({s * t, mip - c * t}) + t - 1) \div t = s
<1> DEFINE D == (mip + t - 1) \div t
           e == mip - c * t
           st == s * t
<1>1. D \in Nat /\ mip <= D * t /\ D * t < mip + t
  BY CeilingType
<1>2. PICK d \in Nat : D = c + s + d
  <2>1. D - (c + s) \in Nat /\ D = c + s + (D - (c + s))
    BY <1>1
  <2> QED BY <2>1
<1>3. D * t = c * t + s * t + d * t /\ c * t \in Nat /\ s * t \in Nat /\ d * t \in Nat
  BY <1>2
<1>4. st >= t
  <2>1. PICK r \in Nat : s = r + 1
    OBVIOUS
  <2>2. s * t = r * t + t /\ r * t \in Nat
    BY <2>1
  <2> QED BY <2>2
<1>5. st \in Nat /\ e \in Int /\ st < e + t
  BY <1>1, <1>3
<1>6. e > 0
  BY <1>4, <1>5
<1> HIDE DEF e, st, D
<1>7. Min({st, e}) = IF st <= e THEN st ELSE e
  BY <1>5, LeastOfTwo
<1> DEFINE m == IF st <= e THEN st ELSE e
<1>8. m \in Nat /\ m <= st /\ st < m + t
  BY <1>5, <1>6
<1> HIDE DEF m
<1>9. (m + t - 1) \div t = s
  BY <1>8, CeilingIs DEF st
<1> QED BY <1>7, <1>9 DEF m, e, st

LEMMA ImageUpdated ==
    ASSUME Known, NEW table, NEW b, TableRight(table, b),
           NEW g \in Boxes, FitsIn(g), NEW page \in PageOf(Heaps), NEW extent,
           extent = [d \in 1 .. 2 |-> Min({Texels(g.size)[d], MipDim(g.sub)[d] - Texels(g.coord)[d]})]
    PROVE  TableRight(setImageBoxRange(table, g.sub, Texels(g.coord), extent, page, FALSE),
                      Bind(b, RegionTiles(g), [n \in 1 .. g.n |-> PagesOn(page, n - 1)]))
<1> DEFINE sub == g.sub
           key == <<"sub", sub>>
           dim == calcSubresourcePageDim(sub)
           box == BoxPages(g.coord, g.size, dim)
           N == g.size[1] * g.size[2]
           to == RegionTiles(g)
           pages == [n \in 1 .. g.n |-> PagesOn(page, n - 1)]
           bound == Bind(b, to, pages)
<1>1. /\ key \in UsedMappings \cap Subs /\ sub \in 0 .. layout.subs - 1 /\ ~isSubresourceInMipTail(sub)
      /\ g.box /\ g.n = N /\ g.size \in (1 .. dim[1]) \X (1 .. dim[2])
      /\ g.coord \in (0 .. dim[1] - 1) \X (0 .. dim[2] - 1)
  <2>1. PICK k \in UsedMappings \cap Subs : g \in BoxesIn(k[2])
    BY DEF Boxes
  <2>2. PICK c \in (0 .. calcSubresourcePageDim(k[2])[1] - 1) \X (0 .. calcSubresourcePageDim(k[2])[2] - 1),
             s \in (1 .. calcSubresourcePageDim(k[2])[1]) \X (1 .. calcSubresourcePageDim(k[2])[2]) :
          g = [box |-> TRUE, sub |-> k[2], coord |-> c, size |-> s, n |-> s[1] * s[2]]
    BY <2>1 DEF BoxesIn
  <2>3. g.sub = k[2] /\ g.box /\ g.coord = c /\ g.size = s /\ g.n = s[1] * s[2]
    BY <2>2
  <2>4. k = <<"sub", k[2]>> /\ k[2] \in 0 .. layout.subs - 1
    BY <2>1 DEF Subs
  <2>5. ~isSubresourceInMipTail(k[2])
    BY NumPagesIs, <2>1 DEF UsedMappings
  <2> QED BY <2>1, <2>2, <2>3, <2>4, <2>5
<1>2. /\ dim[1] \in Nat \ {0} /\ dim[2] \in Nat \ {0} /\ sub \in Nat
      /\ \A d \in 1 .. 2 : /\ MipDim(sub)[d] \in Nat \ {0} /\ layout.texels[d] \in Nat \ {0}
                           /\ dim[d] = (MipDim(sub)[d] + layout.texels[d] - 1) \div layout.texels[d]
      /\ NumPages(key) = SubPages(sub) /\ SubPages(sub) \in Nat \ {0} /\ SubPages(sub) = dim[1] * dim[2]
  <2>1. sub \in Nat
    BY <1>1, LayoutIs
  <2>2. NumPages(key) = SubPages(sub)
    BY <1>1, NumPagesIs
  <2>3. 1 \in 1 .. 2 /\ 2 \in 1 .. 2
    OBVIOUS
  <2>4. SubPages(sub) = dim[1] * dim[2]
    BY DEF SubPages
  <2>5. /\ \A d \in 1 .. 2 : /\ MipDim(sub)[d] \in Nat \ {0}
                             /\ dim[d] \in Nat \ {0}
                             /\ dim[d] = (MipDim(sub)[d] + layout.texels[d] - 1) \div layout.texels[d]
        /\ SubPages(sub) \in Nat \ {0}
    BY <2>1, DimsAre
  <2>6. \A d \in 1 .. 2 : layout.texels[d] \in Nat \ {0}
    BY LayoutIs
  <2> HIDE DEF sub, dim, key
  <2> QED BY <2>1, <2>2, <2>3, <2>4, <2>5, <2>6
<1>3. \A d \in 1 .. 2 : g.coord[d] \in Nat /\ g.size[d] \in Nat \ {0} /\ g.coord[d] + g.size[d] <= dim[d]
  <2>1. \A d \in 1 .. 2 : d = 1 \/ d = 2
    OBVIOUS
  <2>2. /\ g.coord[1] \in 0 .. dim[1] - 1 /\ g.coord[2] \in 0 .. dim[2] - 1
        /\ g.size[1] \in 1 .. dim[1] /\ g.size[2] \in 1 .. dim[2]
    BY <1>1
  <2>3. \A d \in 1 .. 2 : g.coord[d] + g.size[d] <= dim[d]
    BY DEF FitsIn
  <2> HIDE DEF dim
  <2> QED BY <1>2, <2>1, <2>2, <2>3
<1>4. Fits(g.coord, g.size, dim)
  BY <1>2, <1>3 DEF Fits
<1>5. \A d \in 1 .. 2 : (extent[d] + layout.texels[d] - 1) \div layout.texels[d] = g.size[d]
  <2> TAKE d \in 1 .. 2
  <2> DEFINE t == layout.texels[d]
             mip == MipDim(sub)[d]
             c == g.coord[d]
             s == g.size[d]
  <2>1. /\ t \in Nat \ {0} /\ mip \in Nat \ {0} /\ c \in Nat /\ s \in Nat \ {0}
        /\ c + s <= (mip + t - 1) \div t
    BY <1>2, <1>3
  <2>2. extent[d] = Min({s * t, mip - c * t})
    BY DEF Texels
  <2> HIDE DEF t, mip, c, s
  <2>3. (Min({s * t, mip - c * t}) + t - 1) \div t = s
    BY <2>1, ExtentIs
  <2> QED BY <2>2, <2>3 DEF t, s
<1>6. IsPair(g.size)
  BY <1>1 DEF IsPair
<1>7. /\ IsTable(table) /\ b \in [UsedTiles -> PageOf(Heaps)] /\ Says(table, b)
  BY DEF TableRight
<1> DEFINE after == setImageBoxRange(table, sub, Texels(g.coord), extent, page, FALSE)
<1>8. /\ IsTable(after)
      /\ \A k \in Subs \cup Tails : k # key => after[k] = table[k]
      /\ \A i \in 0 .. N - 1 : SamePage(getPage(after[key], box[i]), PagesOn(page, i))
      /\ \A idx \in 0 .. SubPages(sub) - 1 :
            (\A i \in 0 .. N - 1 : box[i] # idx) => SamePage(getPage(after[key], idx), getPage(table[key], idx))
  <2>1. ASSUME NEW reused \in BOOLEAN
        PROVE  LET one == setImageBoxRange(table, sub, Texels(g.coord), extent, page, reused) IN
               /\ IsTable(one)
               /\ \A k \in Subs \cup Tails : k # key => one[k] = table[k]
               /\ \A i \in 0 .. N - 1 :
                     SamePage(getPage(one[key], box[i]), IF reused THEN page ELSE PagesOn(page, i))
               /\ \A idx \in 0 .. SubPages(sub) - 1 :
                     (\A i \in 0 .. N - 1 : box[i] # idx) => SamePage(getPage(one[key], idx), getPage(table[key], idx))
    <3> DEFINE c == g.coord
               s == g.size
    <3>1. sub \in 0 .. layout.subs - 1 /\ Fits(c, s, calcSubresourcePageDim(sub))
          /\ IsPair(s)
          /\ \A d \in 1 .. 2 : (extent[d] + layout.texels[d] - 1) \div layout.texels[d] = s[d]
      BY <1>1, <1>4, <1>5, <1>6
    <3> HIDE DEF sub, c, s
    <3>2. BoxBound(table, setImageBoxRange(table, sub, Texels(c), extent, page, reused),
                   sub, c, s, page, reused)
      BY <1>7, <3>1, ImageBoxIs
    <3> QED BY <3>2 DEF c, s, BoxBound
  <2> HIDE DEF key, N, sub, box
  <2>2. FALSE \in BOOLEAN
    OBVIOUS
  <2> QED BY <2>1, <2>2
<1>9. /\ N \in Nat \ {0} /\ \A i, k \in 0 .. N - 1 : box[i] = box[k] => i = k
      /\ \A i \in 0 .. N - 1 : box[i] \in 0 .. SubPages(sub) - 1
  <2> DEFINE c == g.coord
             s == g.size
  <2>1. Fits(c, s, dim) /\ SubPages(sub) = dim[1] * dim[2]
    BY <1>2, <1>4
  <2> HIDE DEF c, s, dim
  <2>2. LET bb == BoxPages(c, s, dim)
            NN == s[1] * s[2]
        IN /\ NN \in Nat \ {0} /\ DOMAIN bb = 0 .. NN - 1
           /\ \A i \in 0 .. NN - 1 : bb[i] \in 0 .. dim[1] * dim[2] - 1
           /\ \A i, k \in 0 .. NN - 1 : bb[i] = bb[k] => i = k
    BY <2>1, BoxIs
  <2> QED BY <2>1, <2>2 DEF c, s
<1>10. DOMAIN to = 1 .. N /\ \A n \in 1 .. N : to[n] = <<key, box[n - 1]>>
  BY <1>1 DEF RegionTiles, BoxTiles, MappingOf
<1>11. \A n \in 1 .. N : n - 1 \in 0 .. N - 1 /\ n - 1 \in Nat /\ pages[n] = PagesOn(page, n - 1) /\ pages[n] # Kept
  <2>1. g.n = N
    BY <1>1
  <2> HIDE DEF N
  <2> QED BY <1>9, <2>1, PagesNotKept
<1> HIDE DEF N, box, to, pages, after, key
<1>12. Once(N, to)
  <2> SUFFICES ASSUME NEW n \in 1 .. N, NEW k \in 1 .. N, to[n] = to[k] PROVE n = k
    BY DEF Once
  <2>1. box[n - 1] = box[k - 1]
    BY <1>10
  <2>2. n - 1 \in 0 .. N - 1 /\ k - 1 \in 0 .. N - 1
    BY <1>11
  <2>3. n - 1 = k - 1
    BY <1>9, <2>1, <2>2
  <2> QED BY <1>9, <2>3
<1>13. /\ DOMAIN bound = DOMAIN b
       /\ \A n \in 1 .. N : to[n] \in DOMAIN b => bound[to[n]] = pages[n]
       /\ \A tile \in DOMAIN b : (\A n \in 1 .. N : to[n] # tile) => bound[tile] = b[tile]
  <2>1. N \in Nat /\ DOMAIN to = 1 .. N /\ \A n \in 1 .. N : pages[n] # Kept
    BY <1>9, <1>10, <1>11
  <2>2. BoundInOrder(b, bound, N, to, pages)
    BY <1>12, <2>1, BindIs
  <2> HIDE DEF bound
  <2> QED BY <2>2 DEF BoundInOrder
<1>14. ASSUME NEW tile \in UsedTiles
       PROVE  bound[tile] \in PageOf(Heaps) /\ SamePage(getPage(after[tile[1]], tile[2]), bound[tile])
  <2>1. /\ tile[1] \in Subs \cup Tails /\ tile = <<tile[1], tile[2]>> /\ tile[2] \in 0 .. NumPages(tile[1]) - 1
        /\ tile \in DOMAIN b /\ b[tile] \in PageOf(Heaps) /\ SamePage(getPage(table[tile[1]], tile[2]), b[tile])
    BY <1>7, UsedTilesAre, NumPagesIs DEF Says
  <2>2. CASE tile[1] # key
    BY <1>10, <2>1, <2>2, <1>8, <1>13
  <2>3. CASE tile[1] = key /\ \E n \in 1 .. N : box[n - 1] = tile[2]
    <3>1. PICK n \in 1 .. N : box[n - 1] = tile[2]
      BY <2>3
    <3>2. to[n] = tile
      BY <1>10, <2>1, <2>3, <3>1
    <3>3. bound[tile] = PagesOn(page, n - 1)
      BY <1>11, <1>13, <2>1, <3>2
    <3>4. SamePage(getPage(after[key], tile[2]), PagesOn(page, n - 1))
      BY <1>8, <1>11, <3>1
    <3>5. PagesOn(page, n - 1) \in PageOf(Heaps)
      BY <1>11, PagesOnType
    <3> QED BY <2>3, <3>3, <3>4, <3>5
  <2>4. CASE tile[1] = key /\ \A n \in 1 .. N : box[n - 1] # tile[2]
    <3>1. \A n \in 1 .. N : to[n] # tile
      BY <1>10, <2>1, <2>4
    <3>2. bound[tile] = b[tile]
      BY <1>13, <2>1, <3>1
    <3>3. ASSUME NEW i \in 0 .. N - 1 PROVE box[i] # tile[2]
      <4>1. i + 1 \in 1 .. N /\ (i + 1) - 1 = i
        BY <1>9
      <4> QED BY <2>4, <4>1
    <3>4. tile[2] \in 0 .. SubPages(sub) - 1
      BY <1>2, <2>1, <2>4 DEF key
    <3>5. SamePage(getPage(after[key], tile[2]), getPage(table[key], tile[2]))
      BY <1>8, <3>3, <3>4
    <3> QED BY <2>1, <2>4, <3>2, <3>5 DEF SamePage
  <2> QED BY <2>2, <2>3, <2>4
<1>15. bound \in [UsedTiles -> PageOf(Heaps)]
  BY <1>7, <1>13, <1>14 DEF Bind
<1>16. Says(after, bound)
  BY <1>14 DEF Says
<1> QED BY <1>8, <1>15, <1>16 DEF TableRight, after, to, pages, N

\* How far pages of tails are from one another.
LEMMA AddressesDiffer ==
    ASSUME Known, NEW k \in 0 .. NumTails - 1, NEW j \in 0 .. NumTails - 1,
           NEW p \in 0 .. TailPages - 1, NEW idx \in 0 .. TailPages - 1
    PROVE  /\ TailAddress(<<<<"tail", k>>, idx>>) \in Nat
           /\ TailAddress(<<<<"tail", k>>, idx>>) - TailAddress(<<<<"tail", j>>, p>>)
                = Distance(j, p, k, idx) * PageBytes
           /\ Distance(j, p, k, idx) \in Int
           /\ Distance(j, p, k, idx) >= 0 <=> NotBefore(j, p, k, idx)
           /\ TailAddress(<<<<"tail", j>>, p>>) <= TailAddress(<<<<"tail", k>>, idx>>) <=> NotBefore(j, p, k, idx)
<1> DEFINE PB == PageBytes
           S == StridePages
           stride == layout.byteStride
           o == layout.byteOffset
           TP == TailPages
           NT == NumTails
           dist == (k - j) * S + idx - p
           one == TailAddress(<<<<"tail", k>>, idx>>)
           other == TailAddress(<<<<"tail", j>>, p>>)
<1>1. /\ PB \in Nat \ {0} /\ stride \in Nat /\ o \in Nat /\ TP \in Nat /\ NT \in Nat /\ S \in Nat
      /\ NT > 1 => stride = S * PB /\ TP * PB <= stride
  <2>1. /\ layout.byteStride \in Nat /\ layout.byteOffset \in Nat /\ PageBytes \in Nat \ {0}
        /\ NumTails \in Nat /\ TailPages \in Nat
        /\ NumTails > 1 => TailBytes = TailPages * PageBytes /\ TailBytes <= layout.byteStride
                           /\ layout.byteStride = (layout.byteStride \div PageBytes) * PageBytes
    BY LayoutIs, TailsAre, PageBytesAssumption
  <2>2. StridePages \in Nat
    BY <2>1, Division DEF stride, StridePages
  <2> QED BY <2>1, <2>2 DEF StridePages
<1>2. /\ one = o + k * stride + idx * PB /\ other = o + j * stride + p * PB
      /\ Distance(j, p, k, idx) = dist
  BY DEF TailAddress, Distance
<1> HIDE DEF PB, S, stride, o, TP, NT, one, other
<1>3. k \in Nat /\ j \in Nat /\ p \in Nat /\ idx \in Nat /\ k < NT /\ j < NT /\ p < TP /\ idx < TP
  BY <1>1 DEF NT, TP
<1>4. one \in Nat /\ other \in Nat
  BY <1>1, <1>3, <1>2
<1>5. dist \in Int
  BY <1>1, <1>3
<1>6. one - other = dist * PB
  <2>1. CASE NT > 1
    BY <1>1, <1>3, <1>2, <2>1
  <2>2. CASE ~(NT > 1)
    BY <1>1, <1>3, <2>2, <1>2
  <2> QED BY <2>1, <2>2
<1>7. dist >= 0 <=> NotBefore(j, p, k, idx)
  <2>1. CASE NT > 1
    <3>1. TP <= S
      <4>1. SUFFICES ASSUME S < TP PROVE FALSE
        BY <1>1
      <4>2. PICK d \in Nat : TP = S + 1 + d
        BY <1>1, <4>1
      <4>3. TP * PB = S * PB + PB + d * PB /\ d * PB \in Nat /\ S * PB \in Nat
        BY <1>1, <4>2
      <4> QED BY <1>1, <2>1, <4>3
    <3>2. (j * S + p <= k * S + idx) <=> (j < k \/ (j = k /\ p <= idx))
      BY <1>1, <1>3, <3>1, PlacesOrdered
    <3>3. dist = k * S - j * S + idx - p /\ k * S \in Nat /\ j * S \in Nat
      BY <1>1, <1>3
    <3> QED BY <1>3, <3>2, <3>3 DEF NotBefore
  <2>2. CASE ~(NT > 1)
    BY <1>1, <1>3, <2>2 DEF NotBefore
  <2> QED BY <2>1, <2>2
<1>8. other <= one <=> dist >= 0
  <2> HIDE DEF dist
  <2>1. CASE dist >= 0
    BY <1>1, <1>5, <2>1, <1>4, <1>6
  <2>2. CASE ~(dist >= 0)
    <3>1. PICK d \in Nat : dist = 0 - 1 - d
      BY <1>5, <2>2
    <3>2. dist * PB = 0 - PB - d * PB /\ d * PB \in Nat
      BY <1>1, <3>1
    <3> QED BY <1>1, <1>4, <1>6, <2>2, <3>2
  <2> QED BY <2>1, <2>2
<1> HIDE DEF dist
<1> QED BY <1>2, <1>4, <1>5, <1>6, <1>7, <1>8 DEF PB, one, other

LEMMA TailTilesAre ==
    ASSUME Known, UsedPages = UsedTiles, NEW tile \in UsedTiles
    PROVE  /\ tile \in TailTiles <=> tile[1] \in Tails
           /\ tile[1] \in Tails =>
                \E k \in 0 .. NumTails - 1, idx \in 0 .. TailPages - 1 : tile = <<<<"tail", k>>, idx>>
<1>1. tile \in TailTiles <=> tile[1] \in Tails
  BY DEF TailTiles
<1>2. ASSUME tile[1] \in Tails
      PROVE  \E k \in 0 .. NumTails - 1, idx \in 0 .. TailPages - 1 : tile = <<<<"tail", k>>, idx>>
  BY <1>2, UsedTilesAre, NumPagesIs DEF Tails
<1> QED BY <1>1, <1>2

\* Of the pages from first to last, all those of tails between them are bound.
OpaqueBytes(first, last, atEnd) ==
    TailAddress(last) - TailAddress(first) + IF atEnd THEN layout.packed - last[2] * PageBytes ELSE PageBytes

OpaqueTiles(first, last) == {tile \in TailTiles : TailAddress(tile) \in TailAddress(first) .. TailAddress(last)}

OpaqueBound(b, first, last, page) ==
    [tile \in UsedPages |-> IF tile \notin OpaqueTiles(first, last) THEN b[tile]
                            ELSE PagesOn(page, (TailAddress(tile) - TailAddress(first)) \div PageBytes)]

LEMMA OpaqueUpdated ==
    ASSUME Known, UsedPages = UsedTiles, NEW table, NEW b, TableRight(table, b),
           NEW first \in TailTiles, NEW last \in TailTiles, NEW page \in PageOf(Heaps), NEW atEnd,
           TailAddress(first) <= TailAddress(last),
           atEnd => layout.subs = 0 /\ last[2] = TailPages - 1,
           ~(/\ NumTails > 1 /\ TailAddress(first) = layout.byteOffset
             /\ OpaqueBytes(first, last, atEnd) = layout.packed)
    PROVE  TableRight(setMipTailRange(table, TailAddress(first), page, OpaqueBytes(first, last, atEnd), FALSE),
                      OpaqueBound(b, first, last, page))
<1>1. first \in UsedTiles /\ last \in UsedTiles
  BY DEF TailTiles
<1>2. PICK k1 \in 0 .. NumTails - 1, p1 \in 0 .. TailPages - 1 : first = <<<<"tail", k1>>, p1>>
  BY <1>1, TailTilesAre
<1>3. PICK k2 \in 0 .. NumTails - 1, p2 \in 0 .. TailPages - 1 : last = <<<<"tail", k2>>, p2>>
  BY <1>1, TailTilesAre
<1> DEFINE from == TailAddress(first)
           to == TailAddress(last)
           bytes == OpaqueBytes(first, last, atEnd)
           after == setMipTailRange(table, from, page, bytes, FALSE)
           bound == OpaqueBound(b, first, last, page)
           PB == PageBytes
<1>4. /\ NumTails \in Nat /\ TailPages \in Nat /\ PB \in Nat \ {0} /\ StridePages \in Int
      /\ layout.byteOffset \in Nat /\ layout.byteStride \in Nat /\ layout.packed \in Nat
      /\ NumTails > 1 => layout.subs # 0
      /\ NumTails = 1 => TailPages = Pages(layout.packed)
  BY TailsAre, LayoutIs, PageBytesAssumption DEF TailPages, StridePages
<1>5. k1 \in Nat /\ k2 \in Nat /\ p1 \in Nat /\ p2 \in Nat
  BY <1>4
<1>6. IsTable(table) /\ b \in [UsedTiles -> PageOf(Heaps)] /\ Says(table, b)
  BY DEF TableRight
<1>7. /\ from \in Nat /\ to \in Nat /\ NotBefore(k1, p1, k2, p2)
      /\ to - from = Distance(k1, p1, k2, p2) * PB /\ Distance(k1, p1, k2, p2) \in Int
      /\ Distance(k1, p1, k2, p2) >= 0
      /\ from = layout.byteOffset + k1 * layout.byteStride + p1 * PB
  BY AddressesDiffer, <1>2, <1>3 DEF TailAddress
<1>8. RangeOfTails(table, k1, p1, k2, p2, page)
  BY <1>6, <1>7 DEF RangeOfTails
<1> HIDE DEF from, to, after, bytes
<1>9. IsTable(after) /\ TailsBound(table, after, k1, p1, k2, p2, page, NumTails)
  <2>1. CASE NumTails > 1
    <3>1. ~atEnd
      BY <1>4, <2>1
    <3>2. bytes = ((k2 - k1) * StridePages + p2 + 1 - p1) * PB
      <4> DEFINE d == Distance(k1, p1, k2, p2)
                 e == (k2 - k1) * StridePages + p2 + 1 - p1
      <4>1. bytes = to - from + PB
        BY <3>1 DEF bytes, OpaqueBytes, to, from
      <4>2. e = d + 1
        BY <1>4, <1>5 DEF Distance
      <4> HIDE DEF d, e
      <4>3. (d + 1) * PB = d * PB + PB
        BY <1>4, <1>7 DEF d
      <4>4. to - from = d * PB
        BY <1>7 DEF d
      <4>5. bytes = e * PB
        BY <4>1, <4>2, <4>3, <4>4
      <4> QED BY <4>5 DEF e
    <3>3. ~(k1 = 0 /\ p1 = 0 /\ bytes = layout.packed)
      BY <2>1, <1>4, <1>7 DEF from, bytes
    <3> HIDE DEF PB
    <3> QED BY <1>7, <1>8, <2>1, <3>2, <3>3, SomeTailsAre DEF after, PB
  <2>2. CASE NumTails = 1
    <3>1. k1 = 0 /\ k2 = 0 /\ p1 <= p2
      BY <1>7, <2>2 DEF NotBefore
    <3>2. to - from = p2 * PB - p1 * PB /\ p1 * PB \in Nat /\ p2 * PB \in Nat /\ p1 * PB <= p2 * PB
      BY <1>4, <1>5, <1>2, <1>3, <3>1 DEF to, from, TailAddress
    <3>3. bytes \in Nat /\ Pages(p1 * PB + bytes) = p2 + 1
      <4>1. CASE ~atEnd
        BY <3>2, <4>1, <1>4, <1>5, PagesIs DEF bytes, OpaqueBytes, to, from
      <4>2. CASE atEnd
        <5>1. p2 = TailPages - 1
          BY <1>3, <4>2
        <5>2. bytes = to - from + (layout.packed - p2 * PB)
          BY <1>3, <4>2 DEF bytes, OpaqueBytes, to, from
        <5>3. p1 * PB + bytes = layout.packed
          BY <1>4, <3>2, <5>2
        <5>4. Pages(layout.packed) = p2 + 1
          BY <1>4, <1>5, <2>2, <5>1
        <5>5. p2 * PB < layout.packed
          <6> DEFINE packed == layout.packed
          <6>1. packed \in Nat
            BY <1>4
          <6> HIDE DEF packed
          <6>2. Pages(packed) * PageBytes < packed + PageBytes
            BY <6>1, PagesAre
          <6>3. (p2 + 1) * PB = p2 * PB + PB
            BY <1>4, <1>5
          <6> QED BY <1>4, <3>2, <5>4, <6>1, <6>2, <6>3 DEF packed
        <5>6. bytes \in Nat
          BY <1>4, <3>2, <5>2, <5>5
        <5> QED BY <5>3, <5>4, <5>6
      <4> QED BY <4>1, <4>2
    <3> QED BY <1>7, <1>8, <2>2, <3>3, TheTailIs DEF after
  <2>3. NumTails > 0
    BY <1>4
  <2> QED BY <1>4, <2>1, <2>2, <2>3
<1>10. ASSUME NEW tile \in UsedTiles
       PROVE  bound[tile] \in PageOf(Heaps) /\ SamePage(getPage(after[tile[1]], tile[2]), bound[tile])
  <2>1. /\ tile[1] \in Subs \cup Tails /\ tile = <<tile[1], tile[2]>> /\ tile[2] \in 0 .. NumPages(tile[1]) - 1
        /\ b[tile] \in PageOf(Heaps) /\ SamePage(getPage(table[tile[1]], tile[2]), b[tile])
    BY <1>6, UsedTilesAre, NumPagesIs DEF Says
  <2>2. CASE tile[1] \notin Tails
    BY <2>2, <1>9, <2>1 DEF OpaqueTiles, TailTiles, OpaqueBound, TailsBound
  <2>3. CASE tile[1] \in Tails
    <3>1. PICK k \in 0 .. NumTails - 1, idx \in 0 .. TailPages - 1 : tile = <<<<"tail", k>>, idx>>
      BY <2>3, TailTilesAre
    <3> DEFINE d == Distance(k1, p1, k, idx)
               within == NotBefore(k1, p1, k, idx) /\ NotBefore(k, idx, k2, p2)
    <3>2. /\ TailAddress(tile) \in Nat /\ TailAddress(tile) - from = d * PB /\ d \in Int
          /\ d >= 0 <=> NotBefore(k1, p1, k, idx)
          /\ from <= TailAddress(tile) <=> NotBefore(k1, p1, k, idx)
      BY <1>2, <3>1, AddressesDiffer DEF from
    <3>3. TailAddress(tile) <= to <=> NotBefore(k, idx, k2, p2)
      BY <1>3, <3>1, AddressesDiffer DEF to
    <3>4. tile \in OpaqueTiles(first, last) <=> within
      BY <2>3, TailTilesAre, <1>7, <3>2, <3>3 DEF OpaqueTiles, from, to
    <3>5. SamePage(getPage(after[tile[1]], tile[2]),
                   IF within THEN PagesOn(page, d) ELSE getPage(table[tile[1]], tile[2]))
      BY <1>4, <3>1, <1>9 DEF TailsBound
    <3> HIDE DEF within, d
    <3>6. CASE within
      <4>1. d \in Nat
        BY <3>2, <3>6 DEF within
      <4>2. (d * PB) \div PB = d
        BY <1>4, <4>1, DivisionIs
      <4>3. bound[tile] = PagesOn(page, d)
        BY <3>2, <3>4, <3>6, <4>2 DEF OpaqueBound, from
      <4> QED BY <3>5, <3>6, <4>1, <4>3, PagesOnType
    <3>7. CASE ~within
      BY <3>4, <3>7, <2>1, <3>5 DEF OpaqueBound, SamePage
    <3> QED BY <3>6, <3>7
  <2> QED BY <2>2, <2>3
<1>11. bound \in [UsedTiles -> PageOf(Heaps)]
  BY <1>10 DEF OpaqueBound
<1>12. Says(after, bound)
  BY <1>10 DEF Says
<1> QED BY <1>9, <1>11, <1>12 DEF TableRight, after, from, bytes

-----------------------------------------------------------------------------
(* What is bound is kept.                                                  *)

LEMMA BoundIsKept ==
    ASSUME Known, UsedPages = UsedTiles, NEW table, NEW b, TableRight(table, b),
           layout \in D3D12Layouts \/ NotAliased(b), NEW key \in UsedMappings
    PROVE  /\ \A idx \in 0 .. NumPages(key) - 1 : SamePage(getPage(table[key], idx), b[<<key, idx>>])
           /\ isMapped(table[key]) <=> \E idx \in 0 .. NumPages(key) - 1 : b[<<key, idx>>].memory # NoHeap
           /\ ~table[key].reused =>
                 \A idx \in 0 .. NumPages(key) - 1 :
                    SamePage(ReplayedPages(table[key], NumPages(key))[idx], b[<<key, idx>>])
<1> DEFINE n == NumPages(key)
           m == table[key]
<1>1. n \in Nat \ {0} /\ key \in Subs \cup Tails
  BY NumPagesIs
<1>2. m \in Mapping(Heaps, n)
  BY <1>1 DEF TableRight, IsTable
<1>3. \A idx \in 0 .. n - 1 : <<key, idx>> \in UsedTiles /\ idx \in Nat
  BY <1>1, UsedTilesAre
<1>4. \A idx \in 0 .. n - 1 : /\ SamePage(getPage(m, idx), b[<<key, idx>>])
                              /\ getPage(m, idx) \in PageOf(Heaps) /\ b[<<key, idx>>] \in PageOf(Heaps)
  BY <1>3, <1>1, <1>2, GetPageType DEF TableRight, Says
<1> HIDE DEF n, m
<1>5. isMapped(m) <=> \E idx \in 0 .. n - 1 : b[<<key, idx>>].memory # NoHeap
  <2>1. isMapped(m) <=> \E idx \in 0 .. n - 1 : getPage(m, idx).memory # NoHeap
    <3>1. ASSUME NEW page \in PageOf(Heaps), NEW reused \in BOOLEAN, m = SingleMapping(page, reused)
          PROVE  isMapped(m) <=> \E idx \in 0 .. n - 1 : getPage(m, idx).memory # NoHeap
      <4>1. isMapped(m) <=> page.memory # NoHeap
        BY <3>1, SingleIs DEF isMapped
      <4>2. \A idx \in 0 .. n - 1 : getPage(m, idx).memory = page.memory
        BY <1>3, <3>1, PageOfSingle DEF n
      <4>3. 0 \in 0 .. n - 1
        BY <1>1
      <4> QED BY <4>1, <4>2, <4>3
    <3>2. ASSUME NEW pages \in Partings(Heaps, n), m = Parted(pages)
          PROVE  isMapped(m) <=> \E idx \in 0 .. n - 1 : getPage(m, idx).memory # NoHeap
      BY <1>1, <3>2, PartedIs DEF Partings, isMapped
    <3> QED BY <1>2, <3>1, <3>2 DEF Mapping
  <2> QED BY <1>4, <2>1 DEF SamePage
<1>6. ASSUME ~m.reused
      PROVE  \A idx \in 0 .. n - 1 : SamePage(ReplayedPages(m, n)[idx], b[<<key, idx>>])
  <2>1. ASSUME layout \notin D3D12Layouts, NEW i \in 0 .. n - 1, NEW k \in 0 .. n - 1, i # k,
               getPage(m, i).memory # NoHeap, SamePage(getPage(m, i), getPage(m, k))
        PROVE  FALSE
    <3> DEFINE t == <<key, i>>
               u == <<key, k>>
    <3>1. t \in UsedTiles /\ u \in UsedTiles /\ t # u
      BY <1>3, <2>1
    <3>2. SamePage(getPage(m, i), b[t]) /\ SamePage(getPage(m, k), b[u])
          /\ b[t] \in PageOf(Heaps) /\ b[u] \in PageOf(Heaps)
      BY <1>4
    <3> HIDE DEF t, u
    <3>3. b[t] = b[u] /\ b[t].memory # NoHeap
      <4>1. b[t].memory = b[u].memory /\ b[t].memory # NoHeap /\ b[t].offset = b[u].offset
        BY <2>1, <3>2 DEF SamePage
      <4> QED BY <3>2, <4>1 DEF PageOf
    <3> QED BY <2>1, <3>1, <3>3 DEF NotAliased
  <2>2. layout \in D3D12Layouts \/
            \A i, k \in 0 .. n - 1 : i # k /\ getPage(m, i).memory # NoHeap
                                        => ~SamePage(getPage(m, i), getPage(m, k))
    BY <2>1
  <2>3. \A idx \in 0 .. n - 1 : SamePage(ReplayedPages(m, n)[idx], getPage(m, idx))
    BY <1>1, <1>2, <1>6, <2>2, ReplayIs
  <2> QED BY <1>4, <2>3 DEF SamePage
<1> QED BY <1>4, <1>5, <1>6 DEF n, m

-----------------------------------------------------------------------------
(* The calls of Vulkan keep the tables right.                              *)

\* The table of r is right.
VulkanTables ==
    /\ layout \in VulkanLayouts
    /\ UsedPages = UsedTiles
    /\ DOMAIN tables = 1 .. 2 /\ DOMAIN boundTo = 1 .. 2
    /\ \A r \in 1 .. 2 : TableRight(tables[r], boundTo[r]) /\ NotAliased(boundTo[r])

LEMMA VulkanTablesStart ==
    ASSUME SparseInit, layout \in VulkanLayouts
    PROVE  VulkanTables
<1>1. Known
  BY DEF Known
<1>2. UsedPages = UsedTiles
  BY <1>1, TileOrderIs DEF SparseInit, UsedPages
<1>3. ASSUME NEW r \in 1 .. 2 PROVE TableRight(tables[r], boundTo[r]) /\ NotAliased(boundTo[r])
  <2>1. tables[r] = [key \in Subs \cup Tails |-> Unmapped] /\ boundTo[r] = [tile \in UsedTiles |-> NoPage]
    BY <1>2 DEF SparseInit
  <2>2. NoPage \in PageOf(Heaps) /\ NoPage.memory = NoHeap
    BY NoPageIs
  <2>3. \A n : Unmapped \in Mapping(Heaps, n)
    <3>1. \A reused \in BOOLEAN : \A n : SingleMapping(NoPage, reused) \in Mapping(Heaps, n)
      BY <2>2, SingleIn
    <3> QED BY <3>1, FALSE \in BOOLEAN, Zenon DEF Unmapped
  <2>4. \A idx \in Nat : getPage(Unmapped, idx).memory = NoHeap
    <3>1. \A reused \in BOOLEAN : \A idx \in Nat : getPage(SingleMapping(NoPage, reused), idx).memory = NoHeap
      BY <2>2, PageOfSingle
    <3> QED BY <3>1, FALSE \in BOOLEAN, Zenon DEF Unmapped
  <2>5. IsTable(tables[r])
    BY <2>1, <2>3 DEF IsTable
  <2>6. Says(tables[r], boundTo[r])
    BY <1>1, NumPagesIs, <2>1, <2>2, <2>4 DEF Says, UsedTiles, SamePage
  <2>7. boundTo[r] \in [UsedTiles -> PageOf(Heaps)]
    BY <2>1, <2>2
  <2>8. NotAliased(boundTo[r])
    BY <1>2, <2>1, <2>2 DEF NotAliased
  <2> QED BY <2>5, <2>6, <2>7, <2>8 DEF TableRight
<1>4. DOMAIN tables = 1 .. 2 /\ DOMAIN boundTo = 1 .. 2
  BY DEF SparseInit
<1> QED BY <1>2, <1>3, <1>4 DEF VulkanTables

\* The shapes do not change.
LEMMA SameLayout ==
    ASSUME layout' = layout, tiles' = tiles
    PROVE  /\ UsedPages' = UsedPages /\ UsedTiles' = UsedTiles /\ UsedMappings' = UsedMappings
           /\ \A table : IsTable(table)' <=> IsTable(table)
           /\ \A table, b : TableRight(table, b)' <=> TableRight(table, b)
           /\ \A b : NotAliased(b)' <=> NotAliased(b)
<1>1. Subs' = Subs /\ NumTails' = NumTails
  BY DEF Subs, NumTails
<1>2. Tails' = Tails
  BY <1>1 DEF Tails
<1>3. TailPages' = TailPages
  BY <1>1 DEF TailPages, TailBytes
<1>4. \A sub : SubPages(sub)' = SubPages(sub)
  BY DEF SubPages, calcSubresourcePageDim, MipDim
<1>5. \A key : NumPages(key)' = NumPages(key)
  BY <1>2, <1>3, <1>4 DEF NumPages
<1>6. UsedMappings' = UsedMappings
  BY <1>1, <1>2 DEF UsedMappings, isSubresourceInMipTail
<1>7. UsedTiles' = UsedTiles
  BY <1>5, <1>6 DEF UsedTiles
<1>8. UsedPages' = UsedPages
  BY DEF UsedPages
<1>9. \A table : IsTable(table)' <=> IsTable(table)
  BY <1>1, <1>2, <1>5 DEF IsTable
<1>10. \A table, b : Says(table, b)' <=> Says(table, b)
  BY <1>7 DEF Says
<1>11. \A table, b : TableRight(table, b)' <=> TableRight(table, b)
  BY <1>7, <1>9, <1>10 DEF TableRight
<1>12. \A b : NotAliased(b)' <=> NotAliased(b)
  BY <1>8 DEF NotAliased
<1> QED BY <1>6, <1>7, <1>8, <1>9, <1>11, <1>12

LEMMA VulkanTablesStay ==
    ASSUME "aliased" \notin TableHazards, "allTails" \notin TableHazards,
           VulkanTables, [SparseNext]_sparseVars
    PROVE  VulkanTables'
<1>1. Known /\ layout \notin D3D12Layouts /\ layout \in VulkanLayouts
  BY SparseBindingsAssumption DEF VulkanTables, Known
<1>2. ASSUME NEW table, NEW b, TableRight(table, b), NotAliased(b), Called(1),
             tables' = [tables EXCEPT ![1] = table], boundTo' = [boundTo EXCEPT ![1] = b]
      PROVE  VulkanTables'
  BY <1>2, SameLayout DEF Called, VulkanTables
<1>3. ASSUME NEW g \in Boxes, NEW page \in VulkanPages, UpdateImage(g, page)
      PROVE  VulkanTables'
  <2> DEFINE extent == [d \in 1 .. 2 |-> Min({Texels(g.size)[d], MipDim(g.sub)[d] - Texels(g.coord)[d]})]
             table == setImageBoxRange(tables[1], g.sub, Texels(g.coord), extent, page, FALSE)
             b == Bind(boundTo[1], RegionTiles(g), [n \in 1 .. g.n |-> PagesOn(page, n - 1)])
  <2>1. /\ FitsIn(g) /\ Called(1) /\ NotAliased(boundTo'[1])
        /\ tables' = [tables EXCEPT ![1] = table] /\ boundTo' = [boundTo EXCEPT ![1] = b]
    BY <1>3 DEF UpdateImage
  <2>2. TableRight(tables[1], boundTo[1]) /\ DOMAIN boundTo = 1 .. 2
    BY DEF VulkanTables
  <2>3. TableRight(table, b)
    <3> DEFINE t1 == tables[1]
               b1 == boundTo[1]
               shape == [d \in 1 .. 2 |-> Min({Texels(g.size)[d], MipDim(g.sub)[d] - Texels(g.coord)[d]})]
    <3>1. TableRight(t1, b1) /\ FitsIn(g) /\ Known /\ page \in PageOf(Heaps)
      BY <1>1, <2>1, <2>2, VulkanPagesAre
    <3>2. \A x : x = shape =>
             TableRight(setImageBoxRange(t1, g.sub, Texels(g.coord), x, page, FALSE),
                        Bind(b1, RegionTiles(g), [n \in 1 .. g.n |-> PagesOn(page, n - 1)]))
      <4> TAKE x
      <4> HAVE x = shape
      <4> HIDE DEF t1, b1
      <4> QED BY <3>1, ImageUpdated
    <3> HIDE DEF shape
    <3> QED BY <3>2 DEF shape
  <2> HIDE DEF table, b
  <2>4. NotAliased(b)
    BY <2>1, <2>2
  <2> QED BY <1>2, <2>1, <2>3, <2>4
<1>4. ASSUME NEW first \in TailTiles, NEW last \in TailTiles, NEW page \in VulkanPages, NEW atEnd \in BOOLEAN,
             UpdateOpaque(first, last, page, atEnd)
      PROVE  VulkanTables'
  <2> DEFINE bytes == OpaqueBytes(first, last, atEnd)
             table == setMipTailRange(tables[1], TailAddress(first), page, bytes, FALSE)
             b == OpaqueBound(boundTo[1], first, last, page)
  <2>1. /\ Called(1) /\ NotAliased(boundTo'[1]) /\ TailAddress(first) <= TailAddress(last)
        /\ atEnd => layout.subs = 0 /\ last[2] = TailPages - 1
        /\ ~(NumTails > 1 /\ TailAddress(first) = layout.byteOffset /\ bytes = layout.packed)
        /\ tables' = [tables EXCEPT ![1] = table]
    BY <1>4 DEF UpdateOpaque, OpaqueBytes
  <2>2. TableRight(tables[1], boundTo[1]) /\ DOMAIN boundTo = 1 .. 2 /\ UsedPages = UsedTiles
    BY DEF VulkanTables
  <2>3. boundTo' = [boundTo EXCEPT ![1] = b]
    BY <1>4, <2>2 DEF UpdateOpaque, OpaqueBound, OpaqueTiles
  <2>4. TableRight(table, b)
    BY <1>1, <2>1, <2>2, VulkanPagesAre, OpaqueUpdated
  <2> HIDE DEF table, b
  <2>5. NotAliased(b)
    BY <2>1, <2>2, <2>3
  <2> QED BY <1>2, <2>1, <2>3, <2>4, <2>5
<1>5. CASE UNCHANGED sparseVars
  BY <1>5, SameLayout DEF sparseVars, VulkanTables
<1>6. CASE SparseNext
  BY <1>1, <1>3, <1>4, <1>6 DEF SparseNext, VulkanNext
<1> QED BY <1>5, <1>6

(* For resources of Vulkan. *)
THEOREM VulkanBindingsAreKept ==
    ASSUME "aliased" \notin TableHazards, "allTails" \notin TableHazards
    PROVE  SparseSpec => [](layout \in VulkanLayouts => BindingsKept)
<1> DEFINE Inv == layout \in VulkanLayouts => VulkanTables
<1>1. SparseInit => Inv
  BY VulkanTablesStart
<1>2. Inv /\ [SparseNext]_sparseVars => Inv'
  <2>1. [SparseNext]_sparseVars => layout' = layout
    BY DEF SparseNext, sparseVars, D3D12Next, VulkanNext, UpdateTileMappings, CopyTileMappings,
           UpdateImage, UpdateOpaque, Called
  <2> QED BY <2>1, VulkanTablesStay
<1>3. Inv => (layout \in VulkanLayouts => BindingsKept)
  <2> SUFFICES ASSUME VulkanTables, NEW r \in 1 .. 2, NEW key \in UsedMappings
               PROVE  LET m == tables[r][key] IN
                      /\ PagesAreBound(r, key, LAMBDA idx : getPage(m, idx))
                      /\ UnmappedIsKnown(r, key)
                      /\ m.reused \/ ReplayBindsPages(r, key)
    BY DEF BindingsKept
  <2> DEFINE table == tables[r]
             b == boundTo[r]
  <2>1. Known /\ UsedPages = UsedTiles /\ TableRight(table, b) /\ NotAliased(b)
    BY DEF VulkanTables, Known
  <2> HIDE DEF table, b
  <2>2. /\ \A idx \in 0 .. NumPages(key) - 1 : SamePage(getPage(table[key], idx), b[<<key, idx>>])
        /\ isMapped(table[key]) <=> \E idx \in 0 .. NumPages(key) - 1 : b[<<key, idx>>].memory # NoHeap
        /\ ~table[key].reused =>
                 \A idx \in 0 .. NumPages(key) - 1 :
                    SamePage(ReplayedPages(table[key], NumPages(key))[idx], b[<<key, idx>>])
    BY <2>1, BoundIsKept
  <2> USE DEF table, b
  <2>3. PagesAreBound(r, key, LAMBDA idx : getPage(tables[r][key], idx))
    BY <2>2 DEF PagesAreBound
  <2>4. UnmappedIsKnown(r, key)
    BY <2>2 DEF isMapped, hasSingleMapping, UnmappedIsKnown
  <2>5. ~tables[r][key].reused => ReplayBindsPages(r, key)
    BY <2>2 DEF ReplayBindsPages, PagesAreBound
  <2> QED BY <2>3, <2>4, <2>5
<1> HIDE DEF Inv
<1> QED BY <1>1, <1>2, <1>3, PTL DEF SparseSpec

-----------------------------------------------------------------------------
(* On D3D12: where the tiles of a subresource are in their order.          *)

\* On D3D12 each slice has a tail of its own.
TailsApart == layout.firstMip < layout.mips /\ layout.slices > 1 => layout.byteStride > 0

LEMMA SubIs ==
    ASSUME Known, NEW sub \in AllSubs
    PROVE  /\ sub \div layout.mips \in 0 .. layout.slices - 1
           /\ sub % layout.mips \in 0 .. layout.mips - 1
           /\ sub = (sub \div layout.mips) * layout.mips + (sub % layout.mips)
<1> DEFINE m == layout.mips
           s == sub \div m
           r == sub % m
<1>1. /\ sub \in Nat /\ m \in Nat \ {0} /\ layout.slices \in Nat \ {0}
      /\ layout.subs # 0 => layout.subs = layout.slices * m
      /\ layout.subs = 0 => m = 1 /\ layout.slices = 1
      /\ layout.subs # 0 => sub < layout.subs
      /\ layout.subs = 0 => sub = 0
  <2>1. /\ layout.subs \in Nat /\ m \in Nat \ {0} /\ layout.slices \in Nat \ {0}
        /\ layout.subs # 0 => layout.subs = layout.slices * m
        /\ layout.subs = 0 => m = 1 /\ layout.slices = 1
    BY LayoutIs
  <2>2. layout.subs # 0 => sub \in 0 .. layout.subs - 1
    BY AllSubsAre
  <2>3. layout.subs = 0 => sub = 0
    BY AllSubsAre
  <2> QED BY <2>1, <2>2, <2>3
<1> HIDE DEF m
<1>2. s \in Nat /\ r \in Nat /\ r < m /\ sub = s * m + r
  BY <1>1, Division
<1> HIDE DEF s, r
<1>3. s < layout.slices
  <2>1. CASE layout.subs = 0
    BY <1>1, <2>1, <1>2
  <2>2. CASE layout.subs # 0
    BY <1>1, <1>2, <2>2, PlacesOrdered
  <2> QED BY <2>1, <2>2
<1>4. s \in 0 .. layout.slices - 1 /\ r \in 0 .. m - 1 /\ sub = s * m + r
  BY <1>1, <1>2, <1>3
<1> QED BY <1>4 DEF m, s, r

\* The subresources that are the first ones of a mapping.
Begins(sub) == sub \in AllSubs /\ sub % layout.mips <= layout.firstMip

LEMMA MappingIs ==
    ASSUME Known, TailsApart, NEW sub \in AllSubs
    PROVE  MappingOf(sub) = IF isSubresourceInMipTail(sub) THEN <<"tail", sub \div layout.mips>>
                            ELSE <<"sub", sub>>
<1>1. sub \div layout.mips \in 0 .. layout.slices - 1 /\ layout.slices \in Nat \ {0}
  BY SubIs, LayoutIs
<1>2. (sub \div layout.mips) % layout.slices = sub \div layout.mips
  BY <1>1
<1>3. CASE isSubresourceInMipTail(sub)
  <2>1. layout.firstMip < layout.mips
    BY <1>3, SubIs, LayoutIs DEF isSubresourceInMipTail
  <2>2. NumTails = 1 => layout.slices = 1
    BY <2>1, LayoutIs DEF NumTails, TailsApart
  <2> QED BY <1>1, <1>2, <1>3, <2>2 DEF MappingOf
<1> QED BY <1>3 DEF MappingOf

LEMMA NextToIt ==
    ASSUME NEW m \in Nat \ {0}, NEW n \in Nat \ {0}
    PROVE  IF n % m = 0 THEN (n - 1) % m = m - 1 /\ (n - 1) \div m = n \div m - 1
           ELSE (n - 1) % m = (n % m) - 1 /\ (n - 1) \div m = n \div m
<1> DEFINE q == n \div m
           r == n % m
<1>1. q \in Nat /\ r \in Nat /\ r < m /\ n = q * m + r
  BY Division
<1> HIDE DEF q, r
<1>2. CASE r = 0
  <2>1. q # 0
    BY <1>1, <1>2
  <2>2. n - 1 = (q - 1) * m + (m - 1) /\ q - 1 \in Nat /\ m - 1 \in Nat /\ m - 1 < m
    BY <1>1, <1>2
  <2>3. ((q - 1) * m + (m - 1)) \div m = q - 1 /\ ((q - 1) * m + (m - 1)) % m = m - 1
    BY <2>2, DivisionIs
  <2> QED BY <1>2, <2>2, <2>3 DEF q, r
<1>3. CASE r # 0
  <2>1. n - 1 = q * m + (r - 1)
    BY <1>1
  <2>2. (q * m + (r - 1)) \div m = q /\ (q * m + (r - 1)) % m = r - 1
    BY <1>1, <1>3, DivisionIs
  <2> QED BY <1>3, <2>1, <2>2 DEF q, r
<1> QED BY <1>2, <1>3

\* A subresource that begins a mapping has another one than that before it.
LEMMA BeginsIs ==
    ASSUME Known, TailsApart
    PROVE  /\ Begins(0)
           /\ \A sub \in AllSubs : sub # 0 => (Begins(sub) <=> MappingOf(sub) # MappingOf(sub - 1))
           /\ \A k, l \in AllSubs : Begins(k) /\ Begins(l) /\ MappingOf(k) = MappingOf(l) => k = l
<1>1. layout.mips \in Nat \ {0} /\ layout.firstMip \in 0 .. layout.mips
  BY LayoutIs
<1>2. Begins(0)
  BY <1>1, AllSubsAre DEF AllSubs, Begins
<1>3. ASSUME NEW sub \in AllSubs, sub # 0 PROVE Begins(sub) <=> MappingOf(sub) # MappingOf(sub - 1)
  <2>1. sub - 1 \in AllSubs /\ sub \in Nat \ {0}
    BY <1>3, AllSubsAre DEF AllSubs
  <2> DEFINE m == layout.mips
             f == layout.firstMip
  <2>2. /\ MappingOf(sub) = IF sub % m >= f THEN <<"tail", sub \div m>> ELSE <<"sub", sub>>
        /\ MappingOf(sub - 1) = IF (sub - 1) % m >= f THEN <<"tail", (sub - 1) \div m>> ELSE <<"sub", sub - 1>>
    BY <2>1, MappingIs DEF isSubresourceInMipTail
  <2>3. /\ IF sub % m = 0 THEN (sub - 1) % m = m - 1 /\ (sub - 1) \div m = sub \div m - 1
                          ELSE (sub - 1) % m = (sub % m) - 1 /\ (sub - 1) \div m = sub \div m
        /\ sub \div m \in Nat /\ sub % m \in Nat /\ sub % m < m
    BY <1>1, <2>1, NextToIt, Division
  <2>4. Begins(sub) <=> sub % m <= f
    BY DEF Begins
  <2>5. m \in Nat \ {0} /\ f \in 0 .. m
    BY <1>1
  <2> HIDE DEF m, f
  <2>6. sub # sub - 1 /\ (sub \div m) # (sub \div m) - 1
    BY <2>1, <2>3
  <2>7. CASE sub % m < f
    BY <2>3, <2>5, <2>7, <2>2, <2>4, <2>6
  <2>8. CASE sub % m = f
    <3>1. MappingOf(sub) = <<"tail", sub \div m>> /\ Begins(sub)
      BY <2>2, <2>3, <2>4, <2>5, <2>8
    <3>2. CASE sub % m = 0
      BY <2>3, <3>2, <2>2, <2>6, <3>1
    <3>3. CASE sub % m # 0
      BY <2>3, <2>5, <2>8, <3>3, <2>2, <3>1
    <3> QED BY <3>2, <3>3
  <2>9. CASE sub % m > f
    BY <2>2, <2>3, <2>4, <2>5, <2>9
  <2> QED BY <2>3, <2>5, <2>7, <2>8, <2>9
<1>4. ASSUME NEW k \in AllSubs, NEW l \in AllSubs, Begins(k), Begins(l), MappingOf(k) = MappingOf(l)
      PROVE  k = l
  <2> DEFINE m == layout.mips
             f == layout.firstMip
  <2>1. /\ MappingOf(k) = IF k % m >= f THEN <<"tail", k \div m>> ELSE <<"sub", k>>
        /\ MappingOf(l) = IF l % m >= f THEN <<"tail", l \div m>> ELSE <<"sub", l>>
    BY MappingIs DEF isSubresourceInMipTail
  <2>2. /\ k % m \in Nat /\ l % m \in Nat /\ k % m <= f /\ l % m <= f /\ f \in Nat
        /\ k = (k \div m) * m + (k % m) /\ l = (l \div m) * m + (l % m)
    BY <1>1, <1>4, SubIs DEF Begins
  <2> HIDE DEF m, f
  <2>5. /\ k % m >= f => MappingOf(k)[1] = "tail" /\ MappingOf(k)[2] = k \div m
        /\ ~(k % m >= f) => MappingOf(k)[1] = "sub" /\ MappingOf(k)[2] = k
        /\ l % m >= f => MappingOf(l)[1] = "tail" /\ MappingOf(l)[2] = l \div m
        /\ ~(l % m >= f) => MappingOf(l)[1] = "sub" /\ MappingOf(l)[2] = l
    BY <2>1
  <2>6. MappingOf(k)[1] = MappingOf(l)[1] /\ MappingOf(k)[2] = MappingOf(l)[2] /\ "tail" # "sub"
    BY <1>4
  <2>3. CASE k % m >= f
    BY <2>3, <2>5, <2>6, <2>2
  <2>4. CASE ~(k % m >= f)
    BY <2>4, <2>5, <2>6
  <2> QED BY <2>3, <2>4
<1> QED BY <1>2, <1>3, <1>4

NumSubs == Max({1, layout.subs})

\* The tiles of the subresources before each.
InOrder(upto) ==
    /\ upto \in [0 .. NumSubs -> Seq(UsedTiles)]
    /\ upto[0] = <<>>
    /\ \A sub \in 1 .. NumSubs : upto[sub] = TilesThrough(upto[sub - 1], MappingOf(sub - 1))

LEMMA OrderIs ==
    ASSUME Known
    PROVE  \E upto : InOrder(upto) /\ TileOrder = upto[NumSubs]
<1> DEFINE N == NumSubs
           S == Seq(UsedTiles)
           eq(f) == f = [sub \in 0 .. N |->
                           IF sub = 0 THEN <<>> ELSE TilesThrough(f[sub - 1], MappingOf(sub - 1))]
           upto == CHOOSE f : eq(f)
           step == [sub \in 1 .. N |-> [seq \in S |-> TilesThrough(seq, MappingOf(sub - 1))]]
<1>1. N \in Nat \ {0} /\ AllSubs = 0 .. N - 1
  BY AllSubsAre DEF AllSubs, NumSubs
<1>2. \A sub \in 1 .. N : sub - 1 \in AllSubs /\ MappingOf(sub - 1) \in UsedMappings
  <2>1. \A sub \in 1 .. N : sub - 1 \in AllSubs
    BY <1>1
  <2> QED BY <2>1, MappingIsUsed
<1>3. TileOrder = upto[N]
  BY DEF TileOrder, NumSubs
<1> HIDE DEF N
<1>4. \E f : eq(f)
  <2>1. \A sub \in 1 .. N : \A seq \in S : TilesThrough(seq, MappingOf(sub - 1)) \in S
    BY <1>2, TilesThroughType
  <2>2. step \in [1 .. N -> [S -> S]]
    BY <2>1
  <2>3. \A sub \in 1 .. N : \A seq \in S : step[sub][seq] = TilesThrough(seq, MappingOf(sub - 1))
    OBVIOUS
  <2>4. <<>> \in S
    OBVIOUS
  <2> HIDE DEF step, S
  <2>5. PICK f : Iterated(f, S, <<>>, N, step)
    BY <1>1, <2>2, <2>4, Iterating
  <2>6. ASSUME NEW sub \in 0 .. N, sub # 0
        PROVE  step[sub][f[sub - 1]] = TilesThrough(f[sub - 1], MappingOf(sub - 1))
    BY <1>1, <2>6, <2>5, <2>3 DEF Iterated
  <2>7. [sub \in 0 .. N |-> IF sub = 0 THEN <<>> ELSE step[sub][f[sub - 1]]]
        = [sub \in 0 .. N |-> IF sub = 0 THEN <<>> ELSE TilesThrough(f[sub - 1], MappingOf(sub - 1))]
    BY <2>6
  <2>8. eq(f)
    BY <2>5, <2>7 DEF Iterated
  <2> QED BY <2>8
<1>5. eq(upto)
  BY <1>4
<1> HIDE DEF upto
<1>6. /\ upto[0] = <<>> /\ \A sub \in 1 .. N : upto[sub] = TilesThrough(upto[sub - 1], MappingOf(sub - 1))
      /\ upto = [sub \in 0 .. N |-> upto[sub]]
  BY <1>1, <1>5
<1> HIDE DEF eq
<1> DEFINE T == {sub \in 0 .. N : upto[sub] \in S}
<1>7. 0 \in T
  <2>1. <<>> \in S /\ 0 \in 0 .. N
    BY <1>1
  <2> HIDE DEF S
  <2> QED BY <1>6, <2>1
<1>8. ASSUME NEW sub \in 1 .. N, sub - 1 \in T PROVE sub \in T
  <2>1. TilesThrough(upto[sub - 1], MappingOf(sub - 1)) \in S
    BY <1>2, <1>8, TilesThroughType
  <2> HIDE DEF T
  <2>2. upto[sub] = TilesThrough(upto[sub - 1], MappingOf(sub - 1)) /\ sub \in 0 .. N
    <3>1. upto[sub] = TilesThrough(upto[sub - 1], MappingOf(sub - 1))
      BY <1>6
    <3>2. sub \in 0 .. N
      BY <1>1
    <3> QED BY <3>1, <3>2
  <2> USE DEF T
  <2> HIDE DEF S
  <2> QED BY <2>1, <2>2
<1>9. \A sub \in 0 .. N : sub \in T
  BY <1>1, <1>7, <1>8, Counting
<1>10. upto \in [0 .. N -> S]
  BY <1>9, <1>6
<1> QED BY <1>3, <1>6, <1>10 DEF InOrder, N

\* at[sub] is where the tiles of sub begin; those of a tail do so with its first mip.
TilesAt(seq, at) ==
    /\ seq \in Seq(UsedTiles) /\ at \in [0 .. NumSubs -> Nat \ {0}]
    /\ at[0] = 1 /\ at[NumSubs] = Len(seq) + 1
    /\ \A sub \in AllSubs : Begins(sub) =>
          /\ NextSubresource(sub) \in 0 .. NumSubs
          /\ NextSubresource(sub) # NumSubs => Begins(NextSubresource(sub))
          /\ at[NextSubresource(sub)] = at[sub] + NumPages(MappingOf(sub))
          /\ \A idx \in 0 .. NumPages(MappingOf(sub)) - 1 :
                at[sub] + idx \in 1 .. Len(seq) /\ seq[at[sub] + idx] = <<MappingOf(sub), idx>>
    /\ \A p \in 1 .. Len(seq) : \E sub \in AllSubs :
          Begins(sub) /\ p - at[sub] \in 0 .. NumPages(MappingOf(sub)) - 1

LEMMA NextIs ==
    ASSUME Known, TailsApart, NEW sub \in AllSubs, Begins(sub)
    PROVE  /\ NextSubresource(sub) \in 1 .. NumSubs /\ NextSubresource(sub) > sub
           /\ NextSubresource(sub) # NumSubs => Begins(NextSubresource(sub))
           /\ \A n \in sub + 1 .. NextSubresource(sub) - 1 : n \in AllSubs /\ ~Begins(n)
<1> DEFINE m == layout.mips
           f == layout.firstMip
           s == sub \div m
           r == sub % m
<1>1. /\ m \in Nat \ {0} /\ f \in 0 .. m /\ sub \in Nat /\ NumSubs \in Nat \ {0}
      /\ AllSubs = 0 .. NumSubs - 1
  BY LayoutIs, AllSubsAre DEF AllSubs, NumSubs
<1>2. s \in 0 .. layout.slices - 1 /\ r \in 0 .. m - 1 /\ sub = s * m + r /\ layout.slices \in Nat \ {0}
  BY SubIs, LayoutIs
<1>3. r <= f
  BY DEF Begins
<1>4. NumSubs = layout.slices * m
  BY LayoutIs, GreatestOfTwo DEF NumSubs
<1>5. NextSubresource(sub) = IF r >= f THEN (s + 1) * m ELSE sub + 1
  BY DEF NextSubresource, isSubresourceInMipTail
<1>6. \A n \in AllSubs : Begins(n) <=> n % m <= f
  BY DEF Begins
<1> HIDE DEF m, f, s, r
<1>7. s * m \in Nat /\ (s + 1) * m = s * m + m /\ (s + 1) * m <= NumSubs
  <2>1. s * m \in Nat /\ (s + 1) * m = s * m + m
    BY <1>1, <1>2
  <2>2. (s + 1) * m + 0 <= layout.slices * m + 0
    BY <1>1, <1>2, PlacesOrdered
  <2>3. layout.slices * m \in Nat /\ (s + 1) * m \in Nat
    BY <1>1, <1>2
  <2>4. (s + 1) * m <= layout.slices * m
    BY <2>2, <2>3
  <2> QED BY <1>4, <2>1, <2>4
<1>8. CASE r >= f
  <2>1. NextSubresource(sub) = s * m + m /\ s * m + m > sub
    BY <1>1, <1>2, <1>5, <1>7, <1>8
  <2>2. NextSubresource(sub) \in 1 .. NumSubs
    BY <1>1, <1>7, <2>1
  <2>6. s + 1 \in Nat /\ s \in Nat /\ 0 < m
    BY <1>1, <1>2
  <2>7. ((s + 1) * m + 0) % m = 0
    BY <1>1, <2>6, DivisionIs
  <2>8. (s + 1) * m + 0 = s * m + m
    BY <1>7, <1>1
  <2>3. (s * m + m) % m = 0
    BY <2>7, <2>8
  <2>4. NextSubresource(sub) # NumSubs => Begins(NextSubresource(sub))
    BY <1>1, <1>6, <2>1, <2>2, <2>3
  <2>5. ASSUME NEW n \in sub + 1 .. NextSubresource(sub) - 1 PROVE n \in AllSubs /\ ~Begins(n)
    <3>1. n \in AllSubs /\ n - s * m \in Nat /\ n - s * m < m /\ n - s * m > r
      BY <1>1, <1>2, <1>7, <2>1, <2>2
    <3>2. n = s * m + (n - s * m)
      BY <1>7
    <3>3. n % m = n - s * m
      <4> DEFINE x == n - s * m
      <4>1. x \in Nat /\ x < m /\ n = s * m + x
        BY <3>1, <3>2
      <4> HIDE DEF x
      <4>2. (s * m + x) % m = x
        BY <1>1, <2>6, <4>1, DivisionIs
      <4> QED BY <4>1, <4>2 DEF x
    <3> QED BY <1>1, <1>2, <1>3, <1>6, <1>8, <3>1, <3>3
  <2> QED BY <2>1, <2>2, <2>4, <2>5
<1>9. CASE ~(r >= f)
  <2>1. NextSubresource(sub) = sub + 1
    BY <1>5, <1>9
  <2>2. sub + 1 \in 1 .. NumSubs
    BY <1>1
  <2>3. sub + 1 # NumSubs => sub + 1 \in AllSubs
    BY <1>1
  <2>4. ASSUME sub + 1 # NumSubs PROVE Begins(sub + 1)
    <3>1. (sub + 1) % m <= f
      <4>1. CASE r + 1 < m
        <5>1. sub + 1 = s * m + (r + 1)
          BY <1>2, <1>7
        <5>3. s \in Nat /\ r + 1 \in Nat
          BY <1>2
        <5>4. (s * m + (r + 1)) % m = r + 1
          BY <1>1, <4>1, <5>3, DivisionIs
        <5>2. (sub + 1) % m = r + 1
          BY <5>1, <5>4
        <5> QED BY <1>1, <1>2, <1>9, <5>2
      <4>2. CASE r + 1 = m
        <5>1. sub + 1 = (s + 1) * m + 0
          BY <1>2, <1>7, <4>2
        <5>3. s + 1 \in Nat /\ 0 < m
          BY <1>1, <1>2
        <5>4. ((s + 1) * m + 0) % m = 0
          BY <1>1, <5>3, DivisionIs
        <5>2. (sub + 1) % m = 0
          BY <5>1, <5>4
        <5> QED BY <1>1, <5>2
      <4> QED BY <1>1, <1>2, <4>1, <4>2
    <3> QED BY <1>6, <2>3, <2>4, <3>1
  <2>5. sub + 1 .. (sub + 1) - 1 = {}
    BY <1>1
  <2> QED BY <1>1, <2>1, <2>2, <2>4, <2>5
<1> QED BY <1>8, <1>9

\* What is true of the tiles of the subresources before n.
TilesUpTo(upto, at, n) ==
    /\ n > 0 => at[n] = at[n - 1] + IF Begins(n - 1) THEN NumPages(MappingOf(n - 1)) ELSE 0
    /\ n > 0 => upto[n] # <<>> /\ Last(upto[n])[1] = MappingOf(n - 1)
    /\ \A sub \in 0 .. n - 1 : Begins(sub) => \A idx \in 0 .. NumPages(MappingOf(sub)) - 1 :
          at[sub] + idx \in 1 .. Len(upto[n]) /\ upto[n][at[sub] + idx] = <<MappingOf(sub), idx>>
    /\ \A p \in 1 .. Len(upto[n]) : \E sub \in 0 .. n - 1 :
          Begins(sub) /\ p - at[sub] \in 0 .. NumPages(MappingOf(sub)) - 1

LEMMA PositionsStep ==
    ASSUME Known, TailsApart, NEW upto, InOrder(upto), NEW at, at = [sub \in 0 .. NumSubs |-> Len(upto[sub]) + 1],
           NEW n \in 1 .. NumSubs, TilesUpTo(upto, at, n - 1)
    PROVE  TilesUpTo(upto, at, n)
<1> DEFINE key == MappingOf(n - 1)
           K == NumPages(key)
           seq == upto[n - 1]
           L == Len(seq)
<1>1. NumSubs \in Nat \ {0} /\ AllSubs = 0 .. NumSubs - 1 /\ n - 1 \in AllSubs /\ n \in Nat \ {0}
  BY AllSubsAre DEF AllSubs, NumSubs
<1>2. key \in UsedMappings /\ K \in Nat \ {0}
  BY <1>1, MappingIsUsed, NumPagesIs
<1>3. seq \in Seq(UsedTiles) /\ upto[n] \in Seq(UsedTiles) /\ upto[n] = TilesThrough(seq, key)
  <2>1. n \in 0 .. NumSubs /\ n - 1 \in 0 .. NumSubs
    BY <1>1
  <2>2. upto[n] \in Seq(UsedTiles) /\ upto[n - 1] \in Seq(UsedTiles)
    BY <2>1 DEF InOrder
  <2>3. upto[n] = TilesThrough(upto[n - 1], MappingOf(n - 1))
    BY DEF InOrder
  <2> QED BY <2>2, <2>3
<1>4. at[n] = Len(upto[n]) + 1 /\ at[n - 1] = L + 1 /\ L \in Nat /\ Len(upto[n]) \in Nat
  BY <1>1, <1>3
<1>5. seq # <<>> <=> n - 1 # 0
  <2>1. n - 1 = 0 => seq = <<>>
    BY DEF InOrder
  <2>2. n - 1 > 0 => seq # <<>>
    BY DEF TilesUpTo
  <2> QED BY <1>1, <2>1, <2>2
<1>6. n - 1 # 0 => Last(seq)[1] = MappingOf((n - 1) - 1)
  BY <1>1 DEF TilesUpTo
<1>7. (seq # <<>> /\ Last(seq)[1] = key) <=> ~Begins(n - 1)
  BY <1>1, BeginsIs, <1>5, <1>6
<1>8. CASE ~Begins(n - 1)
  <2>1. upto[n] = seq /\ n - 1 # 0
    BY <1>3, <1>5, <1>7, <1>8 DEF TilesThrough
  <2>2. upto[n] # <<>> /\ Last(upto[n])[1] = key
    BY <1>7, <1>8, <2>1
  <2>3. \A sub \in 0 .. n - 1 : Begins(sub) => sub \in 0 .. (n - 1) - 1
    BY <1>1, <1>8
  <2>4. \A sub \in 0 .. (n - 1) - 1 : sub \in 0 .. n - 1
    BY <1>1
  <2> HIDE DEF K, L
  <2>5. TilesUpTo(upto, at, n)
    <3>1. at[n] = at[n - 1] + 0
      BY <1>4, <2>1 DEF L
    <3> QED BY <1>8, <2>1, <2>2, <2>3, <2>4, <3>1 DEF TilesUpTo, key
  <2> QED BY <1>4, <1>8, <2>1, <2>5
<1>9. CASE Begins(n - 1)
  <2> DEFINE more == [i \in 1 .. K |-> <<key, i - 1>>]
  <2>1. upto[n] = seq \o more
    BY <1>3, <1>7, <1>9 DEF TilesThrough
  <2>2. more \in Seq(UsedTiles) /\ Len(more) = K
    BY <1>2, MoreTiles
  <2>3. \A i \in 1 .. K : more[i] = <<key, i - 1>>
    OBVIOUS
  <2> HIDE DEF more, K, key, seq, L
  <2>4. /\ Len(upto[n]) = L + K
        /\ \A p \in 1 .. L : upto[n][p] = seq[p]
        /\ \A p \in L + 1 .. L + K : upto[n][p] = more[p - L]
    BY <1>2, <1>3, <1>4, <2>1, <2>2 DEF L
  <2>5. \A idx \in 0 .. K - 1 : at[n - 1] + idx \in 1 .. Len(upto[n]) /\ upto[n][at[n - 1] + idx] = <<key, idx>>
    <3> SUFFICES ASSUME NEW idx \in 0 .. K - 1
                 PROVE  at[n - 1] + idx \in 1 .. Len(upto[n]) /\ upto[n][at[n - 1] + idx] = <<key, idx>>
      OBVIOUS
    <3>1. L + 1 + idx \in L + 1 .. L + K /\ L + 1 + idx \in 1 .. L + K
      BY <1>2, <1>4
    <3>2. (L + 1 + idx) - L = idx + 1 /\ idx + 1 \in 1 .. K /\ (idx + 1) - 1 = idx
      BY <1>2, <1>4
    <3> QED BY <1>4, <2>3, <2>4, <3>1, <3>2
  <2>6. upto[n] # <<>> /\ Last(upto[n])[1] = key
    <3>1. Len(upto[n]) \in L + 1 .. L + K /\ K \in 1 .. K /\ (L + K) - L = K
      BY <1>2, <1>4, <2>4
    <3>2. upto[n][Len(upto[n])] = <<key, K - 1>>
      BY <2>3, <2>4, <3>1
    <3> QED BY <1>3, <1>4, <2>4, <3>1, <3>2 DEF Last
  <2>7. ASSUME NEW sub \in 0 .. n - 1, Begins(sub), NEW idx \in 0 .. NumPages(MappingOf(sub)) - 1
        PROVE  at[sub] + idx \in 1 .. Len(upto[n]) /\ upto[n][at[sub] + idx] = <<MappingOf(sub), idx>>
    <3>1. CASE sub = n - 1
      BY <2>5, <2>7, <3>1 DEF K, key
    <3>2. CASE sub # n - 1
      <4>1. sub \in 0 .. (n - 1) - 1
        BY <1>1, <3>2
      <4>2. at[sub] + idx \in 1 .. L /\ seq[at[sub] + idx] = <<MappingOf(sub), idx>>
        BY <2>7, <4>1 DEF TilesUpTo, L, seq
      <4>3. \A p \in 1 .. L : p \in 1 .. L + K
        BY <1>2, <1>4
      <4> QED BY <2>4, <4>2, <4>3
    <3> QED BY <3>1, <3>2
  <2>8. ASSUME NEW p \in 1 .. Len(upto[n])
        PROVE  \E sub \in 0 .. n - 1 : Begins(sub) /\ p - at[sub] \in 0 .. NumPages(MappingOf(sub)) - 1
    <3>1. CASE p \in 1 .. L
      <4>1. \E sub \in 0 .. (n - 1) - 1 : Begins(sub) /\ p - at[sub] \in 0 .. NumPages(MappingOf(sub)) - 1
        BY <3>1 DEF TilesUpTo, L, seq
      <4>2. \A sub \in 0 .. (n - 1) - 1 : sub \in 0 .. n - 1
        BY <1>1
      <4> QED BY <4>1, <4>2
    <3>2. CASE p \notin 1 .. L
      <4>1. p - at[n - 1] \in 0 .. K - 1 /\ n - 1 \in 0 .. n - 1
        <5>1. p \in 1 .. L + K
          BY <2>4
        <5>2. p \in L + 1 .. L + K
          BY <1>2, <1>4, <3>2, <5>1
        <5>3. p - (L + 1) \in 0 .. K - 1
          BY <1>2, <1>4, <5>2
        <5> QED BY <1>1, <1>4, <5>3
      <4> QED BY <1>9, <4>1 DEF K, key
    <3> QED BY <3>1, <3>2
  <2>9. at[n] = at[n - 1] + K
    <3>1. Len(upto[n]) = L + K
      BY <2>4
    <3>2. K \in Nat
      BY <1>2
    <3>3. Len(upto[n]) + 1 = (L + 1) + K
      BY <1>4, <3>1, <3>2
    <3> QED BY <1>4, <3>3
  <2> QED BY <1>9, <2>6, <2>7, <2>8, <2>9 DEF TilesUpTo, K, key
<1> QED BY <1>8, <1>9

LEMMA PositionsAre ==
    ASSUME Known, TailsApart
    PROVE  \E at : TilesAt(TileOrder, at)
<1> DEFINE N == NumSubs
<1>1. PICK upto : InOrder(upto) /\ TileOrder = upto[N]
  BY OrderIs
<1> DEFINE at == [sub \in 0 .. N |-> Len(upto[sub]) + 1]
           T == {n \in 0 .. N : TilesUpTo(upto, at, n)}
<1>2. N \in Nat \ {0} /\ AllSubs = 0 .. N - 1
  BY AllSubsAre DEF AllSubs, NumSubs
<1>3. \A n \in 0 .. N : upto[n] \in Seq(UsedTiles)
  BY <1>1 DEF InOrder
<1>4. at \in [0 .. N -> Nat \ {0}] /\ at[0] = 1 /\ at[N] = Len(TileOrder) + 1
  BY <1>3, <1>1, <1>2 DEF InOrder
<1>5. 0 \in T
  <2>1. upto[0] = <<>> /\ 0 \in 0 .. N /\ 0 .. 0 - 1 = {} /\ Len(<<>>) = 0 /\ 1 .. 0 = {}
    BY <1>1, <1>2 DEF InOrder
  <2>2. TilesUpTo(upto, at, 0)
    BY <2>1 DEF TilesUpTo
  <2> QED BY <2>1, <2>2
<1>6. ASSUME NEW n \in 1 .. N, n - 1 \in T PROVE n \in T
  <2>1. TilesUpTo(upto, at, n - 1) /\ n \in 0 .. N
    BY <1>2, <1>6
  <2> HIDE DEF T
  <2>2. TilesUpTo(upto, at, n)
    BY <1>1, <2>1, PositionsStep
  <2> QED BY <2>1, <2>2 DEF T
<1>7. \A n \in 0 .. N : n \in T
  BY <1>2, <1>5, <1>6, Counting
<1>8. \A n \in 0 .. N : TilesUpTo(upto, at, n)
  BY <1>7
<1> HIDE DEF T
<1>9. \A n \in 1 .. N : at[n] = at[n - 1] + IF Begins(n - 1) THEN NumPages(MappingOf(n - 1)) ELSE 0
  <2>1. \A n \in 1 .. N : n \in 0 .. N /\ n > 0
    BY <1>2
  <2> HIDE DEF at
  <2> QED BY <1>8, <2>1 DEF TilesUpTo
<1> HIDE DEF at
<1>10. ASSUME NEW sub \in AllSubs, Begins(sub)
       PROVE  at[NextSubresource(sub)] = at[sub] + NumPages(MappingOf(sub))
  <2> DEFINE next == NextSubresource(sub)
             d == next - sub - 1
             U == {k \in 0 .. d : at[sub + 1 + k] = at[sub + 1]}
  <2>1. /\ next \in 1 .. N /\ next > sub
        /\ \A n \in sub + 1 .. next - 1 : n \in AllSubs /\ ~Begins(n)
    BY <1>10, NextIs
  <2> HIDE DEF next
  <2>2. d \in Nat /\ sub \in Nat /\ sub + 1 + d = next
    BY <1>2, <2>1
  <2> HIDE DEF d
  <2>3. 0 \in U
    BY <2>2
  <2>4. ASSUME NEW k \in 1 .. d, k - 1 \in U PROVE k \in U
    BY <1>2, <2>1, <2>2, <1>9, <2>4, <1>4
  <2>5. \A k \in 0 .. d : k \in U
    BY <2>2, <2>3, <2>4, Counting
  <2>6. at[next] = at[sub + 1]
    BY <2>2, <2>5
  <2>7. sub + 1 \in 1 .. N /\ (sub + 1) - 1 = sub
    BY <1>2
  <2>8. at[sub + 1] = at[sub] + NumPages(MappingOf(sub))
    BY <1>9, <1>10, <2>7
  <2> QED BY <2>6, <2>8 DEF next
<1>11. TilesUpTo(upto, at, N)
  BY <1>2, <1>8
<1>12. TileOrder \in Seq(UsedTiles)
  BY <1>1, <1>2, <1>3
<1>13. \A sub \in AllSubs : Begins(sub) =>
          /\ NextSubresource(sub) \in 0 .. NumSubs
          /\ NextSubresource(sub) # NumSubs => Begins(NextSubresource(sub))
  BY <1>2, NextIs
<1>14. /\ \A sub \in AllSubs : Begins(sub) => \A idx \in 0 .. NumPages(MappingOf(sub)) - 1 :
             at[sub] + idx \in 1 .. Len(TileOrder) /\ TileOrder[at[sub] + idx] = <<MappingOf(sub), idx>>
       /\ \A p \in 1 .. Len(TileOrder) : \E sub \in AllSubs :
             Begins(sub) /\ p - at[sub] \in 0 .. NumPages(MappingOf(sub)) - 1
  BY <1>1, <1>2, <1>11 DEF TilesUpTo
<1>15. TilesAt(TileOrder, at)
  BY <1>4, <1>10, <1>12, <1>13, <1>14 DEF TilesAt
<1> QED BY <1>15

-----------------------------------------------------------------------------
(* On D3D12: pages through the subresources (setImageWrappedRange).        *)

\* An index in a tail is less than the texels of a page: the code leaves it
\* in the coordinate of what follows.
TailsFit == layout.firstMip < layout.mips /\ layout.slices > 1 => TailPages <= layout.texels[1]

\* The coordinate in texels is of the page at idx.
StartsAt(sub, coord, idx) ==
    LET in == <<coord[1] \div layout.texels[1],
                IF isSubresourceInMipTail(sub) THEN 0 ELSE coord[2] \div layout.texels[2]>>
    IN  /\ coord \in Nat \X Nat /\ idx \in Nat
        /\ idx < NumPages(MappingOf(sub)) /\ PageAt(in, calcSubresourcePageDim(sub)) = idx

AtStart(coord) ==
    coord \in Nat \X Nat /\ coord[1] \div layout.texels[1] = 0 /\ coord[2] \div layout.texels[2] = 0

PageNth(page, n, reused) == IF reused THEN page ELSE PagesOn(page, n)

\* The pages idx .. e - 1 of a mapping are bound to the pages from page on.
PartBound(table, after, key, idx, e, page, reused) ==
    /\ IsTable(after)
    /\ \A k \in Subs \cup Tails : k # key => after[k] = table[k]
    /\ \A i \in 0 .. NumPages(key) - 1 :
          SamePage(getPage(after[key], i), IF idx <= i /\ i < e THEN PageNth(page, i - idx, reused)
                                           ELSE getPage(table[key], i))

WrappedLoops == [table : [Subs \cup Tails -> AllMappings], page : PageOf(Heaps), bytes : Nat,
                 sub : Nat, coord : Nat \X Nat]

LEMMA StartIs ==
    ASSUME Known, NEW sub \in AllSubs, NEW coord, AtStart(coord)
    PROVE  StartsAt(sub, coord, 0)
<1>1. sub \in Nat /\ NumPages(MappingOf(sub)) \in Nat \ {0}
  BY MappingIsUsed, NumPagesIs DEF AllSubs
<1>2. calcSubresourcePageDim(sub)[1] \in Nat
  BY <1>1, DimsAre
<1> DEFINE in == <<coord[1] \div layout.texels[1],
                   IF isSubresourceInMipTail(sub) THEN 0 ELSE coord[2] \div layout.texels[2]>>
<1>3. in = <<0, 0>>
  BY DEF AtStart
<1>4. PageAt(in, calcSubresourcePageDim(sub)) = 0
  BY <1>2, <1>3 DEF PageAt
<1> QED BY <1>1, <1>4 DEF StartsAt, AtStart

\* The indexes idx .. e - 1, and which of the range they are.
RangeFrom(idx, e) == [i \in idx .. e - 1 |-> i - idx]

\* A mapping of n pages, of which w are wanted from idx on.
LEMMA PartIs ==
    ASSUME NEW table, IsTable(table), Known, NEW key \in Subs \cup Tails,
           NEW idx \in Nat, NEW e \in Nat, idx <= e, e <= NumPages(key),
           NEW page \in PageOf(Heaps), NEW reused \in BOOLEAN,
           NEW m, \/ m = BindPages(table[key], NumPages(key), RangeFrom(idx, e), page, reused)
                  \/ m = SingleMapping(page, reused) /\ idx = 0 /\ e = NumPages(key)
    PROVE  PartBound(table, [table EXCEPT ![key] = m], key, idx, e, page, reused)
<1> DEFINE n == NumPages(key)
           nth == RangeFrom(idx, e)
           S == idx .. e - 1
<1>1. n \in Nat \ {0} /\ table[key] \in Mapping(Heaps, n) /\ e <= n
  BY NumPagesIs DEF IsTable
<1> HIDE DEF n
<1>2. /\ m \in Mapping(Heaps, n)
      /\ \A i \in 0 .. n - 1 :
           SamePage(getPage(m, i), IF idx <= i /\ i < e THEN PageNth(page, i - idx, reused)
                                   ELSE getPage(table[key], i))
  <2>1. CASE m = SingleMapping(page, reused) /\ idx = 0 /\ e = n
    BY <2>1, SingleIn, <1>1, PageOfSingle DEF PageNth
  <2>2. CASE m = BindPages(table[key], n, nth, page, reused)
    <3>1. S \in SUBSET (0 .. n - 1) /\ nth \in [S -> Nat]
      BY <1>1 DEF RangeFrom
    <3>2. \A i \in S : nth[i] = i - idx
      BY DEF RangeFrom
    <3>3. \A i \in 0 .. n - 1 : i \in S <=> idx <= i /\ i < e
      BY <1>1
    <3> HIDE DEF S, nth
    <3>4. /\ m \in Mapping(Heaps, n)
          /\ \A i \in 0 .. n - 1 :
               SamePage(getPage(m, i), IF i \notin S THEN getPage(table[key], i)
                                       ELSE IF reused THEN page ELSE PagesOn(page, nth[i]))
      BY <1>1, <2>2, <3>1, BindPagesBindsThese
    <3> QED BY <3>2, <3>3, <3>4 DEF PageNth
  <2> QED BY <2>1, <2>2 DEF n
<1>3. /\ IsTable([table EXCEPT ![key] = m]) /\ [table EXCEPT ![key] = m][key] = m
      /\ \A k \in Subs \cup Tails : k # key => [table EXCEPT ![key] = m][k] = table[k]
  BY <1>2, MappingReplaced DEF n
<1> QED BY <1>2, <1>3 DEF PartBound, n

\* One iteration over the pages idx .. e - 1 of the n of a mapping, with w to go.
Passed(st, after, sub, idx, w, e, n, reused, update) ==
    /\ after \in WrappedLoops
    /\ after.bytes = (w - (e - idx)) * PageBytes
    /\ after.page = PageNth(st.page, e - idx, reused)
    /\ ~update => after.table = st.table
    /\ update => PartBound(st.table, after.table, MappingOf(sub), idx, e, st.page, reused)
    /\ idx + w < n => after.sub = sub
    /\ idx + w >= n => after.sub = NextSubresource(sub)
    /\ idx + w >= n /\ NextSubresource(sub) # NumSubs => AtStart(after.coord)
    /\ idx + w >= n /\ st.coord = <<0, 0>> => after.coord = <<0, 0>>

PassedTo(idx, w, n) == IF idx + w <= n THEN idx + w ELSE n
LEMMA SetWrappedIs ==
    ASSUME Known, TailsApart, TailsFit, NEW sub \in AllSubs, Begins(sub),
           NEW st \in WrappedLoops, IsTable(st.table), st.sub = sub, NEW idx, StartsAt(sub, st.coord, idx),
           NEW w \in Nat \ {0}, st.bytes = w * PageBytes,
           NEW reused \in BOOLEAN, NEW update \in BOOLEAN
    PROVE  Passed(st, SetWrapped(st, reused, update), sub, idx, w,
                  PassedTo(idx, w, NumPages(MappingOf(sub))), NumPages(MappingOf(sub)), reused, update)
<1> DEFINE key == MappingOf(sub)
           n == NumPages(key)
           e == IF idx + w <= n THEN idx + w ELSE n
           inTail == isSubresourceInMipTail(sub)
           dim == calcSubresourcePageDim(sub)
           whole == st.coord = <<0, 0>> /\ st.bytes >= n * PageBytes
           in == <<st.coord[1] \div layout.texels[1],
                   IF inTail THEN 0 ELSE st.coord[2] \div layout.texels[2]>>
           first == IF whole THEN 0 ELSE PageAt(in, dim)
           wanted == st.bytes \div PageBytes
           range == [i \in first .. Min({first + wanted, n}) - 1 |-> i - first]
           count == Cardinality(DOMAIN range)
           inside == ~whole /\ count = wanted /\ first + wanted < n
           after == SetWrapped(st, reused, update)
<1>1. /\ key \in Subs \cup Tails /\ n \in Nat \ {0} /\ idx \in Nat /\ idx < n /\ sub \in Nat
      /\ PageAt(in, dim) = idx /\ st.coord \in Nat \X Nat
      /\ dim[1] \in Nat \ {0} /\ dim[2] \in Nat \ {0}
      /\ layout.texels[1] \in Nat \ {0} /\ layout.texels[2] \in Nat \ {0} /\ PageBytes \in Nat \ {0}
  <2>1. sub \in Nat /\ key \in Subs \cup Tails /\ n \in Nat \ {0}
    <3>0. key \in UsedMappings
      BY MappingIsUsed
    <3>1. sub \in Nat
      BY DEF AllSubs
    <3> HIDE DEF key
    <3> QED BY <3>0, <3>1, NumPagesIs
  <2>2. 1 \in 1 .. 2 /\ 2 \in 1 .. 2
    OBVIOUS
  <2>3. dim[1] \in Nat \ {0} /\ dim[2] \in Nat \ {0}
    BY <2>1, <2>2, DimsAre
  <2>4. layout.texels[1] \in Nat \ {0} /\ layout.texels[2] \in Nat \ {0}
    BY <2>2, LayoutIs
  <2>5. idx \in Nat /\ idx < n /\ PageAt(in, dim) = idx /\ st.coord \in Nat \X Nat
    BY DEF StartsAt
  <2> QED BY <2>1, <2>3, <2>4, <2>5, PageBytesAssumption
<1>2. in[1] \in Nat /\ in[2] \in Nat /\ in = <<in[1], in[2]>>
  BY <1>1, Division
<1>3. st.coord = <<0, 0>> => idx = 0 /\ in = <<0, 0>>
  <2>1. ASSUME st.coord = <<0, 0>> PROVE in = <<0, 0>>
    <3>1. 0 \div layout.texels[1] = 0 /\ 0 \div layout.texels[2] = 0
      BY <1>1
    <3> QED BY <2>1, <3>1
  <2>2. in = <<0, 0>> => PageAt(in, dim) = 0
    BY <1>1 DEF PageAt
  <2> HIDE DEF in
  <2> QED BY <1>1, <2>1, <2>2
<1>4. st.bytes >= n * PageBytes <=> w >= n
  <2> HIDE DEF n, key
  <2>1. CASE w >= n
    <3>1. PICK d \in Nat : w = n + d
      <4>1. w - n \in Nat /\ w = n + (w - n)
        BY <1>1, <2>1
      <4> QED BY <4>1
    <3>2. w * PageBytes = n * PageBytes + d * PageBytes /\ d * PageBytes \in Nat /\ n * PageBytes \in Nat
      BY <1>1, <3>1
    <3> QED BY <2>1, <3>2
  <2>2. CASE w < n
    <3>1. PICK d \in Nat : n = w + 1 + d
      BY <1>1, <2>2
    <3>2. n * PageBytes = w * PageBytes + PageBytes + d * PageBytes /\ d * PageBytes \in Nat
          /\ w * PageBytes \in Nat
      BY <1>1, <3>1
    <3> QED BY <1>1, <2>2, <3>2
  <2> QED BY <1>1, <2>1, <2>2
<1>5. wanted = w
  BY <1>1, DivisionIs
<1>6. first = idx
  BY <1>1, <1>3
<1> DEFINE c == e - idx
<1>7. /\ e \in Nat /\ idx < e /\ e <= n /\ c \in Nat \ {0} /\ c <= w
      /\ idx + w < n => c = w
      /\ idx + w >= n => e = n
      /\ whole => idx = 0 /\ e = n /\ idx + w >= n
  <2>1. whole => idx = 0 /\ w >= n
    BY <1>3, <1>4
  <2> HIDE DEF n, whole, key
  <2> QED BY <1>1, <2>1
<1>8. range = [i \in idx .. e - 1 |-> i - idx] /\ count = c
  <2>1. Min({idx + w, n}) = e
    BY <1>1, LeastOfTwo
  <2>2. range = [i \in idx .. e - 1 |-> i - idx]
    BY <1>5, <1>6, <2>1
  <2> HIDE DEF e, range
  <2>3. DOMAIN range = idx .. e - 1
    BY <2>2
  <2>4. Cardinality(idx .. e - 1) = (e - 1) - idx + 1
    BY <1>1, <1>7, CountOf
  <2>5. (e - 1) - idx + 1 = e - idx
    BY <1>1, <1>7
  <2> QED BY <2>2, <2>3, <2>4, <2>5
<1>9. inside <=> idx + w < n
  <2>1. inside <=> (~whole /\ c = w /\ idx + w < n)
    BY <1>5, <1>6, <1>8
  <2> HIDE DEF inside, whole, e, c, n
  <2> QED BY <1>1, <1>7, <2>1
<1> DEFINE m == IF whole THEN SingleMapping(st.page, reused)
                ELSE BindPages(st.table[key], n, range, st.page, reused)
           table == IF ~update THEN st.table ELSE [st.table EXCEPT ![key] = m]
           coord == CASE inside /\ inTail  -> <<in[1] + wanted * layout.texels[1], 0>>
                      [] inside /\ ~inTail -> <<(in[1] + wanted) % dim[1],
                                                (in[2] + wanted \div dim[1]) % dim[2]>>
                      [] OTHER -> IF ~inTail THEN <<0, 0>> ELSE IF whole THEN st.coord ELSE in
           page == IF reused THEN st.page ELSE PagesOn(st.page, count)
           next == IF inside THEN sub ELSE NextSubresource(sub)
<1>10. after = [table |-> table, page |-> page, bytes |-> st.bytes - count * PageBytes,
                sub |-> next, coord |-> coord]
  BY DEF SetWrapped
<1> HIDE DEF after
<1>11. st.page \in PageOf(Heaps) /\ PageNth(st.page, c, reused) \in PageOf(Heaps) /\ page = PageNth(st.page, c, reused)
  <2>1. st.page \in PageOf(Heaps)
    BY DEF WrappedLoops
  <2>2. PagesOn(st.page, c) \in PageOf(Heaps)
    BY <1>7, <2>1, PagesOnType
  <2> QED BY <1>8, <2>1, <2>2 DEF PageNth
<1>12. st.bytes - count * PageBytes = (w - c) * PageBytes /\ (w - c) * PageBytes \in Nat
  <2> HIDE DEF c, count
  <2>1. PICK d \in Nat : w = c + d
    <3>1. w - c \in Nat /\ w = c + (w - c)
      BY <1>7
    <3> QED BY <3>1
  <2>2. w * PageBytes = c * PageBytes + d * PageBytes /\ d * PageBytes \in Nat /\ c * PageBytes \in Nat
    BY <1>1, <1>7, <2>1
  <2>3. w - c = d
    BY <1>7, <2>1
  <2>4. w * PageBytes - c * PageBytes = d * PageBytes
    BY <2>2
  <2>5. st.bytes - count * PageBytes = w * PageBytes - c * PageBytes
    BY <1>8
  <2> QED BY <2>2, <2>3, <2>4, <2>5
<1>13. update => PartBound(st.table, table, key, idx, e, st.page, reused)
  <2>1. ASSUME update PROVE table = [st.table EXCEPT ![key] = m]
    BY <2>1
  <2>2. \/ m = BindPages(st.table[key], n, RangeFrom(idx, e), st.page, reused)
        \/ m = SingleMapping(st.page, reused) /\ idx = 0 /\ e = n
    <3>1. range = RangeFrom(idx, e)
      BY <1>8 DEF RangeFrom
    <3> HIDE DEF range, e
    <3> QED BY <1>7, <3>1
  <2> HIDE DEF m, table, e, n, key, range
  <2>3. PartBound(st.table, [st.table EXCEPT ![key] = m], key, idx, e, st.page, reused)
    <3> DEFINE before == st.table
    <3>1. IsTable(before) /\ e \in Nat /\ idx <= e /\ e <= NumPages(key)
      BY <1>1, <1>7 DEF n
    <3>2. \/ m = BindPages(before[key], NumPages(key), RangeFrom(idx, e), st.page, reused)
          \/ m = SingleMapping(st.page, reused) /\ idx = 0 /\ e = NumPages(key)
      BY <2>2 DEF n
    <3> HIDE DEF before
    <3> DEFINE from == st.page
    <3>4. from \in PageOf(Heaps) /\ key \in Subs \cup Tails /\ idx \in Nat
      BY <1>1, <1>11
    <3> HIDE DEF from
    <3>5. \/ m = BindPages(before[key], NumPages(key), RangeFrom(idx, e), from, reused)
          \/ m = SingleMapping(from, reused) /\ idx = 0 /\ e = NumPages(key)
      BY <3>2 DEF from
    <3>6. PartBound(before, [before EXCEPT ![key] = m], key, idx, e, from, reused)
      BY <3>1, <3>4, <3>5, PartIs, ZenonT(150)
    <3>3. PartBound(before, [before EXCEPT ![key] = m], key, idx, e, st.page, reused)
      BY <3>6 DEF from
    <3> QED BY <3>3 DEF before
  <2> QED BY <2>1, <2>3
<1>14. table \in [Subs \cup Tails -> AllMappings]
  <2>1. IsTable(table)
    <3>1. CASE ~update
      BY <3>1
    <3>2. CASE update
      BY <1>13, <3>2 DEF PartBound
    <3> QED BY <3>1, <3>2
  <2> HIDE DEF table
  <2> QED BY <2>1, TableType
<1>15. coord \in Nat \X Nat
  <2>1. CASE inside /\ inTail
    <3>1. w * layout.texels[1] \in Nat
      BY <1>1
    <3>2. coord = <<in[1] + w * layout.texels[1], 0>>
      BY <1>5, <2>1
    <3> HIDE DEF in, coord
    <3> QED BY <1>2, <3>1, <3>2
  <2>2. CASE inside /\ ~inTail
    <3> DEFINE x == in[1]
               y == in[2]
               a == dim[1]
               b == dim[2]
    <3>1. x \in Nat /\ y \in Nat /\ a \in Nat \ {0} /\ b \in Nat \ {0}
      BY <1>1, <1>2
    <3>2. coord = <<(x + w) % a, (y + (w \div a)) % b>>
      BY <1>5, <2>2
    <3> HIDE DEF x, y, a, b, coord
    <3>3. (x + w) % a \in Nat
      BY <3>1, Division
    <3>4. (y + (w \div a)) % b \in Nat
      BY <3>1, Division
    <3> QED BY <3>2, <3>3, <3>4
  <2>3. CASE ~inside
    <3>1. coord = IF ~inTail THEN <<0, 0>> ELSE IF whole THEN st.coord ELSE in
      BY <2>3
    <3>2. in \in Nat \X Nat
      BY <1>2
    <3> HIDE DEF in, coord, whole, inTail
    <3> QED BY <1>1, <3>1, <3>2
  <2> QED BY <2>1, <2>2, <2>3
<1>16. next \in Nat
  BY NextIs, <1>1
<1>17. ~inside => coord = IF ~inTail THEN <<0, 0>> ELSE IF whole THEN st.coord ELSE in
  OBVIOUS
<1>18. ASSUME ~inside, NextSubresource(sub) # NumSubs PROVE AtStart(coord)
  <2> DEFINE a == layout.texels[1]
             b == layout.texels[2]
  <2>1. a \in Nat \ {0} /\ b \in Nat \ {0}
    BY <1>1
  <2> HIDE DEF a, b
  <2>2. 0 \div a = 0 /\ 0 \div b = 0
    BY <2>1
  <2>3. AtStart(<<0, 0>>)
    BY <2>2 DEF AtStart, a, b
  <2>4. ASSUME inTail PROVE AtStart(in)
    <3>1. in = <<in[1], 0>> /\ in[1] \in Nat
      BY <1>2, <2>4
    <3> HIDE DEF in
    <3>2. idx = in[1]
      BY <3>1, <1>1 DEF PageAt
    <3>3. layout.slices > 1 /\ layout.firstMip < layout.mips
      <4> DEFINE s == sub \div layout.mips
                 mips == layout.mips
      <4>1. /\ s \in 0 .. layout.slices - 1 /\ layout.slices \in Nat \ {0} /\ mips \in Nat \ {0}
            /\ sub % mips \in 0 .. mips - 1 /\ layout.firstMip \in 0 .. mips
        BY SubIs, LayoutIs
      <4>2. NextSubresource(sub) = (s + 1) * mips
        BY <2>4 DEF NextSubresource
      <4>3. sub % mips >= layout.firstMip
        BY <2>4 DEF isSubresourceInMipTail
      <4>4. layout.firstMip < mips
        BY <4>1, <4>3
      <4>5. ASSUME layout.slices = 1 PROVE FALSE
        <5>1. s = 0
          BY <4>1, <4>5
        <5>2. (0 + 1) * mips = mips
          BY <4>1
        <5>3. NumSubs = mips
          <6>1. layout.subs # 0 => layout.subs = layout.slices * layout.mips
            BY LayoutIs
          <6>2. layout.subs = 0 => layout.mips = 1
            BY LayoutIs
          <6>3. layout.subs \in Nat
            BY LayoutIs
          <6>4. NumSubs = IF 1 >= layout.subs THEN 1 ELSE layout.subs
            BY <6>3, GreatestOfTwo DEF NumSubs
          <6>5. layout.slices * layout.mips = layout.mips
            BY <4>1, <4>5
          <6> QED BY <4>1, <6>1, <6>2, <6>3, <6>4, <6>5
        <5> QED BY <1>18, <4>2, <5>1, <5>2, <5>3
      <4> QED BY <4>1, <4>4, <4>5
    <3>4. key \in Tails /\ n = TailPages
      BY <2>4, <1>1, NumPagesIs DEF MappingOf, Subs
    <3>5. idx < a
      BY <3>3, <1>1, <2>1, <3>4 DEF TailsFit, a
    <3>6. idx \div a = 0
      BY <1>1, <2>1, <3>5, DivisionIs
    <3>7. in \in Nat \X Nat /\ in[1] = idx /\ in[2] = 0
      BY <1>2, <3>1, <3>2
    <3> QED BY <2>2, <3>6, <3>7 DEF AtStart, a, b
  <2>5. whole => st.coord = <<0, 0>>
    OBVIOUS
  <2> HIDE DEF in, coord, whole, inTail, inside
  <2> QED BY <1>17, <1>18, <2>3, <2>4, <2>5
<1>19. ~inside /\ st.coord = <<0, 0>> => coord = <<0, 0>>
  BY <1>3, <1>17
<1> HIDE DEF table, page, coord, next, count, c, e, n, key, inside
<1>20. after \in WrappedLoops
  BY <1>10, <1>11, <1>12, <1>14, <1>15, <1>16 DEF WrappedLoops
<1>21. /\ after.bytes = (w - c) * PageBytes /\ after.page = PageNth(st.page, c, reused)
       /\ after.table = table /\ after.sub = next /\ after.coord = coord
  BY <1>10, <1>11, <1>12
<1>22. ~update => table = st.table
  BY DEF table
<1>23. next = IF idx + w < n THEN sub ELSE NextSubresource(sub)
  BY <1>9 DEF next
<1>24. Passed(st, after, sub, idx, w, e, n, reused, update)
  <2>1. /\ idx + w < n => after.sub = sub
        /\ idx + w >= n => after.sub = NextSubresource(sub)
    BY <1>1, <1>21, <1>23
  <2>2. idx + w >= n => ~inside
    BY <1>1, <1>9
  <2>3. idx + w >= n /\ NextSubresource(sub) # NumSubs => AtStart(after.coord)
    BY <1>18, <1>21, <2>2
  <2>4. idx + w >= n /\ st.coord = <<0, 0>> => after.coord = <<0, 0>>
    BY <1>19, <1>21, <2>2
  <2> QED BY <1>13, <1>20, <1>21, <1>22, <2>1, <2>3, <2>4 DEF c, key, Passed
<1> QED BY <1>24 DEF e, n, key, after, PassedTo

\* The tiles p .. p + n - 1 are bound to the pages from page on, and no other.
TilesBound(table, after, seq, p, n, page, reused) ==
    /\ IsTable(after)
    /\ \A q \in 1 .. Len(seq) :
          SamePage(getPage(after[seq[q][1]], seq[q][2]),
                   IF p <= q /\ q < p + n THEN PageNth(page, q - p, reused)
                   ELSE getPage(table[seq[q][1]], seq[q][2]))

LEMMA PageNthType ==
    ASSUME NEW page \in PageOf(Heaps), NEW n \in Nat, NEW reused \in BOOLEAN
    PROVE  /\ PageNth(page, n, reused) \in PageOf(Heaps)
           /\ \A k \in Nat : PageNth(PageNth(page, n, reused), k, reused) = PageNth(page, n + k, reused)
           /\ PageNth(page, 0, reused) = page
<1>1. /\ PagesOn(page, n) \in PageOf(Heaps) /\ PagesOn(page, n).memory = page.memory
  BY PagesOnType
<1>2. page.offset \in Nat /\ PageBytes \in Nat
  BY PageBytesAssumption DEF PageOf
<1>3. PagesOn(page, 0) = page
  BY <1>2 DEF PagesOn, PageOf
<1>4. ASSUME NEW k \in Nat PROVE PagesOn(PagesOn(page, n), k) = PagesOn(page, n + k)
  <2>0. CASE page.memory = NoHeap
    BY <2>0 DEF PagesOn
  <2> DEFINE a == n * PageBytes
             b == k * PageBytes
  <2>1. (n + k) * PageBytes = a + b /\ a \in Nat /\ b \in Nat
    BY <1>2
  <2>5. CASE page.memory # NoHeap
    <3>1. PagesOn(page, n) = [page EXCEPT !.offset = @ + a] /\ PagesOn(page, n + k) = [page EXCEPT !.offset = @ + (a + b)]
      BY <2>1, <2>5 DEF PagesOn
    <3>2. PagesOn(PagesOn(page, n), k) = [PagesOn(page, n) EXCEPT !.offset = @ + b]
      BY <1>1, <2>5 DEF PagesOn
    <3> HIDE DEF a, b
    <3>3. (page.offset + a) + b = page.offset + (a + b)
      BY <1>2, <2>1
    <3> QED BY <3>1, <3>2, <3>3 DEF PageOf
  <2> QED BY <2>0, <2>5
<1> QED BY <1>1, <1>3, <1>4 DEF PageNth

LEMMA NoTilesBound ==
    ASSUME NEW table, IsTable(table), NEW seq, NEW p \in Nat, Len(seq) \in Nat, NEW page, NEW reused
    PROVE  TilesBound(table, table, seq, p, 0, page, reused)
BY DEF TilesBound, SamePage

LEMMA MoreTilesBound ==
    ASSUME NEW t0, NEW t1, NEW t2, NEW seq, Len(seq) \in Nat, NEW p \in Nat, NEW n \in Nat, NEW k \in Nat,
           NEW page \in PageOf(Heaps), NEW reused \in BOOLEAN,
           TilesBound(t0, t1, seq, p, n, page, reused),
           TilesBound(t1, t2, seq, p + n, k, PageNth(page, n, reused), reused)
    PROVE  TilesBound(t0, t2, seq, p, n + k, page, reused)
<1>1. ASSUME NEW q \in 1 .. Len(seq)
      PROVE  SamePage(getPage(t2[seq[q][1]], seq[q][2]),
                   IF p <= q /\ q < p + (n + k) THEN PageNth(page, q - p, reused)
                   ELSE getPage(t0[seq[q][1]], seq[q][2]))
  <2> DEFINE a == getPage(t0[seq[q][1]], seq[q][2])
             b == getPage(t1[seq[q][1]], seq[q][2])
             c == getPage(t2[seq[q][1]], seq[q][2])
  <2>1. /\ SamePage(b, IF p <= q /\ q < p + n THEN PageNth(page, q - p, reused) ELSE a)
        /\ SamePage(c, IF p + n <= q /\ q < (p + n) + k
                       THEN PageNth(PageNth(page, n, reused), q - (p + n), reused) ELSE b)
    BY DEF TilesBound
  <2> HIDE DEF a, b, c
  <2>2. CASE p + n <= q /\ q < (p + n) + k
    <3>1. q - (p + n) \in Nat /\ n + (q - (p + n)) = q - p /\ p <= q /\ q < p + (n + k)
      BY <2>2
    <3>2. PageNth(PageNth(page, n, reused), q - (p + n), reused) = PageNth(page, q - p, reused)
      BY <3>1, PageNthType
    <3> QED BY <2>1, <2>2, <3>1, <3>2 DEF c, a
  <2>3. CASE ~(p + n <= q /\ q < (p + n) + k)
    BY <2>3, <2>1 DEF SamePage, c, a
  <2> QED BY <2>2, <2>3
<1> QED BY <1>1 DEF TilesBound

\* Where each tile is.
LEMMA TileIs ==
    ASSUME Known, TailsApart, NEW seq, NEW at, TilesAt(seq, at), NEW q \in 1 .. Len(seq)
    PROVE  \E sub \in AllSubs : /\ Begins(sub) /\ q - at[sub] \in 0 .. NumPages(MappingOf(sub)) - 1
                                /\ seq[q] = <<MappingOf(sub), q - at[sub]>>
<1>1. PICK sub \in AllSubs : Begins(sub) /\ q - at[sub] \in 0 .. NumPages(MappingOf(sub)) - 1
  BY DEF TilesAt
<1>2. at[sub] \in Nat
  <2>1. sub \in 0 .. NumSubs
    BY AllSubsAre DEF AllSubs, NumSubs
  <2> QED BY <2>1 DEF TilesAt
<1> DEFINE idx == q - at[sub]
<1>3. at[sub] + idx = q
  BY <1>2
<1>4. seq[at[sub] + idx] = <<MappingOf(sub), idx>>
  BY <1>1 DEF idx, TilesAt
<1> QED BY <1>1, <1>3, <1>4

\* Two that begin at one place are one.
LEMMA BeginOnce ==
    ASSUME Known, TailsApart, NEW seq, NEW at, TilesAt(seq, at),
           NEW k \in AllSubs, NEW l \in AllSubs, Begins(k), Begins(l),
           NEW i \in 0 .. NumPages(MappingOf(k)) - 1, NEW j \in 0 .. NumPages(MappingOf(l)) - 1,
           at[k] + i = at[l] + j
    PROVE  k = l /\ i = j
<1>1. seq[at[k] + i] = <<MappingOf(k), i>> /\ seq[at[l] + j] = <<MappingOf(l), j>>
  BY DEF TilesAt
<1>2. MappingOf(k) = MappingOf(l) /\ i = j
  BY <1>1
<1> QED BY <1>2, BeginsIs

\* The pages of a part of a mapping are tiles one after the other.
LEMMA PartOfTiles ==
    ASSUME Known, TailsApart, NEW seq, NEW at, TilesAt(seq, at), NEW sub \in AllSubs, Begins(sub),
           NEW idx \in Nat, NEW e \in Nat, idx < e, e <= NumPages(MappingOf(sub)),
           NEW table, NEW after, NEW page, NEW reused,
           PartBound(table, after, MappingOf(sub), idx, e, page, reused)
    PROVE  TilesBound(table, after, seq, at[sub] + idx, e - idx, page, reused)
<1> DEFINE key == MappingOf(sub)
           p == at[sub] + idx
<1>1. key \in Subs \cup Tails /\ NumPages(key) \in Nat
  BY MappingIsUsed, NumPagesIs
<1>2. \A s \in AllSubs : at[s] \in Nat
  <2>1. \A s \in AllSubs : s \in 0 .. NumSubs
    BY AllSubsAre DEF AllSubs, NumSubs
  <2> QED BY <2>1 DEF TilesAt
<1>3. ASSUME NEW q \in 1 .. Len(seq)
      PROVE  SamePage(getPage(after[seq[q][1]], seq[q][2]),
                   IF p <= q /\ q < p + (e - idx) THEN PageNth(page, q - p, reused)
                   ELSE getPage(table[seq[q][1]], seq[q][2]))
  <2>1. PICK s \in AllSubs : /\ Begins(s) /\ q - at[s] \in 0 .. NumPages(MappingOf(s)) - 1
                             /\ seq[q] = <<MappingOf(s), q - at[s]>>
    BY TileIs
  <2> DEFINE i == q - at[s]
             k == MappingOf(s)
  <2>2. seq[q][1] = k /\ seq[q][2] = i /\ i \in 0 .. NumPages(k) - 1 /\ q = at[s] + i
    BY <1>2, <2>1
  <2>3. q \in Nat /\ at[s] \in Nat /\ at[sub] \in Nat /\ k \in Subs \cup Tails
    BY MappingIsUsed, NumPagesIs, <1>2 DEF TilesAt
  <2>4. CASE s = sub
    <3>1. p <= q /\ q < p + (e - idx) <=> idx <= i /\ i < e
      BY <2>3, <2>4
    <3>2. q - p = i - idx
      BY <2>3, <2>4
    <3>3. SamePage(getPage(after[k], i), IF idx <= i /\ i < e THEN PageNth(page, i - idx, reused)
                                           ELSE getPage(table[k], i))
      BY <2>2, <2>4 DEF PartBound
    <3> HIDE DEF i, k, p
    <3> QED BY <2>2, <3>1, <3>2, <3>3
  <2>5. CASE s # sub
    <3>1. k # key
      BY <2>1, <2>5, BeginsIs
    <3>2. after[k] = table[k]
      BY <2>3, <3>1 DEF PartBound
    <3>3. ~(p <= q /\ q < p + (e - idx))
      <4>1. SUFFICES ASSUME p <= q, q < p + (e - idx) PROVE FALSE
        OBVIOUS
      <4> DEFINE j == q - at[sub]
      <4>2. j \in 0 .. NumPages(key) - 1 /\ q = at[sub] + j
        BY <1>1, <2>3, <4>1
      <4> HIDE DEF i, j, k, key
      <4>3. at[s] + i = at[sub] + j
        BY <2>2, <4>2
      <4> QED BY <2>1, <2>2, <2>5, <4>2, <4>3, BeginOnce DEF k, key
    <3> QED BY <2>2, <3>2, <3>3 DEF SamePage
  <2> QED BY <2>4, <2>5
<1> QED BY <1>3 DEF TilesBound, PartBound

\* A range of W pages from page on, from the p-th tile: not past the end,
\* unless the loop stops there.
WrappedCall(table, seq, at, p, W, page, reused, update) ==
    /\ Known /\ TailsApart /\ TailsFit /\ TilesAt(seq, at)
    /\ IsTable(table) /\ page \in PageOf(Heaps) /\ reused \in BOOLEAN /\ update \in BOOLEAN
    /\ p \in Nat \ {0} /\ W \in Nat \ {0}
    /\ layout.firstMip > 0 \/ p + W <= Len(seq) + 1

\* At the first page of s, where that is the next tile.
Ends(seq, at, p, W, sub, coord) ==
    \A s \in 0 .. NumSubs : (Begins(s) \/ s = NumSubs) /\ at[s] = p + W
        => sub = s /\ (s # NumSubs => AtStart(coord))

\* The loop with d of the pages bound.
WrappedRight(table, seq, at, p, W, page, reused, update, st, d) ==
    /\ st \in WrappedLoops /\ IsTable(st.table) /\ d \in 0 .. W
    /\ st.bytes = (W - d) * PageBytes /\ st.page = PageNth(page, d, reused)
    /\ update => TilesBound(table, st.table, seq, p, d, page, reused)
    /\ ~update => st.table = table
    /\ p + d <= Len(seq) + 1
    /\ d < W => \/ st.sub \in AllSubs /\ Begins(st.sub) /\ StartsAt(st.sub, st.coord, (p + d) - at[st.sub])
                \/ st.sub = NumSubs /\ p + d = Len(seq) + 1
    /\ d = W => Ends(seq, at, p, W, st.sub, st.coord)

LEMMA PlacesIn ==
    ASSUME Known, TailsApart, NEW seq, NEW at, TilesAt(seq, at)
    PROVE  /\ Len(seq) \in Nat /\ NumSubs \in Nat \ {0} /\ AllSubs = 0 .. NumSubs - 1
           /\ \A s \in 0 .. NumSubs : at[s] \in Nat \ {0}
           /\ at[NumSubs] = Len(seq) + 1
           /\ \A s \in AllSubs : Begins(s) =>
                 /\ s \in Nat /\ NumPages(MappingOf(s)) \in Nat \ {0}
                 /\ NextSubresource(s) \in 1 .. NumSubs
                 /\ NextSubresource(s) # NumSubs =>
                       NextSubresource(s) \in AllSubs /\ Begins(NextSubresource(s))
                 /\ at[NextSubresource(s)] = at[s] + NumPages(MappingOf(s))
                 /\ at[s] + NumPages(MappingOf(s)) <= Len(seq) + 1
           /\ \A s \in 0 .. NumSubs : Begins(s) => s \in AllSubs
<1>1. Len(seq) \in Nat /\ NumSubs \in Nat \ {0} /\ AllSubs = 0 .. NumSubs - 1
  BY AllSubsAre DEF TilesAt, AllSubs, NumSubs
<1>2. /\ \A s \in 0 .. NumSubs : at[s] \in Nat \ {0}
      /\ at[NumSubs] = Len(seq) + 1
  BY DEF TilesAt
<1>3. ASSUME NEW s \in AllSubs, Begins(s)
      PROVE  /\ s \in Nat /\ NumPages(MappingOf(s)) \in Nat \ {0}
             /\ NextSubresource(s) \in 1 .. NumSubs
             /\ NextSubresource(s) # NumSubs =>
                   NextSubresource(s) \in AllSubs /\ Begins(NextSubresource(s))
             /\ at[NextSubresource(s)] = at[s] + NumPages(MappingOf(s))
             /\ at[s] + NumPages(MappingOf(s)) <= Len(seq) + 1
  <2>1. s \in Nat /\ NumPages(MappingOf(s)) \in Nat \ {0}
    BY <1>1, MappingIsUsed, NumPagesIs
  <2>2. NextSubresource(s) \in 1 .. NumSubs /\ (NextSubresource(s) # NumSubs => Begins(NextSubresource(s)))
    BY <1>3, NextIs
  <2>3. NextSubresource(s) # NumSubs => NextSubresource(s) \in AllSubs
    BY <2>2 DEF Begins
  <2>4. at[NextSubresource(s)] = at[s] + NumPages(MappingOf(s))
    BY <1>3 DEF TilesAt
  <2>5. at[s] + NumPages(MappingOf(s)) <= Len(seq) + 1
    <3> DEFINE n == NumPages(MappingOf(s))
               i == n - 1
    <3>1. n \in Nat \ {0} /\ i \in 0 .. n - 1 /\ at[s] \in Nat
      BY <1>1, <1>2, <2>1
    <3> HIDE DEF i
    <3>2. at[s] + i \in 1 .. Len(seq)
      BY <1>3, <3>1 DEF TilesAt
    <3>3. i = n - 1
      BY DEF i
    <3> HIDE DEF n
    <3> QED BY <1>1, <3>1, <3>2, <3>3 DEF n
  <2> QED BY <2>1, <2>2, <2>3, <2>4, <2>5
<1>4. \A s \in 0 .. NumSubs : Begins(s) => s \in AllSubs
  BY DEF Begins
<1> QED BY <1>1, <1>2, <1>3, <1>4

LEMMA WrappedOn ==
    ASSUME NEW table, NEW seq, NEW at, NEW p, NEW W, NEW page, NEW reused, NEW update,
           WrappedCall(table, seq, at, p, W, page, reused, update),
           NEW st, NEW d, WrappedRight(table, seq, at, p, W, page, reused, update, st, d),
           d < W, st.sub \in AllSubs, Begins(st.sub), StartsAt(st.sub, st.coord, (p + d) - at[st.sub])
    PROVE  \E k \in Nat : k > d /\ WrappedRight(table, seq, at, p, W, page, reused, update,
                                                SetWrapped(st, reused, update), k)
<1> DEFINE sub == st.sub
           key == MappingOf(sub)
           idx == (p + d) - at[sub]
           w == W - d
           n == NumPages(key)
           e == PassedTo(idx, w, n)
           after == SetWrapped(st, reused, update)
           next == NextSubresource(sub)
           c == e - idx
<1>1. /\ Known /\ TailsApart /\ TailsFit /\ TilesAt(seq, at) /\ IsTable(table)
      /\ page \in PageOf(Heaps) /\ reused \in BOOLEAN /\ update \in BOOLEAN
      /\ p \in Nat \ {0} /\ W \in Nat \ {0}
  BY DEF WrappedCall
<1>2. /\ st \in WrappedLoops /\ IsTable(st.table) /\ d \in 0 .. W
      /\ st.bytes = (W - d) * PageBytes /\ st.page = PageNth(page, d, reused)
      /\ update => TilesBound(table, st.table, seq, p, d, page, reused)
      /\ ~update => st.table = table
      /\ p + d <= Len(seq) + 1
  BY DEF WrappedRight
<1>3. /\ Len(seq) \in Nat /\ NumSubs \in Nat \ {0}
      /\ at[sub] \in Nat \ {0} /\ n \in Nat \ {0} /\ next \in 1 .. NumSubs /\ sub \in 0 .. NumSubs
      /\ next # NumSubs => next \in AllSubs /\ Begins(next)
      /\ at[next] = at[sub] + n /\ at[sub] + n <= Len(seq) + 1 /\ at[NumSubs] = Len(seq) + 1
  BY <1>1, PlacesIn
<1>4. w \in Nat \ {0} /\ d \in Nat
  BY <1>1, <1>2
<1>5. idx \in Nat /\ idx < n
  BY DEF StartsAt
<1>6. /\ after \in WrappedLoops
      /\ after.bytes = (w - (e - idx)) * PageBytes
      /\ after.page = PageNth(st.page, e - idx, reused)
      /\ ~update => after.table = st.table
      /\ update => PartBound(st.table, after.table, key, idx, e, st.page, reused)
      /\ idx + w < n => after.sub = sub
      /\ idx + w >= n => after.sub = next
      /\ idx + w >= n /\ next # NumSubs => AtStart(after.coord)
  <2> DEFINE s1 == sub
             i1 == idx
             w1 == w
  <2>1. /\ s1 \in AllSubs /\ Begins(s1) /\ st.sub = s1 /\ StartsAt(s1, st.coord, i1)
        /\ w1 \in Nat \ {0} /\ st.bytes = w1 * PageBytes
    BY <1>2, <1>4
  <2>2. i1 = idx /\ w1 = w /\ s1 = sub
    OBVIOUS
  <2> HIDE DEF s1, i1, w1
  <2>3. Passed(st, SetWrapped(st, reused, update), s1, i1, w1,
               PassedTo(i1, w1, NumPages(MappingOf(s1))), NumPages(MappingOf(s1)), reused, update)
    BY <1>1, <1>2, <2>1, SetWrappedIs
  <2>4. Passed(st, after, sub, idx, w, e, n, reused, update)
    BY <2>2, <2>3
  <2> HIDE DEF after, e, n, idx, w
  <2> QED BY <2>4 DEF Passed
<1>7. /\ e \in Nat /\ idx < e /\ e <= n /\ c \in Nat \ {0} /\ c <= w
      /\ idx + w < n => c = w
      /\ idx + w >= n => e = n
      /\ c < w => e = n /\ idx + w > n
  <2> HIDE DEF n, idx, w
  <2> QED BY <1>3, <1>4, <1>5 DEF PassedTo
<1>8. p + d = at[sub] + idx /\ d + c \in Nat /\ d + c > d /\ d + c \in 0 .. W /\ w - c = W - (d + c)
      /\ p + (d + c) = at[sub] + e
  <2>1. p + d = at[sub] + idx
    BY <1>1, <1>3, <1>4
  <2>2. d + w = W
    BY <1>1, <1>4
  <2> HIDE DEF idx, w, e, n
  <2>3. c \in Nat \ {0} /\ c <= w /\ w \in Nat /\ e = idx + c /\ idx \in Nat
    BY <1>4, <1>5, <1>7
  <2> HIDE DEF c
  <2>4. d \in Nat /\ W \in Nat /\ at[sub] \in Nat /\ p \in Nat
    BY <1>1, <1>3, <1>4
  <2> DEFINE x == at[sub]
  <2>5. x \in Nat /\ p + d = x + idx
    BY <2>1, <2>4
  <2> HIDE DEF x
  <2>6. d + c \in Nat /\ d + c > d /\ d + c \in 0 .. W /\ w - c = W - (d + c)
    BY <2>2, <2>3, <2>4
  <2>7. p + (d + c) = x + e
    BY <2>3, <2>4, <2>5
  <2> QED BY <2>5, <2>6, <2>7 DEF x
<1>9. after.page = PageNth(page, d + c, reused)
  <2>1. PageNth(PageNth(page, d, reused), c, reused) = PageNth(page, d + c, reused)
    BY <1>1, <1>4, <1>7, PageNthType
  <2> QED BY <1>2, <1>6, <2>1
<1>10. update => IsTable(after.table) /\ TilesBound(table, after.table, seq, p, d + c, page, reused)
  <2> SUFFICES ASSUME update
               PROVE  IsTable(after.table) /\ TilesBound(table, after.table, seq, p, d + c, page, reused)
    OBVIOUS
  <2> HIDE DEF after, e, idx, w, n
  <2>1. PartBound(st.table, after.table, key, idx, e, st.page, reused)
    BY <1>6
  <2> DEFINE t1 == st.table
             t2 == after.table
             from == st.page
  <2>2. PartBound(t1, t2, MappingOf(sub), idx, e, from, reused) /\ sub \in AllSubs /\ Begins(sub)
        /\ e <= NumPages(MappingOf(sub))
    BY <1>7, <2>1 DEF n
  <2> HIDE DEF t1, t2, from, sub, key
  <2>3. TilesBound(t1, t2, seq, at[sub] + idx, e - idx, from, reused)
    BY <1>1, <1>5, <1>7, <2>2, PartOfTiles
  <2>4. TilesBound(table, t1, seq, p, d, page, reused) /\ from = PageNth(page, d, reused)
    BY <1>2 DEF t1, from
  <2>5. TilesBound(t1, t2, seq, p + d, c, PageNth(page, d, reused), reused)
    BY <1>8, <2>3, <2>4 DEF c
  <2> HIDE DEF c
  <2>6. TilesBound(table, t2, seq, p, d + c, page, reused)
    <3>1. p \in Nat /\ c \in Nat /\ d \in Nat /\ Len(seq) \in Nat
      BY <1>1, <1>3, <1>4, <1>7
    <3>2. page \in PageOf(Heaps) /\ reused \in BOOLEAN
      BY <1>1
    <3>3. TilesBound(table, t1, seq, p, d, page, reused)
      BY <2>4
    <3> QED BY <2>5, <3>1, <3>2, <3>3, MoreTilesBound
  <2>7. IsTable(t2)
    BY <2>6 DEF TilesBound
  <2> QED BY <2>6, <2>7 DEF t2
<1>11. p + (d + c) <= Len(seq) + 1
  BY <1>3, <1>7, <1>8
<1>12. d + c < W => \/ /\ after.sub \in AllSubs /\ Begins(after.sub)
                       /\ StartsAt(after.sub, after.coord, (p + (d + c)) - at[after.sub])
                    \/ after.sub = NumSubs /\ p + (d + c) = Len(seq) + 1
  <2> HIDE DEF after, e, n, idx, w, c, next
  <2> SUFFICES ASSUME d + c < W
               PROVE  \/ /\ after.sub \in AllSubs /\ Begins(after.sub)
                         /\ StartsAt(after.sub, after.coord, (p + (d + c)) - at[after.sub])
                      \/ after.sub = NumSubs /\ p + (d + c) = Len(seq) + 1
    OBVIOUS
  <2>1. c < w
    BY <1>1, <1>4, <1>7 DEF w
  <2>2. e = n /\ idx + w >= n /\ after.sub = next
    BY <1>3, <1>4, <1>5, <1>6, <1>7, <2>1
  <2>3. p + (d + c) = at[next]
    BY <1>3, <1>8, <2>2
  <2>4. CASE next = NumSubs
    BY <1>3, <2>2, <2>3, <2>4
  <2>5. CASE next # NumSubs
    <3>1. AtStart(after.coord) /\ next \in AllSubs /\ Begins(next)
      BY <1>3, <1>6, <2>2, <2>5
    <3>2. StartsAt(next, after.coord, 0)
      BY <3>1, <1>1, StartIs
    <3>3. (p + (d + c)) - at[next] = 0
      BY <1>3, <2>3
    <3> QED BY <2>2, <3>1, <3>2, <3>3
  <2> QED BY <2>4, <2>5
<1>13. d + c = W => Ends(seq, at, p, W, after.sub, after.coord)
  <2> HIDE DEF after, e, n, idx, w, c, next, key
  <2> SUFFICES ASSUME d + c = W, NEW s \in 0 .. NumSubs, Begins(s) \/ s = NumSubs, at[s] = p + W
               PROVE  after.sub = s /\ (s # NumSubs => AtStart(after.coord))
    BY DEF Ends
  <2>1. e = idx + w /\ at[s] = at[sub] + e
    BY <1>1, <1>4, <1>7, <1>5, <1>8 DEF w, c
  <2>2. CASE idx + w < n
    <3>1. e < n /\ e # 0 /\ e \in 0 .. n - 1
      BY <1>3, <1>5, <1>7, <2>1, <2>2
    <3>2. CASE Begins(s)
      <4>1. s \in AllSubs /\ NumPages(MappingOf(s)) \in Nat \ {0} /\ at[s] \in Nat
        BY <1>1, <3>2, PlacesIn
      <4>2. 0 \in 0 .. NumPages(MappingOf(s)) - 1 /\ at[s] + 0 = at[sub] + e
        BY <2>1, <4>1
      <4>3. e \in 0 .. NumPages(MappingOf(sub)) - 1
        BY <3>1 DEF n, key
      <4> DEFINE s1 == sub
      <4>4. s1 \in AllSubs /\ Begins(s1) /\ e \in 0 .. NumPages(MappingOf(s1)) - 1 /\ at[s] + 0 = at[s1] + e
        BY <4>2, <4>3
      <4> HIDE DEF s1
      <4>5. 0 = e
        BY <1>1, <3>2, <4>1, <4>2, <4>4, BeginOnce
      <4> QED BY <3>1, <4>5
    <3>3. CASE s = NumSubs
      BY <1>3, <1>7, <3>1, <2>1, <3>3
    <3> QED BY <3>2, <3>3
  <2>3. CASE idx + w >= n
    <3>1. e = n /\ after.sub = next /\ at[s] = at[next] /\ (next # NumSubs => AtStart(after.coord))
      BY <1>3, <1>6, <1>7, <2>1, <2>3
    <3>2. s = next
      <4>1. s # NumSubs => s \in AllSubs /\ Begins(s) /\ at[s] <= Len(seq)
        <5>1. ASSUME s # NumSubs PROVE s \in AllSubs /\ Begins(s) /\ at[s] <= Len(seq)
          <6>1. Begins(s) /\ s \in AllSubs
            BY <1>1, <5>1, PlacesIn
          <6>2. NumPages(MappingOf(s)) \in Nat \ {0} /\ at[s] \in Nat /\ at[s] + NumPages(MappingOf(s)) <= Len(seq) + 1
            BY <1>1, <6>1, PlacesIn
          <6>3. Len(seq) \in Nat
            BY <1>3
          <6> QED BY <6>1, <6>2, <6>3
        <5> QED BY <5>1
      <4>2. next # NumSubs => next \in AllSubs /\ Begins(next) /\ at[next] <= Len(seq)
        <5>1. ASSUME next # NumSubs PROVE next \in AllSubs /\ Begins(next) /\ at[next] <= Len(seq)
          <6>1. Begins(next) /\ next \in AllSubs /\ next \in 0 .. NumSubs
            BY <1>3, <5>1
          <6>2. NumPages(MappingOf(next)) \in Nat \ {0} /\ at[next] \in Nat /\ at[next] + NumPages(MappingOf(next)) <= Len(seq) + 1
            BY <1>1, <6>1, PlacesIn
          <6>3. Len(seq) \in Nat
            BY <1>3
          <6> QED BY <6>1, <6>2, <6>3
        <5> QED BY <5>1
      <4>3. s = NumSubs <=> next = NumSubs
        BY <1>3, <3>1, <4>1, <4>2
      <4>4. ASSUME s # NumSubs, next # NumSubs PROVE s = next
        <5>1. /\ s \in AllSubs /\ Begins(s) /\ next \in AllSubs /\ Begins(next)
              /\ 0 \in 0 .. NumPages(MappingOf(s)) - 1 /\ 0 \in 0 .. NumPages(MappingOf(next)) - 1
              /\ at[s] + 0 = at[next] + 0
          <6>1. s \in AllSubs /\ Begins(s) /\ next \in AllSubs /\ Begins(next)
            BY <4>1, <4>2, <4>4
          <6>2. NumPages(MappingOf(s)) \in Nat \ {0} /\ NumPages(MappingOf(next)) \in Nat \ {0}
            BY <1>1, <6>1, PlacesIn
          <6> QED BY <3>1, <6>1, <6>2
        <5> QED BY <1>1, <5>1, BeginOnce
      <4> QED BY <4>3, <4>4
    <3> QED BY <3>1, <3>2
  <2> QED BY <1>3, <1>4, <1>5, <2>2, <2>3
<1>14. IsTable(after.table) /\ (~update => after.table = table)
  BY <1>1, <1>2, <1>6, <1>10
<1> HIDE DEF after, c, e, w, n, idx
<1>15. after.bytes = (W - (d + c)) * PageBytes
  BY <1>6, <1>8 DEF c
<1>16. WrappedRight(table, seq, at, p, W, page, reused, update, after, d + c)
  BY <1>6, <1>8, <1>9, <1>10, <1>11, <1>12, <1>13, <1>14, <1>15 DEF WrappedRight
<1> QED BY <1>8, <1>16 DEF after

\* The loop is over: all is bound, or the last tile was passed.
WrappedOver(seq, p, W, d) == d = W \/ p + d = Len(seq) + 1

LEMMA WrappedStep ==
    ASSUME NEW table, NEW seq, NEW at, NEW p, NEW W, NEW page, NEW reused, NEW update,
           WrappedCall(table, seq, at, p, W, page, reused, update),
           NEW st, NEW d, WrappedRight(table, seq, at, p, W, page, reused, update, st, d)
    PROVE  \E k \in Nat : /\ WrappedRight(table, seq, at, p, W, page, reused, update,
                                          SetNextWrapped(st, reused, update), k)
                          /\ k >= d /\ (k > d \/ WrappedOver(seq, p, W, k))
<1>1. /\ Known /\ TailsApart /\ TilesAt(seq, at) /\ W \in Nat \ {0} /\ p \in Nat \ {0}
      /\ layout.firstMip > 0 \/ p + W <= Len(seq) + 1
  BY DEF WrappedCall
<1>2. /\ st \in WrappedLoops /\ d \in 0 .. W /\ st.bytes = (W - d) * PageBytes
      /\ d < W => \/ st.sub \in AllSubs /\ Begins(st.sub) /\ StartsAt(st.sub, st.coord, (p + d) - at[st.sub])
                  \/ st.sub = NumSubs /\ p + d = Len(seq) + 1
  BY DEF WrappedRight
<1>3. d \in Nat /\ W \in Nat /\ Len(seq) \in Nat /\ PageBytes \in Nat \ {0}
      /\ NumSubs \in Nat \ {0} /\ AllSubs = 0 .. NumSubs - 1
  BY <1>1, <1>2, PlacesIn, PageBytesAssumption
<1>4. ASSUME SetNextWrapped(st, reused, update) = st, WrappedOver(seq, p, W, d)
      PROVE  \E k \in Nat : /\ WrappedRight(table, seq, at, p, W, page, reused, update,
                                          SetNextWrapped(st, reused, update), k)
                            /\ k >= d /\ (k > d \/ WrappedOver(seq, p, W, k))
  BY <1>3, <1>4
<1>5. CASE d = W
  <2>1. st.bytes = 0
    BY <1>3, <1>5, <1>2
  <2>2. SetNextWrapped(st, reused, update) = st
    BY <2>1 DEF SetNextWrapped
  <2> QED BY <1>4, <1>5, <2>2 DEF WrappedOver
<1>6. CASE d < W /\ st.sub = NumSubs /\ p + d = Len(seq) + 1
  <2>1. layout.firstMip > 0
    BY <1>1, <1>3, <1>6
  <2>2. layout.subs # 0 /\ NumSubs = layout.subs /\ layout.subs \in Nat
        /\ layout.mips \in Nat \ {0} /\ layout.slices \in Nat \ {0} /\ layout.subs = layout.slices * layout.mips
        /\ layout.firstMip \in Nat
    <3>1. layout.subs # 0 /\ layout.subs \in Nat /\ layout.mips \in Nat \ {0} /\ layout.slices \in Nat \ {0}
          /\ layout.subs = layout.slices * layout.mips /\ layout.firstMip \in Nat
      BY <1>1, <2>1, LayoutIs
    <3>2. NumSubs = IF 1 >= layout.subs THEN 1 ELSE layout.subs
      BY <3>1, GreatestOfTwo DEF NumSubs
    <3> QED BY <3>1, <3>2
  <2>3. NumSubs % layout.mips = 0
    BY <2>2, DivisionIs
  <2>4. ~isSubresourceInMipTail(st.sub)
    BY <1>6, <2>1, <2>2, <2>3 DEF isSubresourceInMipTail
  <2>5. ~(st.sub < layout.subs)
    BY <1>6, <2>2
  <2>6. SetNextWrapped(st, reused, update) = st
    BY <2>4, <2>5 DEF SetNextWrapped
  <2> QED BY <1>4, <1>6, <2>6 DEF WrappedOver
<1>7. CASE /\ d < W /\ st.sub \in AllSubs /\ Begins(st.sub)
           /\ StartsAt(st.sub, st.coord, (p + d) - at[st.sub])
  <2>1. PICK k \in Nat : k > d /\ WrappedRight(table, seq, at, p, W, page, reused, update,
                                               SetWrapped(st, reused, update), k)
    BY <1>7, WrappedOn
  <2>2. st.bytes > 0
    BY <1>3, <1>7, <1>2
  <2>3. isSubresourceInMipTail(st.sub) \/ st.sub < layout.subs
    <3>1. CASE layout.subs = 0
      BY <1>1, <1>7, <3>1, AllSubsAre, LayoutIs DEF isSubresourceInMipTail
    <3>2. CASE layout.subs # 0
      <4>1. st.sub \in 0 .. layout.subs - 1 /\ layout.subs \in Nat
        BY <1>1, <1>7, <3>2, AllSubsAre, LayoutIs
      <4> QED BY <4>1
    <3> QED BY <3>1, <3>2
  <2>4. SetNextWrapped(st, reused, update) = SetWrapped(st, reused, update)
    BY <2>2, <2>3 DEF SetNextWrapped
  <2> QED BY <1>3, <2>1, <2>4
<1> QED BY <1>2, <1>3, <1>5, <1>6, <1>7

LEMMA AllWrappedIs ==
    ASSUME NEW table, NEW seq, NEW at, NEW p, NEW W, NEW page, NEW reused, NEW update,
           WrappedCall(table, seq, at, p, W, page, reused, update),
           NEW sub \in AllSubs, Begins(sub), NEW coord, StartsAt(sub, coord, p - at[sub]),
           NEW start, start = [table |-> table, sub |-> sub, coord |-> coord,
                               bytes |-> W * PageBytes, page |-> page]
    PROVE  \E d \in Nat : /\ WrappedOver(seq, p, W, d)
                          /\ WrappedRight(table, seq, at, p, W, page, reused, update,
                                          SetAllWrapped(start, reused, update), d)
<1> DEFINE right(st, d) == WrappedRight(table, seq, at, p, W, page, reused, update, st, d)
           next(st) == SetNextWrapped(st, reused, update)
           N == start.bytes \div PageBytes
           S == {st \in WrappedLoops : \E d \in Nat : right(st, d)}
           eq(f) == f = [n \in 0 .. N |-> IF n = 0 THEN start ELSE next(f[n - 1])]
           after == CHOOSE f : eq(f)
           step == [n \in 1 .. N |-> [st \in S |-> next(st)]]
<1>1. /\ Known /\ TailsApart /\ TilesAt(seq, at) /\ IsTable(table) /\ page \in PageOf(Heaps)
      /\ reused \in BOOLEAN /\ W \in Nat \ {0} /\ p \in Nat \ {0} /\ PageBytes \in Nat \ {0}
  BY PageBytesAssumption DEF WrappedCall
<1>2. Len(seq) \in Nat /\ at[sub] \in Nat /\ sub \in Nat
  BY <1>1, PlacesIn
<1>3. N = W
  BY <1>1, DivisionIs
<1>4. right(start, 0)
  <2>1. p + 0 = p /\ W - 0 = W /\ 0 \in 0 .. W /\ 0 < W /\ 0 # W
    BY <1>1
  <2>2. p <= Len(seq) + 1
    <3> DEFINE idx == p - at[sub]
               n == NumPages(MappingOf(sub))
    <3>1. idx < n /\ idx \in Nat
      BY DEF StartsAt
    <3>2. n \in Nat /\ at[sub] + n <= Len(seq) + 1
      BY <1>1, PlacesIn
    <3>3. p = at[sub] + idx
      BY <1>1, <1>2
    <3> HIDE DEF idx, n
    <3> QED BY <1>2, <3>1, <3>2, <3>3
  <2>3. PageNth(page, 0, reused) = page
    BY <1>1, PageNthType
  <2>4. TilesBound(table, table, seq, p, 0, page, reused)
    BY <1>1, <1>2, NoTilesBound
  <2>5. table \in [Subs \cup Tails -> AllMappings]
    BY <1>1, TableType
  <2>6. coord \in Nat \X Nat /\ W * PageBytes \in Nat
    BY <1>1 DEF StartsAt
  <2>7. start \in WrappedLoops
    BY <1>1, <1>2, <2>5, <2>6 DEF WrappedLoops
  <2>8. /\ start.table = table /\ start.sub = sub /\ start.coord = coord /\ start.page = page
        /\ start.bytes = (W - 0) * PageBytes
    BY <2>1
  <2> QED BY <1>1, <2>1, <2>2, <2>3, <2>4, <2>7, <2>8 DEF WrappedRight
<1>5. ASSUME NEW st, NEW d \in Nat, right(st, d)
      PROVE  /\ \E k \in Nat : right(next(st), k) /\ k >= d /\ (k > d \/ WrappedOver(seq, p, W, k))
             /\ next(st) \in WrappedLoops
  BY <1>5, WrappedStep DEF WrappedRight
<1>6. start \in S
  BY <1>4 DEF WrappedRight
<1>7. \A st \in S : next(st) \in S
  BY <1>5
<1>8. SetAllWrapped(start, reused, update) = after[N]
  BY DEF SetAllWrapped
<1> HIDE DEF N, right, next
<1>9. \E f : eq(f)
  <2>1. step \in [1 .. N -> [S -> S]]
    BY <1>7
  <2>2. \A n \in 1 .. N : \A st \in S : step[n][st] = next(st)
    OBVIOUS
  <2> HIDE DEF step, S
  <2>3. PICK f : Iterated(f, S, start, N, step)
    BY <1>1, <1>3, <1>6, <2>1, Iterating
  <2>4. ASSUME NEW n \in 0 .. N, n # 0 PROVE step[n][f[n - 1]] = next(f[n - 1])
    <3>1. n - 1 \in 0 .. N /\ n \in 1 .. N
      BY <1>1, <1>3, <2>4
    <3>2. f[n - 1] \in S
      BY <2>3, <3>1 DEF Iterated
    <3> QED BY <2>2, <3>1, <3>2
  <2>5. [n \in 0 .. N |-> IF n = 0 THEN start ELSE step[n][f[n - 1]]]
        = [n \in 0 .. N |-> IF n = 0 THEN start ELSE next(f[n - 1])]
    BY <2>4
  <2>6. eq(f)
    BY <2>3, <2>5 DEF Iterated
  <2> QED BY <2>6
<1>10. eq(after)
  BY <1>9
<1> HIDE DEF after
<1>11. after[0] = start /\ \A n \in 1 .. N : after[n] = next(after[n - 1])
  <2>1. 0 \in 0 .. N /\ \A n \in 1 .. N : n \in 0 .. N /\ n # 0
    BY <1>1, <1>3
  <2> QED BY <1>10, <2>1
<1> HIDE DEF eq
<1> DEFINE done(n) == \E d \in Nat : right(after[n], d) /\ (d >= n \/ WrappedOver(seq, p, W, d))
           T == {n \in 0 .. N : done(n)}
<1>12. 0 \in T
  BY <1>1, <1>3, <1>4, <1>11
<1>13. ASSUME NEW n \in 1 .. N, n - 1 \in T PROVE n \in T
  <2>1. PICK d \in Nat : right(after[n - 1], d) /\ (d >= n - 1 \/ WrappedOver(seq, p, W, d))
    BY <1>13
  <2>2. PICK k \in Nat : right(after[n], k) /\ k >= d /\ (k > d \/ WrappedOver(seq, p, W, k))
    BY <1>5, <1>11, <2>1
  <2>3. k >= n \/ WrappedOver(seq, p, W, k)
    <3>1. CASE WrappedOver(seq, p, W, k)
      BY <3>1
    <3>2. CASE ~WrappedOver(seq, p, W, k)
      BY <2>2, <3>2, <1>1, <1>2, <1>3, <2>1 DEF right, WrappedRight, WrappedOver
    <3> QED BY <3>1, <3>2
  <2>4. n \in 0 .. N
    BY <1>1, <1>3
  <2> QED BY <2>2, <2>3, <2>4
<1>14. N \in T
  <2>1. \A n \in 0 .. N : n \in T
    BY <1>1, <1>3, <1>12, <1>13, Counting
  <2> HIDE DEF T
  <2> QED BY <1>1, <1>3, <2>1
<1>15. PICK d \in Nat : right(after[N], d) /\ (d >= N \/ WrappedOver(seq, p, W, d))
  BY <1>14
<1>16. WrappedOver(seq, p, W, d)
  BY <1>15, <1>1, <1>3 DEF right, WrappedRight, WrappedOver
<1> QED BY <1>8, <1>15, <1>16 DEF right

\* How many of W tiles there are from the p-th on.
TilesLeft(seq, p, W) == IF p + W <= Len(seq) + 1 THEN W ELSE Len(seq) + 1 - p

(* setImageWrappedRange binds the tiles from where it begins on, through    *)
(* subresources and tails in the order of the API, as far as there are any, *)
(* to one page of memory after the other, or all to one, and no other.      *)
(* Where it ends at the end of a subresource, it returns the next one, with *)
(* a coordinate at its first page.                                         *)
THEOREM WrappedRangeBindsTiles ==
    ASSUME NEW table, NEW seq, NEW at, NEW p, NEW W, NEW page, NEW reused, NEW update,
           WrappedCall(table, seq, at, p, W, page, reused, update),
           NEW sub \in AllSubs, Begins(sub), NEW coord, StartsAt(sub, coord, p - at[sub])
    PROVE  LET end == setImageWrappedRange(table, sub, coord, W * PageBytes, page, reused, update) IN
           /\ update => TilesBound(table, end.table, seq, p, TilesLeft(seq, p, W), page, reused)
           /\ ~update => end.table = table
           /\ p + W <= Len(seq) + 1 => Ends(seq, at, p, W, end.sub, end.coord)
<1> DEFINE from == IF page.memory = NoHeap THEN NoPage ELSE page
           bytes == W * PageBytes
           start == [table |-> table, sub |-> sub, coord |-> coord, bytes |-> bytes, page |-> from]
           last == SetAllWrapped(start, reused, update)
           end == setImageWrappedRange(table, sub, coord, bytes, page, reused, update)
           m == TilesLeft(seq, p, W)
<1>1. /\ Known /\ TailsApart /\ TailsFit /\ TilesAt(seq, at)
      /\ IsTable(table) /\ page \in PageOf(Heaps) /\ reused \in BOOLEAN /\ update \in BOOLEAN
      /\ p \in Nat \ {0} /\ W \in Nat \ {0} /\ PageBytes \in Nat \ {0}
      /\ layout.firstMip > 0 \/ p + W <= Len(seq) + 1
  BY PageBytesAssumption DEF WrappedCall
<1>2. from \in PageOf(Heaps) /\ from.memory = page.memory
      /\ \A n \in Nat : SamePage(PageNth(from, n, reused), PageNth(page, n, reused))
  <2>1. CASE page.memory = NoHeap
    <3>1. from \in PageOf(Heaps) /\ from.memory = NoHeap
      BY <2>1, NoPageIs
    <3>2. \A n \in Nat : PageNth(from, n, reused).memory = NoHeap /\ PageNth(page, n, reused).memory = NoHeap
      BY <1>1, <2>1, <3>1, PagesOnType DEF PageNth
    <3> QED BY <2>1, <3>1, <3>2 DEF SamePage
  <2>2. CASE page.memory # NoHeap
    BY <1>1, <2>2 DEF SamePage
  <2> QED BY <2>1, <2>2
<1>3. bytes - (bytes % PageBytes) = bytes /\ bytes \in Nat
  <2>1. 0 < PageBytes /\ 0 \in Nat
    BY <1>1
  <2>2. (W * PageBytes + 0) % PageBytes = 0
    BY <1>1, <2>1, DivisionIs
  <2>3. W * PageBytes + 0 = W * PageBytes /\ W * PageBytes \in Nat
    BY <1>1
  <2> QED BY <2>2, <2>3
<1>4. end = WhereItEnds(last)
  BY <1>3 DEF setImageWrappedRange
<1>5. WrappedCall(table, seq, at, p, W, from, reused, update)
  BY <1>1, <1>2 DEF WrappedCall
<1> HIDE DEF from
<1>6. PICK d \in Nat : /\ WrappedOver(seq, p, W, d)
                       /\ WrappedRight(table, seq, at, p, W, from, reused, update, last, d)
  BY <1>5, AllWrappedIs
<1> HIDE DEF last, end
<1>7. /\ last \in WrappedLoops /\ d \in 0 .. W /\ last.bytes = (W - d) * PageBytes
      /\ update => TilesBound(table, last.table, seq, p, d, from, reused)
      /\ ~update => last.table = table
      /\ p + d <= Len(seq) + 1
      /\ d = W => Ends(seq, at, p, W, last.sub, last.coord)
  BY <1>6 DEF WrappedRight
<1>8. d = m
  BY <1>1, PlacesIn, <1>6, <1>7 DEF WrappedOver, TilesLeft
<1>9. end.table = last.table
  BY <1>4, <1>7 DEF WhereItEnds, WrappedLoops
<1>10. d = W => end = last
  BY <1>1, <1>4, <1>7 DEF WhereItEnds
<1>11. update => TilesBound(table, end.table, seq, p, m, page, reused)
  <2> SUFFICES ASSUME update PROVE TilesBound(table, end.table, seq, p, m, page, reused)
    OBVIOUS
  <2>1. TilesBound(table, end.table, seq, p, m, from, reused)
    BY <1>7, <1>8, <1>9
  <2> HIDE DEF m
  <2>2. ASSUME NEW q \in 1 .. Len(seq)
        PROVE  SamePage(getPage(end.table[seq[q][1]], seq[q][2]),
                   IF p <= q /\ q < p + m THEN PageNth(page, q - p, reused)
                   ELSE getPage(table[seq[q][1]], seq[q][2]))
    BY <2>1, <1>1, <1>2 DEF TilesBound, SamePage
  <2> QED BY <2>1, <2>2 DEF TilesBound
<1>12. p + W <= Len(seq) + 1 => d = W
  BY <1>8 DEF TilesLeft
<1> QED BY <1>7, <1>9, <1>10, <1>11, <1>12 DEF end

-----------------------------------------------------------------------------
(* On D3D12: bindings piece by piece.                                      *)

\* The first N tiles are bound to their pages.
BoundUpto(b, N, to, pages) ==
    [tile \in DOMAIN b |->
        LET bound == {n \in 1 .. N : to[n] = tile /\ pages[n] # Kept}
        IN  IF bound = {} THEN b[tile] ELSE pages[Max(bound)]]

\* The k tiles after N are bound in a table, and no other.
PieceSet(table, after, N, k, to, pages) ==
    /\ IsTable(after)
    /\ \A tile \in UsedTiles :
          /\ \A i \in 1 .. k : to[N + i] = tile /\ pages[N + i] # Kept
                => SamePage(getPage(after[tile[1]], tile[2]), pages[N + i])
          /\ (\A i \in 1 .. k : to[N + i] = tile => pages[N + i] = Kept)
                => SamePage(getPage(after[tile[1]], tile[2]), getPage(table[tile[1]], tile[2]))

\* Each of them has a page of memory or is to be kept; those with one differ.
IsPiece(N, k, to, pages) ==
    /\ \A i, j \in 1 .. k : pages[N + i] # Kept /\ pages[N + j] # Kept /\ to[N + i] = to[N + j] => i = j
    /\ \A i \in 1 .. k : pages[N + i] = Kept \/ pages[N + i] \in PageOf(Heaps)

LEMMA MaxIs ==
    ASSUME NEW S, S \subseteq Nat, NEW m \in S, \A k \in S : k <= m
    PROVE  Max(S) = m
<1>1. \A x \in S : (\A k \in S : x >= k) => x = m
  OBVIOUS
<1>2. m \in S /\ \A k \in S : m >= k
  OBVIOUS
<1>3. Max(S) \in S /\ \A k \in S : Max(S) >= k
  BY <1>2, Zenon DEF Max
<1> QED BY <1>1, <1>3

LEMMA BindIsUpto ==
    ASSUME NEW b, NEW N \in Nat, NEW to, DOMAIN to = 1 .. N, NEW pages
    PROVE  Bind(b, to, pages) = BoundUpto(b, N, to, pages)
BY DEF Bind, BoundUpto

LEMMA NoneBound ==
    ASSUME NEW b \in [UsedTiles -> PageOf(Heaps)], NEW to, NEW pages
    PROVE  BoundUpto(b, 0, to, pages) = b
BY DEF BoundUpto

LEMMA PieceBinds ==
    ASSUME Known, NEW b \in [UsedTiles -> PageOf(Heaps)], NEW N \in Nat, NEW k \in Nat,
           NEW to, NEW pages, IsPiece(N, k, to, pages),
           NEW table, TableRight(table, BoundUpto(b, N, to, pages)),
           NEW after, PieceSet(table, after, N, k, to, pages)
    PROVE  TableRight(after, BoundUpto(b, N + k, to, pages))
<1> DEFINE was == BoundUpto(b, N, to, pages)
           now == BoundUpto(b, N + k, to, pages)
           boundBy(n, tile) == {i \in 1 .. n : to[i] = tile /\ pages[i] # Kept}
<1>1. \A n : BoundUpto(b, n, to, pages) =
                [tile \in UsedTiles |-> IF boundBy(n, tile) = {} THEN b[tile] ELSE pages[Max(boundBy(n, tile))]]
  BY DEF BoundUpto
<1>2. /\ IsTable(table) /\ was \in [UsedTiles -> PageOf(Heaps)]
      /\ \A tile \in UsedTiles : SamePage(getPage(table[tile[1]], tile[2]), was[tile])
  BY DEF TableRight, Says
<1> HIDE DEF was, now
<1>3. ASSUME NEW tile \in UsedTiles
      PROVE  now[tile] \in PageOf(Heaps) /\ SamePage(getPage(after[tile[1]], tile[2]), now[tile])
  <2>1. now[tile] = (IF boundBy(N + k, tile) = {} THEN b[tile] ELSE pages[Max(boundBy(N + k, tile))])
        /\ was[tile] = (IF boundBy(N, tile) = {} THEN b[tile] ELSE pages[Max(boundBy(N, tile))])
    <3> HIDE DEF boundBy
    <3>1. now = [t \in UsedTiles |-> IF boundBy(N + k, t) = {} THEN b[t] ELSE pages[Max(boundBy(N + k, t))]]
      BY <1>1 DEF now
    <3>2. was = [t \in UsedTiles |-> IF boundBy(N, t) = {} THEN b[t] ELSE pages[Max(boundBy(N, t))]]
      BY <1>1 DEF was
    <3> QED BY <3>1, <3>2
  <2>2. CASE \E i \in 1 .. k : to[N + i] = tile /\ pages[N + i] # Kept
    <3>1. PICK i \in 1 .. k : to[N + i] = tile /\ pages[N + i] # Kept
      BY <2>2
    <3>2. N + i \in boundBy(N + k, tile)
      BY <3>1
    <3>3. \A m \in boundBy(N + k, tile) : m <= N + i
      BY <3>1 DEF IsPiece
    <3>4. boundBy(N + k, tile) \subseteq Nat
      OBVIOUS
    <3> HIDE DEF boundBy
    <3>5. Max(boundBy(N + k, tile)) = N + i
      BY <3>2, <3>3, <3>4, MaxIs
    <3>6. boundBy(N + k, tile) # {}
      BY <3>2
    <3>7. now[tile] = pages[N + i]
      BY <2>1, <3>5, <3>6
    <3> QED BY <3>1, <3>7 DEF PieceSet, IsPiece
  <2>3. CASE ~\E i \in 1 .. k : to[N + i] = tile /\ pages[N + i] # Kept
    <3>1. \A m \in 1 .. N + k : m \in 1 .. N \/ (m - N \in 1 .. k /\ N + (m - N) = m)
      OBVIOUS
    <3>2. boundBy(N + k, tile) = boundBy(N, tile)
      <4>1. boundBy(N + k, tile) \subseteq boundBy(N, tile)
        BY <3>1, <2>3
      <4>2. boundBy(N, tile) \subseteq boundBy(N + k, tile)
        OBVIOUS
      <4> QED BY <4>1, <4>2
    <3> HIDE DEF boundBy
    <3>3. now[tile] = was[tile]
      BY <2>1, <3>2
    <3>4. SamePage(getPage(after[tile[1]], tile[2]), getPage(table[tile[1]], tile[2]))
      BY <2>3 DEF PieceSet
    <3>5. SamePage(getPage(table[tile[1]], tile[2]), was[tile]) /\ was[tile] \in PageOf(Heaps)
      BY <1>2
    <3> QED BY <3>3, <3>4, <3>5 DEF SamePage
  <2> QED BY <2>2, <2>3
<1>4. now \in [UsedTiles -> PageOf(Heaps)]
  BY <1>1, <1>3 DEF now
<1>5. IsTable(after)
  BY DEF PieceSet
<1> QED BY <1>3, <1>4, <1>5 DEF TableRight, Says, now

LEMMA KeptPiece ==
    ASSUME NEW table, IsTable(table), NEW N \in Nat, NEW k \in Nat, NEW to, NEW pages,
           \A i \in 1 .. k : pages[N + i] = Kept
    PROVE  IsPiece(N, k, to, pages) /\ PieceSet(table, table, N, k, to, pages)
BY DEF IsPiece, PieceSet, SamePage

\* The k pages after N are those from page on, or all that page.
PagesFrom(pages, N, k, page, reused) == \A i \in 1 .. k : pages[N + i] = PageNth(page, i - 1, reused)

\* The tiles after N are those of a box.
BoxTo(to, N, sub, coord, size) ==
    \A i \in 1 .. size[1] * size[2] :
        to[N + i] = <<<<"sub", sub>>, BoxPages(coord, size, calcSubresourcePageDim(sub))[i - 1]>>

\* The tiles after N are k of the resource from the p-th on.
SeqTo(to, N, k, seq, p) == \A i \in 1 .. k : to[N + i] = seq[p + i - 1]

\* A tile is in the order once.
LEMMA TilesOnce ==
    ASSUME Known, TailsApart, NEW seq, NEW at, TilesAt(seq, at),
           NEW p \in 1 .. Len(seq), NEW q \in 1 .. Len(seq), seq[p] = seq[q]
    PROVE  p = q
<1>1. PICK k \in AllSubs : Begins(k) /\ p - at[k] \in 0 .. NumPages(MappingOf(k)) - 1
                           /\ seq[p] = <<MappingOf(k), p - at[k]>>
  BY TileIs
<1>2. PICK l \in AllSubs : Begins(l) /\ q - at[l] \in 0 .. NumPages(MappingOf(l)) - 1
                           /\ seq[q] = <<MappingOf(l), q - at[l]>>
  BY TileIs
<1>3. MappingOf(k) = MappingOf(l) /\ p - at[k] = q - at[l]
  <2>1. seq[p][1] = MappingOf(k) /\ seq[p][2] = p - at[k]
    BY <1>1
  <2>2. seq[q][1] = MappingOf(l) /\ seq[q][2] = q - at[l]
    BY <1>2
  <2> QED BY <2>1, <2>2
<1>4. k = l
  BY <1>1, <1>2, <1>3, BeginsIs
<1>5. at[k] \in Nat /\ Len(seq) \in Nat
  BY PlacesIn
<1> QED BY <1>3, <1>4, <1>5

LEMMA PageOfKept ==
    /\ Kept \notin PageOf(Heaps)
    /\ \A page \in PageOf(Heaps), n \in Nat, reused \in BOOLEAN :
          PageNth(page, n, reused) \in PageOf(Heaps) /\ PageNth(page, n, reused) # Kept
<1>1. Kept \notin PageOf(Heaps)
  BY SparseBindingsAssumption DEF Kept, Page, NoHeap, PageOf
<1>2. ASSUME NEW page \in PageOf(Heaps), NEW n \in Nat, NEW reused \in BOOLEAN
      PROVE  PageNth(page, n, reused) \in PageOf(Heaps)
  BY PageNthType
<1> QED BY <1>1, <1>2

\* The tiles from the p-th on.
LEMMA TilesPiece ==
    ASSUME Known, TailsApart, NEW seq, NEW at, TilesAt(seq, at), Range(seq) = UsedTiles,
           NEW table, NEW after, NEW p \in Nat \ {0}, NEW k \in Nat, p + k <= Len(seq) + 1,
           NEW page \in PageOf(Heaps), NEW reused \in BOOLEAN,
           TilesBound(table, after, seq, p, k, page, reused),
           NEW N \in Nat, NEW to, NEW pages, SeqTo(to, N, k, seq, p), PagesFrom(pages, N, k, page, reused)
    PROVE  IsPiece(N, k, to, pages) /\ PieceSet(table, after, N, k, to, pages)
<1>1. Len(seq) \in Nat /\ \A i \in 1 .. k : p + i - 1 \in 1 .. Len(seq) /\ i - 1 \in Nat
  BY PlacesIn
<1>5. \A i \in 1 .. k : to[N + i] = seq[p + i - 1] /\ pages[N + i] = PageNth(page, i - 1, reused)
  BY DEF SeqTo, PagesFrom
<1>2. IsPiece(N, k, to, pages)
  <2>1. ASSUME NEW i \in 1 .. k, NEW j \in 1 .. k, to[N + i] = to[N + j] PROVE i = j
    BY <1>5, <2>1, <1>1, TilesOnce
  <2>2. \A i \in 1 .. k : pages[N + i] \in PageOf(Heaps)
    BY <1>1, <1>5, PageOfKept
  <2> QED BY <2>1, <2>2 DEF IsPiece
<1>3. ASSUME NEW tile \in UsedTiles
      PROVE  /\ \A i \in 1 .. k : to[N + i] = tile /\ pages[N + i] # Kept
                   => SamePage(getPage(after[tile[1]], tile[2]), pages[N + i])
             /\ (\A i \in 1 .. k : to[N + i] = tile => pages[N + i] = Kept)
                   => SamePage(getPage(after[tile[1]], tile[2]), getPage(table[tile[1]], tile[2]))
  <2>1. PICK q \in 1 .. Len(seq) : seq[q] = tile
    BY DEF TilesAt, Range
  <2>2. SamePage(getPage(after[tile[1]], tile[2]),
                 IF p <= q /\ q < p + k THEN PageNth(page, q - p, reused)
                 ELSE getPage(table[tile[1]], tile[2]))
    BY <2>1 DEF TilesBound
  <2>3. ASSUME NEW i \in 1 .. k, to[N + i] = tile
        PROVE  SamePage(getPage(after[tile[1]], tile[2]), pages[N + i])
    <3>1. p + i - 1 = q
      BY <1>1, <1>5, <2>1, <2>3, TilesOnce
    <3>2. p <= q /\ q < p + k /\ q - p = i - 1
      BY <1>1, <3>1
    <3> QED BY <1>5, <2>2, <3>2
  <2>4. ASSUME \A i \in 1 .. k : to[N + i] = tile => pages[N + i] = Kept
        PROVE  ~(p <= q /\ q < p + k)
    <3> SUFFICES ASSUME p <= q, q < p + k PROVE FALSE
      OBVIOUS
    <3>1. q - p + 1 \in 1 .. k /\ p + (q - p + 1) - 1 = q
      BY <1>1
    <3>2. to[N + (q - p + 1)] = tile
      BY <1>5, <2>1, <3>1
    <3>3. pages[N + (q - p + 1)] = PageNth(page, (q - p + 1) - 1, reused) /\ (q - p + 1) - 1 \in Nat
      BY <1>1, <1>5, <3>1
    <3> QED BY <2>4, <3>1, <3>2, <3>3, PageOfKept
  <2> QED BY <2>2, <2>3, <2>4
<1>4. IsTable(after)
  BY DEF TilesBound
<1> QED BY <1>2, <1>3, <1>4 DEF PieceSet

\* A box of tiles.
LEMMA BoxPiece ==
    ASSUME Known, NEW table, NEW after, NEW sub \in 0 .. layout.subs - 1, NEW coord, NEW size,
           Fits(coord, size, calcSubresourcePageDim(sub)),
           NEW page \in PageOf(Heaps), NEW reused \in BOOLEAN,
           BoxBound(table, after, sub, coord, size, page, reused), IsTable(table),
           NEW k, k = size[1] * size[2],
           NEW N \in Nat, NEW to, NEW pages, BoxTo(to, N, sub, coord, size), PagesFrom(pages, N, k, page, reused)
    PROVE  IsPiece(N, k, to, pages) /\ PieceSet(table, after, N, k, to, pages)
<1> DEFINE dim == calcSubresourcePageDim(sub)
           box == BoxPages(coord, size, dim)
           key == <<"sub", sub>>
<1>1. /\ k \in Nat \ {0}
      /\ \A i \in 0 .. k - 1 : box[i] \in 0 .. dim[1] * dim[2] - 1
      /\ \A i, j \in 0 .. k - 1 : box[i] = box[j] => i = j
  <2> HIDE DEF dim
  <2>1. LET bb == BoxPages(coord, size, dim)
            NN == size[1] * size[2]
        IN /\ NN \in Nat \ {0} /\ DOMAIN bb = 0 .. NN - 1
           /\ \A i \in 0 .. NN - 1 : bb[i] \in 0 .. dim[1] * dim[2] - 1
           /\ \A i, j \in 0 .. NN - 1 : bb[i] = bb[j] => i = j
    BY BoxIs DEF dim
  <2> QED BY <2>1
<1>2. /\ IsTable(after)
      /\ \A m \in Subs \cup Tails : m # key => after[m] = table[m]
      /\ \A i \in 0 .. k - 1 : SamePage(getPage(after[key], box[i]), PageNth(page, i, reused))
      /\ \A idx \in 0 .. SubPages(sub) - 1 :
            (\A i \in 0 .. k - 1 : box[i] # idx) => SamePage(getPage(after[key], idx), getPage(table[key], idx))
  BY DEF BoxBound, PageNth
<1>3. \A i \in 1 .. k : to[N + i] = <<key, box[i - 1]>> /\ pages[N + i] = PageNth(page, i - 1, reused)
  BY DEF BoxTo, PagesFrom
<1>4. key \in Subs /\ NumPages(key) = SubPages(sub) /\ key[2] = sub
  BY NumPagesIs DEF Subs
<1> HIDE DEF box, key
<1>5. \A i \in 1 .. k : i - 1 \in 0 .. k - 1 /\ i - 1 \in Nat
  BY <1>1
<1>6. \A i \in 1 .. k : pages[N + i] \in PageOf(Heaps) /\ pages[N + i] # Kept
  BY <1>3, <1>5, PageOfKept
<1>7. IsPiece(N, k, to, pages)
  <2>1. ASSUME NEW i \in 1 .. k, NEW j \in 1 .. k, to[N + i] = to[N + j] PROVE i = j
    BY <1>3, <2>1, <1>1, <1>5
  <2> QED BY <1>6, <2>1 DEF IsPiece
<1>8. ASSUME NEW tile \in UsedTiles
      PROVE  /\ \A i \in 1 .. k : to[N + i] = tile /\ pages[N + i] # Kept
                   => SamePage(getPage(after[tile[1]], tile[2]), pages[N + i])
             /\ (\A i \in 1 .. k : to[N + i] = tile => pages[N + i] = Kept)
                   => SamePage(getPage(after[tile[1]], tile[2]), getPage(table[tile[1]], tile[2]))
  <2>1. tile[1] \in Subs \cup Tails /\ tile = <<tile[1], tile[2]>> /\ tile[2] \in 0 .. NumPages(tile[1]) - 1
    BY UsedTilesAre, NumPagesIs
  <2>2. ASSUME NEW i \in 1 .. k, to[N + i] = tile
        PROVE  SamePage(getPage(after[tile[1]], tile[2]), pages[N + i])
    BY <1>3, <2>1, <2>2, <1>2, <1>5
  <2>3. ASSUME \A i \in 1 .. k : to[N + i] = tile => pages[N + i] = Kept
        PROVE  SamePage(getPage(after[tile[1]], tile[2]), getPage(table[tile[1]], tile[2]))
    <3>1. CASE tile[1] # key
      BY <1>2, <2>1, <3>1 DEF SamePage
    <3>2. CASE tile[1] = key
      <4>1. ASSUME NEW i \in 0 .. k - 1 PROVE box[i] # tile[2]
        <5>1. i + 1 \in 1 .. k /\ (i + 1) - 1 = i
          BY <1>1
        <5>2. to[N + (i + 1)] # tile
          BY <1>6, <2>3, <5>1
        <5> QED BY <1>3, <2>1, <3>2, <5>1, <5>2
      <4>2. tile[2] \in 0 .. SubPages(sub) - 1
        BY <1>4, <2>1, <3>2
      <4> QED BY <1>2, <3>2, <4>1, <4>2
    <3> QED BY <3>1, <3>2
  <2> QED BY <2>2, <2>3
<1> QED BY <1>2, <1>7, <1>8 DEF PieceSet

-----------------------------------------------------------------------------
(* On D3D12: the ranges of a call, and where a loop is in them.            *)

AreRanges(heap, ranges) ==
    /\ heap \in Heaps /\ Len(ranges) \in 1 .. 2
    /\ \A r \in 1 .. Len(ranges) :
          /\ ranges[r].count \in Nat \ {0} /\ ranges[r].offset \in Nat
          /\ ranges[r].flag \in {"NONE", "NULL", "SKIP", "REUSE_SINGLE_TILE"}

\* The pages are those of the ranges, one after the other.
RangesGive(heap, ranges, pages) ==
    /\ \A i \in 1 .. ranges[1].count : pages[i] = RangePages(heap, ranges[1])[i]
    /\ Len(ranges) = 2 => \A i \in 1 .. ranges[2].count :
                             pages[ranges[1].count + i] = RangePages(heap, ranges[2])[i]

\* The loop has used N pages.
AtPage(ranges, st, N) ==
    /\ st.range \in 1 .. Len(ranges) + 1 /\ st.used \in Nat
    /\ st.range = 1 => st.used = N
    /\ st.range = 2 => N = ranges[1].count + st.used
    /\ st.range = 3 => N = ranges[1].count + ranges[2].count
    /\ IF st.range <= Len(ranges) THEN st.used < ranges[st.range].count ELSE st.used = 0

\* The loop after n more pages, with all else as it was.
UsedMore(ranges, st, n, after) ==
    /\ DOMAIN after = DOMAIN st
    /\ \A f \in DOMAIN st : f # "range" /\ f # "used" => after[f] = st[f]
    /\ IF st.used + n >= ranges[st.range].count
       THEN after.range = st.range + 1 /\ after.used = 0
       ELSE after.range = st.range /\ after.used = st.used + n

LEMMA ConsumeKeeps ==
    ASSUME NEW ranges, NEW st, "range" \in DOMAIN st, "used" \in DOMAIN st, NEW n
    PROVE  UsedMore(ranges, st, n, Consume(ranges, st, n))
BY DEF Consume, UsedMore

LEMMA ConsumeIs ==
    ASSUME NEW heap, NEW ranges, AreRanges(heap, ranges), NEW st, "range" \in DOMAIN st, "used" \in DOMAIN st,
           NEW N \in Nat, AtPage(ranges, st, N), st.range <= Len(ranges),
           NEW n \in Nat \ {0}, st.used + n <= ranges[st.range].count
    PROVE  AtPage(ranges, Consume(ranges, st, n), N + n)
<1> DEFINE after == Consume(ranges, st, n)
           c == ranges[st.range].count
<1>1. IF st.used + n >= c THEN after.range = st.range + 1 /\ after.used = 0
      ELSE after.range = st.range /\ after.used = st.used + n
  BY ConsumeKeeps DEF UsedMore
<1>2. /\ Len(ranges) \in 1 .. 2 /\ st.range \in 1 .. Len(ranges) /\ st.used \in Nat /\ c \in Nat
      /\ ranges[1].count \in Nat
      /\ st.range = 1 => st.used = N /\ c = ranges[1].count
      /\ st.range = 2 => N = ranges[1].count + st.used /\ c = ranges[2].count
  BY DEF AreRanges, AtPage
<1> DEFINE u == st.used
           one == ranges[1].count
           two == ranges[2].count
<1>0. /\ u + n <= c
      /\ (/\ after.range \in 1 .. Len(ranges) + 1 /\ after.used \in Nat
          /\ after.range = 1 => after.used = N + n
          /\ after.range = 2 => N + n = one + after.used
          /\ after.range = 3 => N + n = one + two
          /\ after.range <= Len(ranges) => after.used < ranges[after.range].count
          /\ after.range > Len(ranges) => after.used = 0) => AtPage(ranges, after, N + n)
  BY DEF AtPage
<1>00. Len(ranges) = 2 => two \in Nat \ {0}
  BY DEF AreRanges
<1> SUFFICES AtPage(ranges, after, N + n)
  OBVIOUS
<1> HIDE DEF after, c, one, two, u
<1>3. CASE u + n >= c
  <2>1. after.range = st.range + 1 /\ after.used = 0 /\ u + n = c
    BY <1>0, <1>1, <1>2, <1>3 DEF u
  <2>2. CASE st.range = 1
    BY <1>00, <1>2, <2>1, <2>2, <1>0 DEF u, one, two
  <2>3. CASE st.range = 2
    <3>1. after.range = 3 /\ Len(ranges) = 2 /\ N + n = one + two
      <4>1. after.range = 3 /\ Len(ranges) = 2
        BY <1>2, <2>1, <2>3
      <4>2. N = one + u /\ c = two /\ one \in Nat /\ u \in Nat
        BY <1>2, <2>3 DEF u, one, two
      <4> QED BY <2>1, <4>1, <4>2
    <3>2. after.range \in 1 .. Len(ranges) + 1 /\ after.used = 0 /\ after.range > Len(ranges)
      BY <1>2, <2>1, <2>3, <3>1
    <3> QED BY <1>0, <3>1, <3>2
  <2> QED BY <1>2, <2>2, <2>3
<1>4. CASE ~(u + n >= c)
  <2>1. after.range = st.range /\ after.used = u + n /\ u + n < c
    BY <1>0, <1>1, <1>2, <1>4 DEF u
  <2>2. ranges[after.range].count = c
    BY <2>1 DEF c
  <2>3. CASE st.range = 1
    BY <1>2, <2>1, <2>3, <2>2, <1>0 DEF u
  <2>4. CASE st.range = 2
    <3>1. after.range = 2 /\ N + n = one + after.used /\ after.used \in Nat
      <4>1. N = one + u /\ one \in Nat /\ u \in Nat
        BY <1>2, <2>4 DEF u, one
      <4> QED BY <2>1, <2>4, <4>1
    <3>2. after.range \in 1 .. Len(ranges) + 1 /\ after.range <= Len(ranges)
      BY <1>2, <2>4, <3>1
    <3>3. after.used < ranges[after.range].count
      BY <2>1, <2>2
    <3> QED BY <1>0, <3>1, <3>2, <3>3
  <2> QED BY <1>2, <2>3, <2>4
<1> QED BY <1>3, <1>4

LEMMA OffsetIs ==
    ASSUME NEW heap, NEW o \in Nat, NEW k \in Nat
    PROVE  heap # NoHeap => PagesOn(Page(heap, o * PageBytes), k) = Page(heap, (o + k) * PageBytes)
BY PageBytesAssumption DEF PagesOn, Page

\* The k pages after N are what a range is used for with some used before.
RangeFor(heap, range, used, pages, N, k) ==
    LET page == RangePage(heap, range, used) IN
    /\ range.flag = "SKIP" => \A i \in 1 .. k : pages[N + i] = Kept
    /\ range.flag # "SKIP" => page \in PageOf(Heaps)
                              /\ PagesFrom(pages, N, k, page, range.flag = "REUSE_SINGLE_TILE")

\* The next k pages, when the range has as many.
LEMMA PiecePages ==
    ASSUME NEW heap, NEW ranges, AreRanges(heap, ranges), NEW pages, RangesGive(heap, ranges, pages),
           NEW st, NEW N \in Nat, AtPage(ranges, st, N), st.range <= Len(ranges),
           NEW k \in Nat, st.used + k <= ranges[st.range].count,
           (ranges[st.range].offset + st.used) * PageBytes <= UINT_MAX
    PROVE  RangeFor(heap, ranges[st.range], st.used, pages, N, k)
<1> DEFINE range == ranges[st.range]
           u == st.used
           page == RangePage(heap, range, u)
<1> SUFFICES /\ range.flag = "SKIP" => \A i \in 1 .. k : pages[N + i] = Kept
             /\ range.flag # "SKIP" =>
                   /\ page \in PageOf(Heaps)
                   /\ \A i \in 1 .. k : pages[N + i] = PageNth(page, i - 1, range.flag = "REUSE_SINGLE_TILE")
  BY DEF RangeFor, PagesFrom
<1>1. /\ Len(ranges) \in 1 .. 2 /\ st.range \in 1 .. Len(ranges) /\ u \in Nat
      /\ range.count \in Nat \ {0} /\ range.offset \in Nat
      /\ range.flag \in {"NONE", "NULL", "SKIP", "REUSE_SINGLE_TILE"}
      /\ heap \in Heaps /\ heap # NoHeap /\ PageBytes \in Nat \ {0} /\ UINT_MAX \in Nat
  <2>1. /\ Len(ranges) \in 1 .. 2 /\ st.range \in 1 .. Len(ranges) /\ u \in Nat /\ heap \in Heaps
        /\ \A r \in 1 .. Len(ranges) :
              /\ ranges[r].count \in Nat \ {0} /\ ranges[r].offset \in Nat
              /\ ranges[r].flag \in {"NONE", "NULL", "SKIP", "REUSE_SINGLE_TILE"}
    BY DEF AreRanges, AtPage
  <2>2. heap # NoHeap
    BY <2>1, SparseBindingsAssumption
  <2> QED BY <2>1, <2>2, PageBytesAssumption, PageTableAssumption
<1>2. ASSUME NEW i \in 1 .. k PROVE pages[N + i] = RangePages(heap, range)[u + i] /\ u + i \in 1 .. range.count
  <2>1. u + i \in 1 .. range.count
    <3>1. u + k <= range.count
      OBVIOUS
    <3> HIDE DEF u, range
    <3> QED BY <1>1, <3>1
  <2>2. CASE st.range = 1
    BY <2>2, <2>1 DEF AtPage, RangesGive
  <2>3. CASE st.range = 2
    <3>1. N = ranges[1].count + u /\ Len(ranges) = 2
      BY <1>1, <2>3 DEF AtPage
    <3>2. ranges[1].count \in Nat
      BY <1>1 DEF AreRanges
    <3>3. N + i = ranges[1].count + (u + i)
      BY <1>1, <3>1, <3>2
    <3>4. pages[ranges[1].count + (u + i)] = RangePages(heap, ranges[2])[u + i]
      BY <2>1, <2>3, <3>1 DEF RangesGive
    <3> QED BY <2>1, <2>3, <3>3, <3>4
  <2> QED BY <1>1, <2>2, <2>3
<1>3. ASSUME NEW i \in 1 .. k
      PROVE  pages[N + i] = CASE range.flag = "NULL" -> NoPage
                              [] range.flag = "SKIP" -> Kept
                              [] range.flag = "REUSE_SINGLE_TILE" -> Page(heap, range.offset * PageBytes)
                              [] OTHER -> Page(heap, (range.offset + (u + i) - 1) * PageBytes)
  BY <1>2 DEF RangePages
<1> DEFINE o == range.offset
<1>11. o \in Nat
  BY <1>1
<1>4. /\ (o + u) * PageBytes \in 0 .. UINT_MAX /\ o * PageBytes \in 0 .. UINT_MAX
  <2>1. (o + u) * PageBytes <= UINT_MAX
    OBVIOUS
  <2> HIDE DEF o, u
  <2>2. o \in Nat /\ u \in Nat /\ UINT_MAX \in Nat /\ PageBytes \in Nat
    BY <1>1, <1>11
  <2> QED BY <2>1, <2>2, PartOfBytes
<1>5. \A x \in 0 .. UINT_MAX : x % (UINT_MAX + 1) = x
  <2> TAKE x \in 0 .. UINT_MAX
  <2> DEFINE m == UINT_MAX + 1
  <2>1. x \in Nat /\ m \in Nat \ {0} /\ x < m
    BY <1>1
  <2> HIDE DEF m
  <2> QED BY <2>1 DEF m
<1>6. CASE range.flag = "SKIP"
  BY <1>3, <1>6
<1>7. CASE range.flag = "NULL"
  BY <1>7, NoPageIs, <1>3 DEF RangePage, NoPage, Page, PageOf, PageNth, PagesOn
<1>8. CASE range.flag = "REUSE_SINGLE_TILE"
  <2>1. page = Page(heap, ((o + 0) * PageBytes) % (UINT_MAX + 1))
    BY <1>8 DEF RangePage
  <2>2. (o + 0) * PageBytes = o * PageBytes
    BY <1>1
  <2>3. page = Page(heap, o * PageBytes)
    BY <1>4, <1>5, <2>1, <2>2
  <2>4. page \in PageOf(Heaps)
    BY <1>1, <1>4, <2>3 DEF Page, PageOf
  <2>5. \A i \in 1 .. k : pages[N + i] = Page(heap, o * PageBytes)
    BY <1>3, <1>8
  <2> HIDE DEF page
  <2> QED BY <1>8, <2>3, <2>4, <2>5 DEF PageNth, page
<1>9. CASE range.flag = "NONE"
  <2>1. page = Page(heap, ((o + u) * PageBytes) % (UINT_MAX + 1))
    BY <1>9 DEF RangePage
  <2>2. page = Page(heap, (o + u) * PageBytes)
    BY <1>4, <1>5, <2>1
  <2>3. page \in PageOf(Heaps)
    BY <1>1, <1>4, <2>2 DEF Page, PageOf
  <2>4. ASSUME NEW i \in 1 .. k PROVE pages[N + i] = PageNth(page, i - 1, FALSE)
    <3>1. pages[N + i] = Page(heap, (o + (u + i) - 1) * PageBytes)
      BY <1>3, <1>9
    <3>2. o + (u + i) - 1 = (o + u) + (i - 1) /\ o + u \in Nat /\ i - 1 \in Nat
      <4> HIDE DEF o, u
      <4> QED BY <1>1, <1>11
    <3>3. PagesOn(Page(heap, (o + u) * PageBytes), i - 1) = Page(heap, ((o + u) + (i - 1)) * PageBytes)
      BY <1>1, <3>2, OffsetIs
    <3> QED BY <2>2, <3>1, <3>2, <3>3 DEF PageNth
  <2> HIDE DEF page
  <2> QED BY <1>9, <2>3, <2>4 DEF page
<1> QED BY <1>1, <1>6, <1>7, <1>8, <1>9

\* The states of a loop, the n-th in S[n].
LoopIn(f, N, S, base, step) ==
    /\ f = [n \in 0 .. N |-> IF n = 0 THEN base ELSE step[n][f[n - 1]]]
    /\ \A n \in 0 .. N : f[n] \in S[n]

LEMMA LoopIs ==
    ASSUME NEW N \in Nat, NEW S, NEW step, NEW base \in S[0],
           \A n \in 1 .. N : \A x \in S[n - 1] : step[n][x] \in S[n]
    PROVE  \E f : LoopIn(f, N, S, base, step)
<1> DEFINE U == UNION {S[n] : n \in 0 .. N}
           good(n, x) == IF x \in S[n - 1] THEN step[n][x] ELSE base
           total == [n \in 1 .. N |-> [x \in U |-> good(n, x)]]
<1>1. base \in U /\ \A n \in 0 .. N : \A x \in S[n] : x \in U
  OBVIOUS
<1>2. total \in [1 .. N -> [U -> U]]
  <2>1. ASSUME NEW n \in 1 .. N, NEW x \in U PROVE good(n, x) \in U
    BY <1>1
  <2> HIDE DEF U, good
  <2> QED BY <2>1
<1>3. \A n \in 1 .. N : \A x \in U : total[n][x] = good(n, x)
  OBVIOUS
<1> HIDE DEF total, U
<1>4. PICK f : Iterated(f, U, base, N, total)
  BY <1>1, <1>2, Iterating
<1>5. f \in [0 .. N -> U] /\ f[0] = base /\ \A n \in 1 .. N : f[n] = total[n][f[n - 1]]
  BY <1>4 DEF Iterated
<1>6. ASSUME NEW n \in 1 .. N PROVE f[n - 1] \in U /\ f[n] = good(n, f[n - 1])
  BY <1>5, <1>3
<1> DEFINE T == {n \in 0 .. N : f[n] \in S[n]}
<1>7. \A n \in 0 .. N : n \in T
  <2>1. 0 \in T
    BY <1>5
  <2>2. ASSUME NEW n \in 1 .. N, n - 1 \in T PROVE n \in T
    BY <2>2, <1>6
  <2> HIDE DEF T
  <2> QED BY <2>1, <2>2, Counting
<1>8. \A n \in 0 .. N : f[n] = IF n = 0 THEN base ELSE step[n][f[n - 1]]
  <2> TAKE n \in 0 .. N
  <2>1. CASE n = 0
    BY <1>5, <2>1
  <2>2. CASE n # 0
    BY <2>2, <1>7, <1>6
  <2> QED BY <2>1, <2>2
<1>9. f = [n \in 0 .. N |-> IF n = 0 THEN base ELSE step[n][f[n - 1]]]
  BY <1>5, <1>8
<1> QED BY <1>7, <1>9 DEF LoopIn

-----------------------------------------------------------------------------
(* UpdateTileMappings: boxes of tiles.                                     *)

RegionLoops == [table : [Subs \cup Tails -> AllMappings], range : Nat, used : Nat]

\* Of the ranges of a call on a resource whose pages are bound to b.
IsCall(heap, ranges, b, pages) ==
    /\ Known /\ b \in [UsedTiles -> PageOf(Heaps)]
    /\ AreRanges(heap, ranges) /\ RangesGive(heap, ranges, pages)
    /\ \A r \in 1 .. Len(ranges) : (ranges[r].offset + ranges[r].count) * PageBytes <= UINT_MAX

\* The loop has bound the first N tiles.
UpdateRight(ranges, b, to, pages, st, N) ==
    /\ st \in RegionLoops /\ TableRight(st.table, BoundUpto(b, N, to, pages)) /\ AtPage(ranges, st, N)

LEMMA NearPages ==
    ASSUME NEW heap, NEW ranges, NEW b, NEW pages, IsCall(heap, ranges, b, pages),
           NEW st, NEW N, AtPage(ranges, st, N), st.range <= Len(ranges)
    PROVE  (ranges[st.range].offset + st.used) * PageBytes <= UINT_MAX
<1> DEFINE o == ranges[st.range].offset
           c == ranges[st.range].count
           u == st.used
<1>1. /\ st.range \in 1 .. Len(ranges) /\ o \in Nat /\ c \in Nat /\ u \in Nat /\ u < c
      /\ PageBytes \in Nat /\ UINT_MAX \in Nat
  <2>1. Len(ranges) \in 1 .. 2 /\ st.range \in 1 .. Len(ranges) + 1 /\ u \in Nat /\ u < c
    BY DEF AtPage, IsCall, AreRanges
  <2>2. st.range \in 1 .. Len(ranges)
    BY <2>1
  <2>3. o \in Nat /\ c \in Nat
    BY <2>2 DEF IsCall, AreRanges
  <2> QED BY <2>1, <2>2, <2>3, PageBytesAssumption, PageTableAssumption
<1>2. (o + c) * PageBytes <= UINT_MAX
  BY <1>1 DEF IsCall
<1> HIDE DEF o, c, u
<1>3. \E more \in Nat : o + c = (o + u) + more
  BY <1>1
<1>4. PICK more \in Nat : o + c = (o + u) + more
  BY <1>3
<1>5. ASSUME NEW x \in Nat, NEW y \in Nat PROVE x * PageBytes <= (x + y) * PageBytes
  BY <1>1
<1>6. o + u \in Nat
  BY <1>1
<1>7. (o + u) * PageBytes <= (o + c) * PageBytes /\ (o + u) * PageBytes \in Nat /\ (o + c) * PageBytes \in Nat
  BY <1>5, <1>6, <1>1, <1>4
<1> QED BY <1>1, <1>2, <1>7 DEF o, u

LEMMA TexelsAre ==
    ASSUME Known, NEW size, size[1] \in Nat, size[2] \in Nat, NEW d \in 1 .. 2
    PROVE  (Texels(size)[d] + layout.texels[d] - 1) \div layout.texels[d] = size[d]
<1> DEFINE t == layout.texels[d]
           s == size[d]
<1>1. t \in Nat \ {0} /\ s \in Nat
  BY LayoutIs
<1>2. Texels(size)[d] = s * t
  BY DEF Texels
<1> HIDE DEF t, s
<1>3. (s * t + (t - 1)) \div t = s
  BY <1>1, DivisionIs
<1>4. s * t + t - 1 = s * t + (t - 1)
  BY <1>1
<1> QED BY <1>2, <1>3, <1>4 DEF t, s

LEMMA RegionLoopIs ==
    ASSUME NEW st \in RegionLoops, NEW t, IsTable(t)
    PROVE  /\ [st EXCEPT !.table = t] \in RegionLoops
           /\ [st EXCEPT !.table = t].table = t
           /\ [st EXCEPT !.table = t].range = st.range
           /\ [st EXCEPT !.table = t].used = st.used
BY TableType DEF RegionLoops

LEMMA ConsumeType ==
    ASSUME NEW st \in RegionLoops, NEW ranges, NEW n \in Nat
    PROVE  Consume(ranges, st, n) \in RegionLoops /\ Consume(ranges, st, n).table = st.table
<1>1. st = [table |-> st.table, range |-> st.range, used |-> st.used]
      /\ st.table \in [Subs \cup Tails -> AllMappings] /\ st.range \in Nat /\ st.used \in Nat
  BY DEF RegionLoops
<1>2. CASE st.used + n >= ranges[st.range].count
  <2>1. Consume(ranges, st, n) = [table |-> st.table, range |-> st.range + 1, used |-> 0]
    BY <1>1, <1>2 DEF Consume
  <2>2. st.range + 1 \in Nat
    BY <1>1
  <2> QED BY <1>1, <2>1, <2>2 DEF RegionLoops
<1>3. CASE ~(st.used + n >= ranges[st.range].count)
  BY <1>1, <1>3 DEF Consume, RegionLoops
<1> QED BY <1>2, <1>3

\* After a piece of n tiles, in a range that has as many left.
LEMMA PieceDone ==
    ASSUME NEW heap, NEW ranges, NEW b, NEW to, NEW pages, IsCall(heap, ranges, b, pages),
           NEW st, NEW N \in Nat, UpdateRight(ranges, b, to, pages, st, N), st.range <= Len(ranges),
           NEW n \in Nat \ {0}, st.used + n <= ranges[st.range].count,
           NEW after \in RegionLoops, after.range = st.range, after.used = st.used,
           IsPiece(N, n, to, pages), PieceSet(st.table, after.table, N, n, to, pages)
    PROVE  UpdateRight(ranges, b, to, pages, Consume(ranges, after, n), N + n)
<1>1. Known /\ b \in [UsedTiles -> PageOf(Heaps)] /\ AreRanges(heap, ranges) /\ N + n \in Nat
  BY DEF IsCall
<1>2. TableRight(st.table, BoundUpto(b, N, to, pages)) /\ AtPage(ranges, st, N)
  BY DEF UpdateRight
<1>3. TableRight(after.table, BoundUpto(b, N + n, to, pages))
  BY <1>1, <1>2, PieceBinds
<1>4. AtPage(ranges, after, N)
  BY <1>2 DEF AtPage
<1>5. AtPage(ranges, Consume(ranges, after, n), N + n)
  BY <1>1, <1>4, ConsumeIs DEF RegionLoops
<1>6. Consume(ranges, after, n) \in RegionLoops /\ Consume(ranges, after, n).table = after.table
  BY ConsumeType
<1> QED BY <1>3, <1>5, <1>6 DEF UpdateRight

LEMMA SetBoxIs ==
    ASSUME NEW heap, NEW ranges, NEW b, NEW to, NEW pages, IsCall(heap, ranges, b, pages),
           NEW st, NEW N \in Nat, UpdateRight(ranges, b, to, pages, st, N), st.range <= Len(ranges),
           NEW g, g.sub \in 0 .. layout.subs - 1, NEW coord, NEW size,
           Fits(coord, size, calcSubresourcePageDim(g.sub)), IsPair(size),
           NEW n, n = size[1] * size[2], st.used + n <= ranges[st.range].count,
           BoxTo(to, N, g.sub, coord, size)
    PROVE  UpdateRight(ranges, b, to, pages, SetBox(heap, ranges, st, g, coord, size, n), N + n)
<1> DEFINE range == ranges[st.range]
           reused == range.flag = "REUSE_SINGLE_TILE"
           page == RangePage(heap, range, st.used)
           sub == g.sub
           dim == calcSubresourcePageDim(sub)
           set == setImageBoxRange(st.table, sub, Texels(coord), Texels(size), page, reused)
           after == IF range.flag = "SKIP" THEN st ELSE [st EXCEPT !.table = set]
<1>1. SetBox(heap, ranges, st, g, coord, size, n) = Consume(ranges, after, n)
  BY DEF SetBox
<1>2. /\ Known /\ st \in RegionLoops /\ IsTable(st.table) /\ reused \in BOOLEAN /\ sub \in 0 .. layout.subs - 1
      /\ AreRanges(heap, ranges) /\ RangesGive(heap, ranges, pages) /\ AtPage(ranges, st, N)
  BY DEF IsCall, UpdateRight, TableRight
<1>3. n \in Nat \ {0} /\ size[1] \in Nat /\ size[2] \in Nat
  BY BoxIs DEF Fits
<1>4. /\ range.flag = "SKIP" => \A i \in 1 .. n : pages[N + i] = Kept
      /\ range.flag # "SKIP" => page \in PageOf(Heaps) /\ PagesFrom(pages, N, n, page, reused)
  <2>1. (ranges[st.range].offset + st.used) * PageBytes <= UINT_MAX
    BY <1>2, NearPages
  <2>2. RangeFor(heap, ranges[st.range], st.used, pages, N, n)
    BY <1>3, <1>2, <2>1, PiecePages
  <2> QED BY <2>2 DEF RangeFor
<1>5. CASE range.flag = "SKIP"
  BY <1>5, <1>2, <1>3, <1>4, KeptPiece, PieceDone, <1>1
<1>6. CASE range.flag # "SKIP"
  <2>1. after = [st EXCEPT !.table = set]
    BY <1>6
  <2>2. page \in PageOf(Heaps) /\ PagesFrom(pages, N, n, page, reused)
    BY <1>4, <1>6
  <2>3. BoxTo(to, N, sub, coord, size)
    OBVIOUS
  <2>4. Fits(coord, size, calcSubresourcePageDim(sub))
    OBVIOUS
  <2>5. st.used + n <= ranges[st.range].count
    OBVIOUS
  <2> HIDE DEF page, reused, range, sub
  <2>6. BoxBound(st.table, set, sub, coord, size, page, reused)
    BY <1>2, <1>3, TexelsAre, <2>2, <2>4, ImageBoxIs
  <2>7. IsPiece(N, n, to, pages) /\ PieceSet(st.table, set, N, n, to, pages)
    <3> DEFINE table == st.table
    <3>1. IsTable(table) /\ BoxBound(table, set, sub, coord, size, page, reused)
      BY <1>2, <2>6
    <3> HIDE DEF set, table
    <3>3. IsPiece(N, n, to, pages) /\ PieceSet(table, set, N, n, to, pages)
      BY <1>2, <2>2, <2>3, <2>4, <3>1, BoxPiece
    <3> QED BY <3>3 DEF table
  <2>8. IsTable(set)
    BY <2>6 DEF BoxBound
  <2> HIDE DEF set, after
  <2>9. after \in RegionLoops /\ after.table = set /\ after.range = st.range /\ after.used = st.used
    BY <1>2, <2>1, <2>8, RegionLoopIs
  <2>10. PieceSet(st.table, after.table, N, n, to, pages)
    BY <2>7, <2>9
  <2>11. UpdateRight(ranges, b, to, pages, Consume(ranges, after, n), N + n)
    BY <1>2, <1>3, <2>5, <2>7, <2>9, <2>10, PieceDone
  <2> QED BY <1>1, <2>11 DEF after
<1> QED BY <1>5, <1>6

PagesIn(ranges) == ranges[1].count + IF Len(ranges) = 1 THEN 0 ELSE ranges[2].count

LEMMA InRanges ==
    ASSUME NEW heap, NEW ranges, AreRanges(heap, ranges), NEW st, NEW N \in Nat, AtPage(ranges, st, N)
    PROVE  /\ N < PagesIn(ranges) => st.range <= Len(ranges)
           /\ st.range <= Len(ranges) => st.used + 1 <= ranges[st.range].count
<1>1. /\ Len(ranges) \in 1 .. 2 /\ st.range \in 1 .. Len(ranges) + 1 /\ st.used \in Nat
      /\ ranges[1].count \in Nat /\ (Len(ranges) = 2 => ranges[2].count \in Nat)
      /\ st.range = 2 => N = ranges[1].count + st.used
      /\ st.range = 3 => N = ranges[1].count + ranges[2].count
      /\ st.range <= Len(ranges) => st.used < ranges[st.range].count
      /\ st.range > Len(ranges) => st.used = 0
  BY DEF AreRanges, AtPage
<1>2. ASSUME N < PagesIn(ranges), st.range > Len(ranges) PROVE FALSE
  <2>1. st.range = Len(ranges) + 1 /\ st.used = 0
    BY <1>1, <1>2
  <2>2. CASE Len(ranges) = 1
    BY <1>1, <2>1, <2>2, <1>2 DEF PagesIn
  <2>3. CASE Len(ranges) = 2
    BY <1>1, <2>1, <2>3, <1>2 DEF PagesIn
  <2> QED BY <1>1, <2>2, <2>3
<1>3. ASSUME st.range <= Len(ranges) PROVE st.used + 1 <= ranges[st.range].count
  <2>1. ranges[st.range].count \in Nat
    BY <1>1, <1>3 DEF AreRanges
  <2> QED BY <1>1, <1>3, <2>1
<1> QED BY <1>1, <1>2, <1>3

\* Tile n of a box, as a box.
CoordOf(g, n) == <<g.coord[1] + ((n - 1) % g.size[1]), g.coord[2] + ((n - 1) \div g.size[1])>>

LEMMA OneTile ==
    ASSUME NEW g, NEW dim, Fits(g.coord, g.size, dim), NEW n \in 1 .. g.size[1] * g.size[2]
    PROVE  /\ Fits(CoordOf(g, n), <<1, 1>>, dim) /\ IsPair(<<1, 1>>)
           /\ BoxPages(CoordOf(g, n), <<1, 1>>, dim)[0] = BoxPages(g.coord, g.size, dim)[n - 1]
<1> DEFINE w == g.size[1]
           h == g.size[2]
           m == n - 1
<1>1. /\ dim[1] \in Nat \ {0} /\ dim[2] \in Nat \ {0} /\ g.coord[1] \in Nat /\ g.coord[2] \in Nat
      /\ w \in Nat \ {0} /\ h \in Nat \ {0} /\ g.coord[1] + w <= dim[1] /\ g.coord[2] + h <= dim[2]
  BY DEF Fits
<1>2. w * h \in Nat \ {0} /\ m \in 0 .. w * h - 1
  BY <1>1, BoxIs
<1> DEFINE x == m % w
           y == m \div w
<1>3. x \in 0 .. w - 1 /\ y \in Nat /\ m = y * w + x
  BY <1>1, <1>2
<1>4. y < h
  <2> HIDE DEF w, h, m, x, y
  <2> SUFFICES ASSUME y >= h PROVE FALSE
    BY <1>1, <1>3
  <2>1. PICK more \in Nat : y = h + more
    BY <1>1, <1>3
  <2>2. y * w = w * h + more * w /\ more * w \in Nat
    BY <1>1, <2>1
  <2> QED BY <1>1, <1>2, <1>3, <2>2
<1>5. CoordOf(g, n) = <<g.coord[1] + x, g.coord[2] + y>>
  BY DEF CoordOf
<1>6. Fits(CoordOf(g, n), <<1, 1>>, dim)
  <2>1. CoordOf(g, n)[1] = g.coord[1] + x /\ CoordOf(g, n)[2] = g.coord[2] + y
    BY <1>5
  <2>2. <<1, 1>>[1] = 1 /\ <<1, 1>>[2] = 1
    OBVIOUS
  <2> HIDE DEF x, y, w, h
  <2>3. g.coord[1] + x \in Nat /\ g.coord[2] + y \in Nat /\ g.coord[1] + x + 1 <= dim[1] /\ g.coord[2] + y + 1 <= dim[2]
    BY <1>1, <1>3, <1>4
  <2> QED BY <1>1, <2>1, <2>2, <2>3 DEF Fits
<1>7. BoxPages(g.coord, g.size, dim)[m] = PageAt(<<g.coord[1] + x, g.coord[2] + y>>, dim)
  BY <1>2 DEF BoxPages
<1>8. BoxPages(CoordOf(g, n), <<1, 1>>, dim)[0] = PageAt(<<g.coord[1] + x, g.coord[2] + y>>, dim)
  <2> DEFINE c == CoordOf(g, n)
  <2>1. c[1] = g.coord[1] + x /\ c[2] = g.coord[2] + y
    BY <1>5
  <2> HIDE DEF c, x, y
  <2>2. 0 \in 0 .. 1 * 1 - 1 /\ 0 % 1 = 0 /\ 0 \div 1 = 0 /\ <<1, 1>>[1] = 1 /\ <<1, 1>>[2] = 1
    OBVIOUS
  <2>3. BoxPages(c, <<1, 1>>, dim)[0] = PageAt(<<c[1] + 0, c[2] + 0>>, dim)
    BY <2>2 DEF BoxPages
  <2>4. c[1] + 0 = c[1] /\ c[2] + 0 = c[2]
    BY <1>1, <1>3, <2>1
  <2> QED BY <2>1, <2>3, <2>4 DEF c
<1>9. IsPair(<<1, 1>>)
  BY DEF IsPair
<1> QED BY <1>6, <1>7, <1>8, <1>9

\* A box of a subresource.
IsBox(g) ==
    /\ g.box /\ g.sub \in 0 .. layout.subs - 1 /\ g.n = g.size[1] * g.size[2]
    /\ Fits(g.coord, g.size, calcSubresourcePageDim(g.sub)) /\ IsPair(g.size)

LEMMA UpdateBoxIs ==
    ASSUME NEW heap, NEW ranges, NEW b, NEW to, NEW pages, IsCall(heap, ranges, b, pages),
           NEW st, NEW N \in Nat, UpdateRight(ranges, b, to, pages, st, N),
           NEW g, IsBox(g), N + g.n <= PagesIn(ranges), BoxTo(to, N, g.sub, g.coord, g.size),
           g.n <= ranges[st.range].count => st.used + g.n <= ranges[st.range].count
    PROVE  UpdateRight(ranges, b, to, pages, UpdateBox(heap, ranges, st, g), N + g.n)
<1> DEFINE n == g.n
           dim == calcSubresourcePageDim(g.sub)
           right(x, m) == UpdateRight(ranges, b, to, pages, x, m)
<1>1. /\ n \in Nat \ {0} /\ n = g.size[1] * g.size[2] /\ Fits(g.coord, g.size, dim) /\ IsPair(g.size)
      /\ g.sub \in 0 .. layout.subs - 1
  BY BoxIs DEF IsBox
<1>2. AreRanges(heap, ranges) /\ PagesIn(ranges) \in Nat /\ N + n <= PagesIn(ranges)
  BY DEF IsCall, AreRanges, PagesIn
<1>3. CASE n <= ranges[st.range].count
  <2>1. UpdateBox(heap, ranges, st, g) = SetBox(heap, ranges, st, g, g.coord, g.size, n)
    BY <1>3 DEF UpdateBox
  <2>2. st.range <= Len(ranges)
    BY <1>1, <1>2, InRanges DEF UpdateRight
  <2>3. st.used + n <= ranges[st.range].count
    BY <1>3
  <2> HIDE DEF n
  <2>4. right(SetBox(heap, ranges, st, g, g.coord, g.size, n), N + n)
    BY <1>1, <2>2, <2>3, SetBoxIs
  <2> QED BY <2>1, <2>4 DEF n
<1>4. CASE ~(n <= ranges[st.range].count)
  <2> DEFINE set(x, m) == SetBox(heap, ranges, x, g, CoordOf(g, m), <<1, 1>>, 1)
             eq(f) == f = [m \in 0 .. n |-> IF m = 0 THEN st ELSE set(f[m - 1], m)]
             after == CHOOSE f : eq(f)
             S == [m \in 0 .. n |-> {x \in RegionLoops : right(x, N + m)}]
             step == [m \in 1 .. n |-> [x \in S[m - 1] |-> set(x, m)]]
  <2>1. UpdateBox(heap, ranges, st, g) = after[n]
    BY <1>4 DEF UpdateBox, CoordOf
  <2>2. ASSUME NEW m \in 1 .. n, NEW x, right(x, N + (m - 1)) PROVE right(set(x, m), N + m)
    <3> DEFINE M == N + (m - 1)
               c == CoordOf(g, m)
    <3>1. M \in Nat /\ M + 1 = N + m /\ M < PagesIn(ranges)
      BY <1>1, <1>2
    <3>2. AtPage(ranges, x, M)
      BY <2>2 DEF UpdateRight
    <3>3. x.range <= Len(ranges) /\ x.used + 1 <= ranges[x.range].count
      BY <1>2, <3>1, <3>2, InRanges
    <3>4. Fits(c, <<1, 1>>, dim) /\ IsPair(<<1, 1>>) /\ BoxPages(c, <<1, 1>>, dim)[0] = BoxPages(g.coord, g.size, dim)[m - 1]
      BY <1>1, OneTile
    <3>5. BoxTo(to, M, g.sub, c, <<1, 1>>)
      BY <1>1, <3>1, <3>4 DEF BoxTo
    <3>6. 1 = <<1, 1>>[1] * <<1, 1>>[2]
      OBVIOUS
    <3> HIDE DEF M, c
    <3>7. right(SetBox(heap, ranges, x, g, c, <<1, 1>>, 1), M + 1)
      BY <2>2, <3>4, <3>5, <3>6, <1>1, <3>1, <3>3, SetBoxIs DEF M
    <3> QED BY <3>1, <3>7 DEF c
  <2>3. right(st, N + 0) /\ st \in RegionLoops
    BY DEF UpdateRight
  <2>4. \A m \in 0 .. n : \A x : x \in S[m] <=> x \in RegionLoops /\ right(x, N + m)
    OBVIOUS
  <2>5. \A x, m : right(x, m) => x \in RegionLoops
    BY DEF UpdateRight
  <2> HIDE DEF right, set
  <2>6. ASSUME NEW m \in 1 .. n, NEW x \in S[m - 1] PROVE set(x, m) \in S[m] /\ step[m][x] = set(x, m)
    BY <1>1, <2>4, <2>2, <2>5
  <2>7. st \in S[0] /\ 0 \in 0 .. n /\ n \in Nat
    BY <1>1, <2>3, <2>4
  <2> HIDE DEF S, step
  <2>8. \E f : eq(f)
    <3>1. PICK f : LoopIn(f, n, S, st, step)
      BY <2>6, <2>7, LoopIs
    <3>2. ASSUME NEW m \in 0 .. n, m # 0 PROVE step[m][f[m - 1]] = set(f[m - 1], m)
      <4>1. m \in 1 .. n /\ m - 1 \in 0 .. n
        BY <1>1, <3>2
      <4>2. f[m - 1] \in S[m - 1]
        BY <3>1, <4>1 DEF LoopIn
      <4> QED BY <2>6, <4>1, <4>2
    <3>3. [m \in 0 .. n |-> IF m = 0 THEN st ELSE step[m][f[m - 1]]]
          = [m \in 0 .. n |-> IF m = 0 THEN st ELSE set(f[m - 1], m)]
      BY <3>2
    <3>4. f = [m \in 0 .. n |-> IF m = 0 THEN st ELSE set(f[m - 1], m)]
      BY <3>1, <3>3 DEF LoopIn
    <3> QED BY <3>4
  <2>9. eq(after)
    BY <2>8
  <2> HIDE DEF after
  <2>10. after[0] = st /\ \A m \in 1 .. n : after[m] = set(after[m - 1], m)
    BY <1>1, <2>9
  <2> HIDE DEF eq
  <2> DEFINE T == {m \in 0 .. n : after[m] \in S[m]}
  <2>11. \A m \in 0 .. n : m \in T
    <3>1. 0 \in T
      BY <2>7, <2>10
    <3>2. ASSUME NEW m \in 1 .. n, m - 1 \in T PROVE m \in T
      BY <3>2, <2>6, <2>10
    <3> HIDE DEF T
    <3> QED BY <2>7, <3>1, <3>2, Counting
  <2>12. n \in 0 .. n
    BY <1>1
  <2>13. right(after[n], N + n)
    BY <2>4, <2>11, <2>12
  <2> QED BY <2>1, <2>13 DEF right
<1> QED BY <1>3, <1>4

-----------------------------------------------------------------------------
(* UpdateTileMappings: tiles in the order of the API.                      *)

\* Of the resource, whose tiles are in the order of the API.
IsResource(at) ==
    /\ Known /\ TailsApart /\ TailsFit /\ TilesAt(tiles, at) /\ Range(tiles) = UsedTiles

\* A region of tiles from the p-th on.
IsStart(g, at, p) ==
    /\ ~g.box /\ p \in 1 .. Len(tiles) /\ Begins(g.sub) /\ StartsAt(g.sub, Texels(g.coord), p - at[g.sub])

WrapFields == {"table", "range", "used", "sub", "coord", "done"}

\* The loop has bound d tiles of the region.
WrapRight(ranges, b, to, pages, g, at, p, N, x, d) ==
    /\ DOMAIN x = WrapFields /\ x.done = d /\ d \in 0 .. g.n
    /\ UpdateRight(ranges, b, to, pages, RangesLeft(x), N + d)
    /\ d < g.n => Begins(x.sub) /\ StartsAt(x.sub, x.coord, (p + d) - at[x.sub])

\* From x to y in an iteration that binds k tiles, with what the call for them returns.
WentOn(ranges, x, k, set, y) ==
    /\ DOMAIN y = WrapFields /\ y.sub = set.sub /\ y.coord = set.coord /\ y.done = x.done + k
    /\ RangesLeft(y) = Consume(ranges, [RangesLeft(x) EXCEPT !.table = set.table], k)

LEMMA GoOnFields ==
    ASSUME NEW heap, NEW ranges, NEW x, DOMAIN x = WrapFields, NEW k
    PROVE  WentOn(ranges, x, k, SetNextTiles(heap, ranges[x.range], x, k), UpdateTiles(heap, ranges, x, k))
<1> DEFINE set == SetNextTiles(heap, ranges[x.range], x, k)
           c == Consume(ranges, x, k)
           y == UpdateTiles(heap, ranges, x, k)
           z == [RangesLeft(x) EXCEPT !.table = set.table]
<1>1. y = [c EXCEPT !.table = set.table, !.sub = set.sub, !.coord = set.coord, !.done = @ + k]
  BY DEF UpdateTiles, GoOn
<1>2. /\ DOMAIN c = WrapFields /\ c.done = x.done
      /\ IF x.used + k >= ranges[x.range].count THEN c.range = x.range + 1 /\ c.used = 0
         ELSE c.range = x.range /\ c.used = x.used + k
  BY ConsumeKeeps DEF WrapFields, UsedMore
<1> HIDE DEF c, set
<1>3. /\ DOMAIN y = WrapFields /\ y.table = set.table /\ y.sub = set.sub /\ y.coord = set.coord
      /\ y.done = x.done + k /\ y.range = c.range /\ y.used = c.used
  BY <1>1, <1>2 DEF WrapFields
<1>4. z = [table |-> set.table, range |-> x.range, used |-> x.used]
  BY DEF RangesLeft
<1> HIDE DEF y, z
<1>5. RangesLeft(y) = [table |-> set.table, range |-> c.range, used |-> c.used]
  BY <1>3 DEF RangesLeft
<1>6. Consume(ranges, z, k) = [table |-> set.table, range |-> c.range, used |-> c.used]
  BY <1>2, <1>4 DEF Consume
<1>7. WentOn(ranges, x, k, set, y)
  BY <1>3, <1>5, <1>6 DEF WentOn, y, z
<1> QED BY <1>7 DEF y, set

LEMMA RangePageType ==
    ASSUME NEW heap, NEW ranges, AreRanges(heap, ranges), NEW r \in 1 .. Len(ranges), NEW used \in Nat
    PROVE  RangePage(heap, ranges[r], used) \in PageOf(Heaps)
<1> DEFINE range == ranges[r]
           n == range.offset + (IF range.flag = "REUSE_SINGLE_TILE" THEN 0 ELSE used)
           m == UINT_MAX + 1
<1>1. range.offset \in Nat /\ heap \in Heaps /\ PageBytes \in Nat /\ m \in Nat \ {0}
  BY PageBytesAssumption, PageTableAssumption DEF AreRanges
<1>2. n \in Nat
  BY <1>1
<1>3. (n * PageBytes) % m \in Nat
  <2>1. n * PageBytes \in Nat
    BY <1>1, <1>2
  <2> HIDE DEF m, n
  <2> QED BY <1>1, <2>1
<1>4. RangePage(heap, range, used) = IF range.flag = "NULL" THEN NoPage ELSE Page(heap, (n * PageBytes) % m)
  BY DEF RangePage
<1> HIDE DEF n, m, range
<1>5. Page(heap, (n * PageBytes) % m) \in PageOf(Heaps)
  BY <1>1, <1>3 DEF Page, PageOf
<1>6. NoPage \in PageOf(Heaps)
  BY DEF NoPage, Page, PageOf
<1> QED BY <1>4, <1>5, <1>6 DEF range

LEMMA TilesBelow ==
    ASSUME NEW n \in Nat, NEW k \in 0 .. n, n * PageBytes <= UINT_MAX
    PROVE  k * PageBytes \in Nat /\ (k * PageBytes) % (UINT_MAX + 1) = k * PageBytes
<1>1. PageBytes \in Nat /\ UINT_MAX \in Nat
  BY PageBytesAssumption, PageTableAssumption
<1>2. PICK more \in Nat : n = k + more
  OBVIOUS
<1>3. n * PageBytes = k * PageBytes + more * PageBytes /\ k * PageBytes \in Nat /\ more * PageBytes \in Nat
  BY <1>1, <1>2
<1> DEFINE v == k * PageBytes
           m == UINT_MAX + 1
<1>4. v \in Nat /\ v < m /\ m \in Nat \ {0}
  BY <1>1, <1>3
<1> HIDE DEF v, m
<1>5. v % m = v
  BY <1>4
<1> QED BY <1>4, <1>5 DEF v, m

\* Where the tile after a range is the first of a subresource, the loop is there.
LEMMA EndsAtTile ==
    ASSUME NEW at, IsResource(at), NEW p \in Nat \ {0}, NEW W \in Nat, p + W <= Len(tiles),
           tiles[p + W][2] = 0, NEW sub, NEW coord, Ends(tiles, at, p, W, sub, coord)
    PROVE  Begins(sub) /\ StartsAt(sub, coord, (p + W) - at[sub])
<1> DEFINE q == p + W
<1>1. Known /\ TailsApart /\ TilesAt(tiles, at) /\ Len(tiles) \in Nat
  BY PlacesIn DEF IsResource
<1>2. q \in 1 .. Len(tiles)
  BY <1>1
<1>3. PICK s \in AllSubs : Begins(s) /\ q - at[s] \in 0 .. NumPages(MappingOf(s)) - 1
                           /\ tiles[q] = <<MappingOf(s), q - at[s]>>
  BY <1>1, <1>2, TileIs
<1>4. q - at[s] = 0
  BY <1>3
<1>5. s \in 0 .. NumSubs /\ s # NumSubs /\ at[s] \in Nat
  BY <1>1, PlacesIn
<1>6. at[s] = q
  BY <1>2, <1>4, <1>5
<1>7. sub = s /\ AtStart(coord)
  BY <1>3, <1>5, <1>6 DEF Ends
<1>8. StartsAt(s, coord, 0)
  BY <1>1, <1>7, StartIs
<1> QED BY <1>3, <1>4, <1>7, <1>8

\* A call for the tiles of a region, after N tiles.
IsWrapped(heap, ranges, b, to, pages, g, at, p, N) ==
    /\ IsCall(heap, ranges, b, pages) /\ IsResource(at) /\ IsStart(g, at, p)
    /\ N \in Nat /\ g.n \in Nat \ {0}
    /\ p + g.n <= Len(tiles) + 1 /\ N + g.n <= PagesIn(ranges) /\ SeqTo(to, N, g.n, tiles, p)

\* A call of setImageWrappedRange that ends at the last tile or before.
LEMMA WrappedWithin ==
    ASSUME NEW at, IsResource(at), NEW table, IsTable(table), NEW q \in Nat \ {0}, NEW k \in Nat \ {0},
           q + k <= Len(tiles) + 1, NEW page \in PageOf(Heaps), NEW reused \in BOOLEAN, NEW update \in BOOLEAN,
           NEW sub, Begins(sub), NEW coord, StartsAt(sub, coord, q - at[sub]),
           NEW end, end = setImageWrappedRange(table, sub, coord, k * PageBytes, page, reused, update)
    PROVE  /\ update => TilesBound(table, end.table, tiles, q, k, page, reused)
           /\ ~update => end.table = table
           /\ Ends(tiles, at, q, k, end.sub, end.coord)
<1>1. WrappedCall(table, tiles, at, q, k, page, reused, update)
  BY DEF WrappedCall, IsResource
<1>2. sub \in AllSubs
  BY DEF Begins
<1>3. TilesLeft(tiles, q, k) = k
  BY DEF TilesLeft
<1>4. LET one == setImageWrappedRange(table, sub, coord, k * PageBytes, page, reused, update) IN
      /\ update => TilesBound(table, one.table, tiles, q, TilesLeft(tiles, q, k), page, reused)
      /\ ~update => one.table = table
      /\ q + k <= Len(tiles) + 1 => Ends(tiles, at, q, k, one.sub, one.coord)
  BY <1>1, <1>2, WrappedRangeBindsTiles
<1> QED BY <1>3, <1>4

LEMMA WrapPiece ==
    ASSUME NEW heap, NEW ranges, NEW b, NEW to, NEW pages, NEW g, NEW at, NEW p, NEW N,
           IsWrapped(heap, ranges, b, to, pages, g, at, p, N),
           NEW x, NEW d \in Nat, WrapRight(ranges, b, to, pages, g, at, p, N, x, d), d < g.n,
           NEW k \in Nat \ {0}, d + k <= g.n, x.range <= Len(ranges), x.used + k <= ranges[x.range].count,
           d + k < g.n => tiles[p + d + k][2] = 0
    PROVE  WrapRight(ranges, b, to, pages, g, at, p, N, UpdateTiles(heap, ranges, x, k), d + k)
<1> DEFINE range == ranges[x.range]
           reused == range.flag = "REUSE_SINGLE_TILE"
           update == range.flag # "SKIP"
           page == RangePage(heap, range, x.used)
           set == SetNextTiles(heap, range, x, k)
           y == UpdateTiles(heap, ranges, x, k)
           z == RangesLeft(x)
           q == p + d
           M == N + d
           after == [z EXCEPT !.table = set.table]
<1>1. /\ IsCall(heap, ranges, b, pages) /\ IsResource(at) /\ N \in Nat /\ g.n \in Nat \ {0}
      /\ p + g.n <= Len(tiles) + 1 /\ SeqTo(to, N, g.n, tiles, p)
      /\ p \in 1 .. Len(tiles) /\ Len(tiles) \in Nat /\ Known /\ TailsApart /\ TilesAt(tiles, at) /\ AreRanges(heap, ranges)
      /\ RangesGive(heap, ranges, pages) /\ Range(tiles) = UsedTiles
  BY PlacesIn DEF IsWrapped, IsStart, IsResource, IsCall
<1>2. /\ DOMAIN x = WrapFields /\ x.done = d /\ UpdateRight(ranges, b, to, pages, z, M)
      /\ Begins(x.sub) /\ StartsAt(x.sub, x.coord, q - at[x.sub])
  BY DEF WrapRight
<1>3. z.table = x.table /\ z.range = x.range /\ z.used = x.used
  BY DEF RangesLeft
<1>4. /\ q \in Nat \ {0} /\ M \in Nat /\ q + k <= Len(tiles) + 1 /\ M + k = N + (d + k) /\ d + k \in 0 .. g.n
      /\ q + k = p + (d + k) /\ p + d + k = q + k
  <2> HIDE DEF z, y
  <2> DEFINE len == Len(tiles)
             n == g.n
  <2>1. /\ p \in Nat /\ p >= 1 /\ len \in Nat /\ N \in Nat /\ n \in Nat /\ k \in Nat \ {0}
        /\ p + n <= len + 1 /\ d + k <= n /\ d \in Nat
    BY <1>1
  <2> HIDE DEF len, n
  <2>2. /\ p + d \in Nat \ {0} /\ N + d \in Nat /\ (p + d) + k <= len + 1 /\ (N + d) + k = N + (d + k)
        /\ d + k \in 0 .. n /\ (p + d) + k = p + (d + k) /\ p + d + k = (p + d) + k
    BY <2>1
  <2> QED BY <2>2 DEF len, n
<1> HIDE DEF z, y, M, q
<1>5. z \in RegionLoops /\ AtPage(ranges, z, M) /\ IsTable(x.table) /\ x.range \in 1 .. Len(ranges) /\ x.used \in Nat
  BY <1>2, <1>1, <1>3 DEF UpdateRight, TableRight, AtPage, AreRanges
<1>6. RangeFor(heap, range, x.used, pages, M, k)
  BY <1>1, <1>3, <1>5, NearPages, <1>4, PiecePages
<1>7. page \in PageOf(Heaps) /\ reused \in BOOLEAN /\ update \in BOOLEAN
  BY <1>1, <1>5, RangePageType
<1>8. set = setImageWrappedRange(x.table, x.sub, x.coord, k * PageBytes, page, reused, update)
  <2> DEFINE c == ranges[x.range].count
             o == ranges[x.range].offset
  <2>1. c \in Nat /\ o \in Nat /\ (o + c) * PageBytes <= UINT_MAX /\ k \in Nat /\ x.used + k <= c
    BY <1>1, <1>5 DEF AreRanges, IsCall
  <2> HIDE DEF c, o
  <2>2. k \in 0 .. o + c /\ o + c \in Nat
    BY <1>5, <2>1
  <2> DEFINE n == o + c
  <2>3. n \in Nat /\ k \in 0 .. n /\ n * PageBytes <= UINT_MAX
    BY <2>1, <2>2
  <2> HIDE DEF n
  <2>4. (k * PageBytes) % (UINT_MAX + 1) = k * PageBytes
    BY <2>3, TilesBelow
  <2> QED BY <2>4 DEF SetNextTiles
<1>9. /\ update => RangeFor(heap, range, x.used, pages, M, k) /\ PagesFrom(pages, M, k, page, reused)
      /\ ~update => \A i \in 1 .. k : pages[M + i] = Kept
  BY <1>6 DEF RangeFor
<1>10. set = SetNextTiles(heap, range, x, k) /\ (update <=> range.flag # "SKIP")
  OBVIOUS
<1> HIDE DEF page, reused, update, set
<1>11. /\ update => TilesBound(x.table, set.table, tiles, q, k, page, reused)
       /\ ~update => set.table = x.table
       /\ Ends(tiles, at, q, k, set.sub, set.coord)
  <2> DEFINE table == x.table
             sub == x.sub
             coord == x.coord
  <2>1. IsTable(table) /\ Begins(sub) /\ StartsAt(sub, coord, q - at[sub])
        /\ set = setImageWrappedRange(table, sub, coord, k * PageBytes, page, reused, update)
    BY <1>2, <1>5, <1>8
  <2> HIDE DEF table, sub, coord
  <2>2. q \in Nat \ {0} /\ q + k <= Len(tiles) + 1 /\ IsResource(at)
    BY <1>1, <1>4
  <2>3. page \in PageOf(Heaps) /\ reused \in BOOLEAN /\ update \in BOOLEAN
    BY <1>7
  <2>4. /\ update => TilesBound(table, set.table, tiles, q, k, page, reused)
        /\ ~update => set.table = table
        /\ Ends(tiles, at, q, k, set.sub, set.coord)
    BY <2>1, <2>2, <2>3, WrappedWithin
  <2> QED BY <2>4 DEF table
<1>12. IsPiece(M, k, to, pages) /\ PieceSet(x.table, set.table, M, k, to, pages)
  <2>1. CASE update
    <3>1. SeqTo(to, M, k, tiles, q)
      <4> SUFFICES ASSUME NEW i \in 1 .. k PROVE to[M + i] = tiles[q + i - 1]
        BY DEF SeqTo
      <4>1. d + i \in 1 .. g.n /\ N + (d + i) = M + i /\ p + (d + i) - 1 = q + i - 1
        BY <1>1 DEF M, q
      <4>2. to[N + (d + i)] = tiles[p + (d + i) - 1]
        BY <1>1, <4>1 DEF SeqTo
      <4> QED BY <4>1, <4>2
    <3>2. PagesFrom(pages, M, k, page, reused) /\ TilesBound(x.table, set.table, tiles, q, k, page, reused)
      BY <1>9, <1>11, <2>1
    <3> QED BY <1>1, <1>4, <1>7, <3>1, <3>2, TilesPiece
  <2>2. CASE ~update
    BY <1>9, <2>2, <1>4, <1>5, KeptPiece, <1>11
  <2> QED BY <1>7, <2>1, <2>2
<1>13. IsTable(set.table)
  BY <1>12 DEF PieceSet
<1>14. after \in RegionLoops /\ after.table = set.table /\ after.range = x.range /\ after.used = x.used
  BY <1>3, <1>5, <1>13, RegionLoopIs
<1>15. UpdateRight(ranges, b, to, pages, Consume(ranges, after, k), M + k)
  BY <1>3, <1>12, <1>14, <1>1, <1>2, <1>4, PieceDone
<1>16. /\ DOMAIN y = WrapFields /\ y.sub = set.sub /\ y.coord = set.coord /\ y.done = d + k
       /\ RangesLeft(y) = Consume(ranges, after, k)
  <2>1. WentOn(ranges, x, k, set, y)
    BY <1>2, <1>10, GoOnFields DEF y
  <2> QED BY <1>2, <2>1 DEF WentOn, z, after
<1>17. d + k < g.n => Begins(y.sub) /\ StartsAt(y.sub, y.coord, (p + (d + k)) - at[y.sub])
  <2> SUFFICES ASSUME d + k < g.n PROVE Begins(y.sub) /\ StartsAt(y.sub, y.coord, (p + (d + k)) - at[y.sub])
    OBVIOUS
  <2>1. q + k <= Len(tiles) /\ tiles[q + k][2] = 0
    <3>1. q + k = p + d + k
      BY <1>4
    <3>2. tiles[p + d + k][2] = 0
      OBVIOUS
    <3>3. q + k <= Len(tiles)
      <4> DEFINE len == Len(tiles)
                 n == g.n
                 done == d + k
      <4> HIDE DEF range, after
      <4>5. p + n <= len + 1 /\ n \in Nat /\ len \in Nat /\ p \in 1 .. len
        BY <1>1
      <4>6. done \in Nat /\ done < n
        OBVIOUS
      <4>1. p + n <= len + 1 /\ done < n /\ p \in Nat /\ n \in Nat /\ done \in Nat /\ len \in Nat
        BY <4>5, <4>6
      <4>2. q + k = p + done
        BY <1>4
      <4> HIDE DEF len, n, done
      <4>3. p + done <= len
        BY <4>1
      <4> QED BY <4>2, <4>3 DEF len
    <3> QED BY <3>1, <3>2, <3>3
  <2>2. Begins(set.sub) /\ StartsAt(set.sub, set.coord, (q + k) - at[set.sub])
    BY <1>1, <1>4, <1>11, <2>1, EndsAtTile
  <2> QED BY <1>4, <1>16, <2>2
<1>18. WrapRight(ranges, b, to, pages, g, at, p, N, y, d + k)
  BY <1>4, <1>15, <1>16, <1>17 DEF WrapRight
<1> QED BY <1>18 DEF y

\* Where a range ends inside of the region, the next tile is the first of a subresource.
EndsBetween(ranges, g, p, N) == \A e \in 1 .. g.n - 1 : N + e = ranges[1].count => tiles[p + e][2] = 0

\* The loop has bound all tiles of the region, or all of n ranges from the first on.
WrapProgress(ranges, b, to, pages, g, at, p, N, first, x, n) ==
    \E d \in 0 .. g.n : /\ WrapRight(ranges, b, to, pages, g, at, p, N, x, d)
                        /\ d < g.n => x.range >= first + n

\* A range that ends inside of the region is the first of two.
LEMMA InsideIs ==
    ASSUME NEW heap, NEW ranges, AreRanges(heap, ranges), NEW x, NEW N \in Nat, AtPage(ranges, x, N),
           x.range <= Len(ranges), NEW k \in Nat, x.used + k = ranges[x.range].count,
           N + k < PagesIn(ranges)
    PROVE  N + k = ranges[1].count
<1>1. /\ Len(ranges) \in 1 .. 2 /\ x.range \in 1 .. Len(ranges) + 1 /\ x.used \in Nat
      /\ ranges[1].count \in Nat /\ (Len(ranges) = 2 => ranges[2].count \in Nat)
      /\ x.range = 1 => x.used = N
      /\ x.range = 2 => N = ranges[1].count + x.used
  BY DEF AreRanges, AtPage
<1>2. CASE x.range = 1
  BY <1>1, <1>2
<1>3. CASE x.range = 2
  BY <1>1, <1>3 DEF PagesIn
<1> QED BY <1>1, <1>2, <1>3

LEMMA WrapNext ==
    ASSUME NEW heap, NEW ranges, NEW b, NEW to, NEW pages, NEW g, NEW at, NEW p, NEW N,
           IsWrapped(heap, ranges, b, to, pages, g, at, p, N), EndsBetween(ranges, g, p, N),
           NEW x, NEW first \in Nat, NEW n \in Nat,
           WrapProgress(ranges, b, to, pages, g, at, p, N, first, x, n)
    PROVE  WrapProgress(ranges, b, to, pages, g, at, p, N, first,
                        UpdateNextWrapped(heap, ranges, x, g), n + 1)
<1>1. PICK d \in 0 .. g.n : WrapRight(ranges, b, to, pages, g, at, p, N, x, d) /\ (d < g.n => x.range >= first + n)
  BY DEF WrapProgress
<1>2. /\ g.n \in Nat \ {0} /\ N \in Nat /\ N + g.n <= PagesIn(ranges) /\ AreRanges(heap, ranges)
      /\ x.done = d /\ AtPage(ranges, RangesLeft(x), N + d) /\ PagesIn(ranges) \in Nat
  BY <1>1 DEF IsWrapped, IsCall, WrapRight, UpdateRight, AreRanges, PagesIn
<1>3. AtPage(ranges, x, N + d)
  BY <1>2 DEF RangesLeft, AtPage
<1>4. CASE d = g.n
  BY <1>2, <1>4, <1>1 DEF UpdateNextWrapped, WrapProgress
<1>5. CASE d < g.n
  <2> DEFINE left == g.n - d
             c == ranges[x.range].count
             u == x.used
             k == IF left <= c - u THEN left ELSE c - u
             y == UpdateTiles(heap, ranges, x, k)
  <2>1. x.range <= Len(ranges) /\ u + 1 <= c
    BY <1>2, <1>5, <1>3, InRanges
  <2>2. u \in Nat /\ c \in Nat /\ x.range \in Nat
    <3>1. x.range \in 1 .. Len(ranges) + 1 /\ u \in Nat /\ Len(ranges) \in 1 .. 2
      BY <1>2, <1>3 DEF AtPage, AreRanges
    <3>2. x.range \in 1 .. Len(ranges)
      BY <2>1, <3>1
    <3> QED BY <1>2, <3>1, <3>2 DEF AreRanges
  <2> HIDE DEF c, u
  <2>3. k \in Nat \ {0} /\ d + k <= g.n /\ u + k <= c /\ (d + k < g.n => u + k = c)
    <3>1. left \in Nat \ {0} /\ d + left = g.n /\ d \in Nat /\ g.n \in Nat
      BY <1>2, <1>5
    <3> HIDE DEF left
    <3>2. CASE left <= c - u
      BY <3>2, <2>1, <2>2, <3>1
    <3>3. CASE ~(left <= c - u)
      BY <3>3, <2>1, <2>2, <3>1
    <3> QED BY <3>2, <3>3
  <2>4. UpdateNextWrapped(heap, ranges, x, g) = y
    <3>1. Min({left, c - u}) = k
      BY <1>2, <1>5, <2>2, LeastOfTwo
    <3>2. NextTiles(ranges, x, g) = k
      BY <1>2, <3>1 DEF NextTiles, c, u
    <3> HIDE DEF k
    <3> QED BY <1>2, <1>5, <3>2 DEF UpdateNextWrapped
  <2> HIDE DEF k
  <2>5. d + k < g.n => tiles[p + d + k][2] = 0
    <3> SUFFICES ASSUME d + k < g.n PROVE tiles[p + d + k][2] = 0
      OBVIOUS
    <3>1. (N + d) + k = ranges[1].count
      BY <1>2, <2>3, <1>3, <2>1, InsideIs DEF u, c
    <3>2. d + k \in 1 .. g.n - 1 /\ N + (d + k) = ranges[1].count
      BY <1>2, <2>3, <3>1
    <3>3. tiles[p + (d + k)][2] = 0
      BY <3>2 DEF EndsBetween
    <3>4. p + (d + k) = p + d + k
      BY <2>3 DEF IsWrapped, IsStart
    <3> QED BY <3>3, <3>4
  <2>6. WrapRight(ranges, b, to, pages, g, at, p, N, y, d + k)
    BY <2>3, <1>1, <1>5, <2>1, <2>5, WrapPiece DEF u, c, y
  <2>7. d + k < g.n => y.range >= first + (n + 1)
    <3> SUFFICES ASSUME d + k < g.n PROVE y.range >= first + (n + 1)
      OBVIOUS
    <3>1. DOMAIN x = WrapFields
      BY <1>1 DEF WrapRight
    <3> DEFINE z == Consume(ranges, x, k)
    <3>2. UsedMore(ranges, x, k, z)
      BY <3>1, ConsumeKeeps DEF WrapFields
    <3>3. x.used + k >= ranges[x.range].count
      BY <2>2, <2>3 DEF u, c
    <3>4. DOMAIN z = WrapFields /\ z.range = x.range + 1
      BY <3>1, <3>2, <3>3 DEF UsedMore
    <3> DEFINE set == SetNextTiles(heap, ranges[x.range], x, k)
    <3>5. y = [z EXCEPT !.table = set.table, !.sub = set.sub, !.coord = set.coord, !.done = @ + k]
      BY DEF UpdateTiles, GoOn
    <3> HIDE DEF z, set, y
    <3>6. y.range = x.range + 1
      BY <3>4, <3>5
    <3> QED BY <1>1, <1>5, <2>2, <3>6
  <2>8. d + k \in 0 .. g.n
    BY <1>2, <2>3
  <2> QED BY <2>4, <2>6, <2>7, <2>8 DEF WrapProgress
<1>6. d = g.n \/ d < g.n
  BY <1>2
<1> QED BY <1>4, <1>5, <1>6

\* Where the loop begins.
WrapStart(st, g) == [table |-> st.table, range |-> st.range, used |-> st.used,
                     sub |-> g.sub, coord |-> Texels(g.coord), done |-> 0]

\* The loop over the ranges has as many iterations as there are.
LEMMA WrappedLoopIs ==
    ASSUME NEW heap, NEW ranges, Len(ranges) \in 1 .. 2, NEW g, NEW st
    PROVE  \E base : /\ base = WrapStart(st, g)
                     /\ UpdateWrapped(heap, ranges, st, g) = RangesLeft(
                            LET one == UpdateNextWrapped(heap, ranges, base, g)
                            IN  IF Len(ranges) = 1 THEN one ELSE UpdateNextWrapped(heap, ranges, one, g))
<1> DEFINE L == Len(ranges)
           base == WrapStart(st, g)
           u(x) == UpdateNextWrapped(heap, ranges, x, g)
           eq(f) == f = [n \in 0 .. L |-> IF n = 0 THEN base ELSE u(f[n - 1])]
           after == CHOOSE f : eq(f)
           two == [n \in 0 .. L |-> IF n = 0 THEN base ELSE IF n = 1 THEN u(base) ELSE u(u(base))]
<1>1. UpdateWrapped(heap, ranges, st, g) = RangesLeft(after[L])
  BY DEF UpdateWrapped, WrapStart
<1> HIDE DEF base, u
<1>2. eq(two)
  <2>1. ASSUME NEW n \in 0 .. L
        PROVE  two[n] = IF n = 0 THEN base ELSE u(two[n - 1])
    <3>1. n = 0 \/ n = 1 \/ n = 2
      <4>1. L \in 1 .. 2 /\ n \in 0 .. L
        OBVIOUS
      <4> HIDE DEF L
      <4> QED BY <4>1
    <3>2. CASE n = 0
      BY <3>2
    <3>3. CASE n = 1
      BY <3>3
    <3>4. CASE n = 2
      BY <3>4
    <3> QED BY <3>1, <3>2, <3>3, <3>4
  <2>2. two = [n \in 0 .. L |-> two[n]]
    OBVIOUS
  <2> HIDE DEF two
  <2>3. [n \in 0 .. L |-> two[n]] = [n \in 0 .. L |-> IF n = 0 THEN base ELSE u(two[n - 1])]
    BY <2>1
  <2> QED BY <2>2, <2>3
<1>3. eq(after)
  BY <1>2
<1> HIDE DEF after
<1>4. \A n \in 0 .. L : after[n] = IF n = 0 THEN base ELSE u(after[n - 1])
  BY <1>3
<1>5. 0 \in 0 .. L /\ 1 \in 0 .. L /\ (L # 1 => L = 2 /\ 2 \in 0 .. L)
  OBVIOUS
<1>6. after[0] = base
  BY <1>4, <1>5
<1>7. after[1] = u(base)
  BY <1>4, <1>5, <1>6
<1>8. L # 1 => after[L] = u(u(base))
  <2> SUFFICES ASSUME L # 1 PROVE after[L] = u(u(base))
    OBVIOUS
  <2>1. after[2] = u(after[2 - 1]) /\ L = 2
    BY <1>4, <1>5
  <2> QED BY <1>7, <2>1
<1>9. after[L] = IF L = 1 THEN u(base) ELSE u(u(base))
  BY <1>7, <1>8
<1> QED BY <1>1, <1>9 DEF base, u

LEMMA UpdateWrappedIs ==
    ASSUME NEW heap, NEW ranges, NEW b, NEW to, NEW pages, NEW g, NEW at, NEW p, NEW N,
           IsWrapped(heap, ranges, b, to, pages, g, at, p, N), EndsBetween(ranges, g, p, N),
           NEW st, UpdateRight(ranges, b, to, pages, st, N)
    PROVE  UpdateRight(ranges, b, to, pages, UpdateWrapped(heap, ranges, st, g), N + g.n)
<1> DEFINE L == Len(ranges)
           u(x) == UpdateNextWrapped(heap, ranges, x, g)
           right(x, d) == WrapRight(ranges, b, to, pages, g, at, p, N, x, d)
           going(x, n) == WrapProgress(ranges, b, to, pages, g, at, p, N, st.range, x, n)
<1>1. /\ AreRanges(heap, ranges) /\ Len(ranges) \in 1 .. 2 /\ N \in Nat /\ g.n \in Nat \ {0}
      /\ N + g.n <= PagesIn(ranges) /\ st \in RegionLoops /\ AtPage(ranges, st, N)
      /\ st.range \in Nat /\ st.range >= 1 /\ IsStart(g, at, p) /\ PagesIn(ranges) \in Nat
  <2>1. /\ AreRanges(heap, ranges) /\ Len(ranges) \in 1 .. 2 /\ N \in Nat /\ g.n \in Nat \ {0}
        /\ N + g.n <= PagesIn(ranges) /\ st \in RegionLoops /\ AtPage(ranges, st, N)
        /\ st.range \in 1 .. Len(ranges) + 1 /\ IsStart(g, at, p)
    BY DEF IsWrapped, IsCall, UpdateRight, AtPage, AreRanges
  <2>2. ranges[1].count \in Nat /\ (Len(ranges) # 1 => ranges[2].count \in Nat)
    BY <2>1 DEF AreRanges
  <2> QED BY <2>1, <2>2 DEF PagesIn
<1>2. PICK base : /\ base = WrapStart(st, g)
                  /\ UpdateWrapped(heap, ranges, st, g) = RangesLeft(IF L = 1 THEN u(base) ELSE u(u(base)))
  BY <1>1, WrappedLoopIs
<1>3. /\ DOMAIN base = WrapFields /\ base.done = 0 /\ base.sub = g.sub /\ base.coord = Texels(g.coord)
      /\ base.table = st.table /\ base.range = st.range /\ base.used = st.used
  BY <1>2 DEF WrapStart, WrapFields
<1>4. right(base, 0)
  <2>1. RangesLeft(base) = st
    BY <1>3, <1>1 DEF RangesLeft, RegionLoops
  <2>2. N + 0 = N /\ p + 0 = p /\ 0 \in 0 .. g.n
    BY <1>1 DEF IsStart
  <2>3. Begins(g.sub) /\ StartsAt(g.sub, Texels(g.coord), p - at[g.sub])
    BY <1>1 DEF IsStart
  <2> QED BY <1>3, <2>1, <2>2, <2>3 DEF WrapRight
<1>5. going(base, 0)
  BY <1>1, <1>3, <1>4 DEF WrapProgress
<1>6. \A x : \A n \in Nat : going(x, n) => going(u(x), n + 1)
  BY <1>1, WrapNext
<1> HIDE DEF going, u
<1>7. going(IF L = 1 THEN u(base) ELSE u(u(base)), L)
  <2>1. going(u(base), 1)
    BY <1>5, <1>6
  <2>2. going(u(u(base)), 2)
    BY <1>6, <2>1
  <2>3. L = 1 \/ L = 2
    BY <1>1
  <2>4. CASE L = 1
    BY <2>4, <2>1
  <2>5. CASE L = 2
    BY <2>5, <2>2
  <2> QED BY <2>3, <2>4, <2>5
<1> DEFINE last == IF L = 1 THEN u(base) ELSE u(u(base))
<1> HIDE DEF last
<1>8. PICK d \in 0 .. g.n : right(last, d) /\ (d < g.n => last.range >= st.range + L)
  BY <1>7 DEF WrapProgress, last, going
<1>9. ASSUME d < g.n PROVE FALSE
  <2>1. AtPage(ranges, RangesLeft(last), N + d) /\ RangesLeft(last).range = last.range
    BY <1>8 DEF WrapRight, UpdateRight, RangesLeft
  <2>2. N + d \in Nat /\ N + d < PagesIn(ranges)
    BY <1>1, <1>9
  <2>3. last.range <= Len(ranges) /\ last.range \in Nat
    BY <1>1, <2>1, <2>2, InRanges DEF AtPage
  <2> QED BY <1>1, <1>8, <1>9, <2>3
<1>10. d = g.n
  BY <1>1, <1>9
<1>11. UpdateRight(ranges, b, to, pages, RangesLeft(last), N + g.n)
  BY <1>8, <1>10 DEF WrapRight
<1> QED BY <1>2, <1>11 DEF last, u

-----------------------------------------------------------------------------
(* The regions of a call.                                                  *)

\* The coordinate of idx, row by row.
LEMMA RowsAre ==
    ASSUME NEW d \in Nat \ {0}, NEW idx \in Nat, NEW t \in Nat \ {0}, NEW u \in Nat \ {0}
    PROVE  /\ idx % d \in Nat /\ idx \div d \in Nat /\ (idx \div d) * d + (idx % d) = idx
           /\ ((idx % d) * t) \div t = idx % d /\ ((idx \div d) * u) \div u = idx \div d
           /\ (idx * t) \div t = idx /\ (idx % d) * t \in Nat /\ (idx \div d) * u \in Nat /\ idx * t \in Nat
<1>1. idx % d \in Nat /\ idx \div d \in Nat /\ (idx \div d) * d + (idx % d) = idx
  BY Division
<1>2. ASSUME NEW x \in Nat, NEW y \in Nat \ {0} PROVE (x * y) \div y = x /\ x * y \in Nat
  BY DivisionIs
<1> DEFINE x == idx % d
           y == idx \div d
<1> HIDE DEF x, y
<1>3. x \in Nat /\ y \in Nat
  BY <1>1 DEF x, y
<1>4. (x * t) \div t = x /\ (y * u) \div u = y /\ x * t \in Nat /\ y * u \in Nat /\ (idx * t) \div t = idx /\ idx * t \in Nat
  BY <1>2, <1>3
<1> QED BY <1>1, <1>4 DEF x, y

\* The tile at q is the first of a region from there.
FirstIs(g, q) ==
    \A p \in 1 .. Len(tiles) :
        tiles[p] = <<MappingOf(g.sub), IF isSubresourceInMipTail(g.sub) THEN g.coord[1]
                                       ELSE PageAt(g.coord, calcSubresourcePageDim(g.sub))>> <=> p = q

LEMMA RegionStarts ==
    ASSUME NEW at, IsResource(at), NEW q \in 1 .. Len(tiles), NEW n
    PROVE  IsStart(RegionAt(q, n), at, q) /\ RegionAt(q, n).n = n /\ FirstIs(RegionAt(q, n), q)
<1> DEFINE g == RegionAt(q, n)
<1>1. Known /\ TailsApart /\ TilesAt(tiles, at) /\ Len(tiles) \in Nat
  BY PlacesIn DEF IsResource
<1>2. PICK s \in AllSubs : Begins(s) /\ q - at[s] \in 0 .. NumPages(MappingOf(s)) - 1
                           /\ tiles[q] = <<MappingOf(s), q - at[s]>>
  BY <1>1, TileIs
<1> DEFINE idx == q - at[s]
           dim == calcSubresourcePageDim(s)
           t == layout.texels[1]
           u == layout.texels[2]
<1>3. /\ NumPages(MappingOf(s)) \in Nat \ {0} /\ idx \in Nat /\ idx < NumPages(MappingOf(s)) /\ s \in Nat
      /\ dim[1] \in Nat \ {0} /\ t \in Nat \ {0} /\ u \in Nat \ {0} /\ layout.mips \in Nat \ {0}
  <2>1. NumPages(MappingOf(s)) \in Nat \ {0} /\ s \in Nat
    BY <1>1, MappingIsUsed, NumPagesIs, PlacesIn
  <2>2. at[s] \in Int
    BY <1>1, <1>2, PlacesIn
  <2>3. dim[1] \in Nat \ {0}
    BY <1>1, <2>1, DimsAre
  <2> QED BY <1>1, <1>2, <2>1, <2>2, <2>3, LayoutIs
<1>4. tiles[q][1] = MappingOf(s) /\ tiles[q][2] = idx
  BY <1>2
<1> HIDE DEF idx, dim
<1>5. s % layout.mips \in 0 .. layout.mips - 1 /\ s = (s \div layout.mips) * layout.mips + (s % layout.mips)
      /\ s % layout.mips <= layout.firstMip /\ layout.firstMip \in Nat
  BY <1>1, <1>2, SubIs, LayoutIs DEF Begins
<1>6. /\ (idx % dim[1]) * t \in Nat /\ (idx \div dim[1]) * u \in Nat /\ idx * t \in Nat
      /\ ((idx % dim[1]) * t) \div t = idx % dim[1] /\ ((idx \div dim[1]) * u) \div u = idx \div dim[1]
      /\ (idx * t) \div t = idx /\ (idx \div dim[1]) * dim[1] + (idx % dim[1]) = idx
  BY <1>3, RowsAre
<1> HIDE DEF t, u
<1>7. CASE isSubresourceInMipTail(s)
  <2>1. MappingOf(s) = <<"tail", s \div layout.mips>> /\ MappingOf(s) \in Tails
    BY <1>1, <1>7, MappingIs, MappingIsUsed DEF UsedMappings, Subs
  <2>2. s % layout.mips = layout.firstMip
    BY <1>5, <1>7 DEF isSubresourceInMipTail
  <2>3. (s \div layout.mips) * layout.mips + layout.firstMip = s
    BY <1>5, <2>2
  <2>4. g = [box |-> FALSE, sub |-> s, coord |-> <<idx, 0>>, n |-> n]
    <3>1. MappingOf(s)[2] = s \div layout.mips
      BY <2>1
    <3> QED BY <1>4, <2>1, <2>3, <3>1 DEF RegionAt
  <2> HIDE DEF g
  <2>5. g.box = FALSE /\ g.sub = s /\ g.coord = <<idx, 0>> /\ g.n = n
    BY <2>4
  <2>6. Texels(g.coord) = <<idx * t, 0 * u>>
    BY <2>5 DEF Texels, t, u
  <2>7. PageAt(<<idx, 0>>, dim) = idx
    BY <1>3 DEF PageAt
  <2>8. StartsAt(s, Texels(g.coord), idx)
    <3>1. Texels(g.coord) \in Nat \X Nat /\ Texels(g.coord)[1] \div t = idx
      <4>1. Texels(g.coord)[1] = idx * t /\ 0 * u = 0
        BY <1>3, <2>6
      <4>2. <<idx * t, 0>> \in Nat \X Nat
        BY <1>6
      <4>3. Texels(g.coord) = <<idx * t, 0>>
        BY <2>6, <4>1
      <4> QED BY <1>6, <4>1, <4>2, <4>3
    <3> QED BY <1>3, <1>7, <2>7, <3>1 DEF StartsAt, t, dim
  <2>9. \A p \in 1 .. Len(tiles) : tiles[p] = <<MappingOf(s), idx>> <=> p = q
    BY <1>1, <1>2, TilesOnce DEF idx
  <2>10. FirstIs(g, q)
    BY <1>7, <2>5, <2>9 DEF FirstIs
  <2> QED BY <1>2, <2>5, <2>8, <2>10 DEF IsStart, idx, g
<1>8. CASE ~isSubresourceInMipTail(s)
  <2>1. MappingOf(s) = <<"sub", s>> /\ MappingOf(s) \notin Tails
    BY <1>1, <1>8, MappingIs DEF Tails
  <2> DEFINE c == <<idx % dim[1], idx \div dim[1]>>
  <2>2. g = [box |-> FALSE, sub |-> s, coord |-> c, n |-> n]
    BY <2>1, <1>4 DEF RegionAt, dim
  <2> HIDE DEF g
  <2>3. g.box = FALSE /\ g.sub = s /\ g.coord = c /\ g.n = n
    BY <2>2
  <2>4. c[1] = idx % dim[1] /\ c[2] = idx \div dim[1]
    OBVIOUS
  <2> HIDE DEF c
  <2>5. Texels(g.coord) = <<c[1] * t, c[2] * u>>
    BY <2>3 DEF Texels, t, u
  <2>6. PageAt(c, dim) = idx
    BY <1>6, <2>4 DEF PageAt
  <2>7. StartsAt(s, Texels(g.coord), idx)
    <3>1. Texels(g.coord) \in Nat \X Nat /\ Texels(g.coord)[1] \div t = c[1] /\ Texels(g.coord)[2] \div u = c[2]
      BY <1>6, <2>4, <2>5
    <3>2. PageAt(<<c[1], c[2]>>, dim) = idx
      BY <2>6 DEF PageAt
    <3> QED BY <1>3, <1>8, <3>1, <3>2 DEF StartsAt, t, u, dim
  <2>8. \A p \in 1 .. Len(tiles) : tiles[p] = <<MappingOf(s), idx>> <=> p = q
    BY <1>1, <1>2, TilesOnce DEF idx
  <2>9. FirstIs(g, q)
    BY <1>8, <2>3, <2>6, <2>8 DEF FirstIs, dim
  <2> QED BY <1>2, <2>3, <2>7, <2>9 DEF IsStart, idx, g
<1> QED BY <1>7, <1>8

-----------------------------------------------------------------------------
(* The tiles of all regions, and the pages of all ranges.                  *)

IsList(s, n) == n \in Nat /\ s = [i \in 1 .. n |-> s[i]]

\* One or two lists, joined.
AreJoined(all, seqs, L, m, n) ==
    /\ IsList(all, IF L = 1 THEN m ELSE m + n)
    /\ \A i \in 1 .. m : all[i] = seqs[1][i]
    /\ L = 2 => \A i \in 1 .. n : all[m + i] = seqs[2][i]

LEMMA ListIs ==
    ASSUME NEW s, NEW n, IsList(s, n), NEW S, Range(s) \subseteq S
    PROVE  s \in Seq(S) /\ Len(s) = n /\ DOMAIN s = 1 .. n
BY DEF IsList, Range

Follows(both, s, m, t, n) ==
    /\ IsList(both, m + n)
    /\ \A i \in 1 .. m : both[i] = s[i]
    /\ \A i \in 1 .. n : both[m + i] = t[i]

LEMMA JoinedIs ==
    ASSUME NEW s, NEW m, IsList(s, m), NEW t, NEW n, IsList(t, n)
    PROVE  Follows(s \o t, s, m, t, n)
<1> DEFINE S == Range(s) \cup Range(t)
<1>1. s \in Seq(S) /\ t \in Seq(S) /\ Len(s) = m /\ Len(t) = n /\ m \in Nat /\ n \in Nat
  <2>1. s \in Seq(S) /\ t \in Seq(S) /\ Len(s) = m /\ Len(t) = n
    BY ListIs
  <2> QED BY <2>1 DEF IsList
<1> HIDE DEF S
<1>2. /\ s \o t \in Seq(S) /\ Len(s \o t) = m + n
      /\ \A i \in 1 .. m + n : (s \o t)[i] = IF i <= m THEN s[i] ELSE t[i - m]
  BY <1>1
<1>3. IsList(s \o t, m + n)
  BY <1>1, <1>2 DEF IsList
<1> QED BY <1>1, <1>2, <1>3 DEF Follows

LEMMA FlattenIs ==
    ASSUME NEW seqs, NEW L \in 1 .. 2, IsList(seqs, L), NEW m, IsList(seqs[1], m),
           NEW n, L = 2 => IsList(seqs[2], n)
    PROVE  AreJoined(FlattenSeq(seqs), seqs, L, m, n)
<1> DEFINE eq(f) == f = [i \in 1 .. L |-> IF i = 1 THEN seqs[i] ELSE f[i - 1] \o seqs[i]]
           flatten == CHOOSE f : eq(f)
           both == seqs[1] \o seqs[2]
           two == [i \in 1 .. L |-> IF i = 1 THEN seqs[1] ELSE both]
<1>1. FlattenSeq(seqs) = flatten[L]
  <2>1. Len(seqs) = L
    BY ListIs
  <2> QED BY <2>1 DEF FlattenSeq
<1>2. eq(two)
  <2>1. ASSUME NEW i \in 1 .. L PROVE two[i] = IF i = 1 THEN seqs[i] ELSE two[i - 1] \o seqs[i]
    <3>1. CASE i = 1
      BY <3>1
    <3>2. CASE i # 1
      <4>1. i = 2 /\ 1 \in 1 .. L /\ i - 1 = 1
        BY <3>2
      <4>2. two[1] = seqs[1]
        BY <4>1
      <4> QED BY <4>1, <4>2
    <3> QED BY <3>1, <3>2
  <2>2. two = [i \in 1 .. L |-> two[i]]
    OBVIOUS
  <2> HIDE DEF two
  <2>3. [i \in 1 .. L |-> two[i]] = [i \in 1 .. L |-> IF i = 1 THEN seqs[i] ELSE two[i - 1] \o seqs[i]]
    BY <2>1
  <2> QED BY <2>2, <2>3
<1>3. eq(flatten)
  BY <1>2
<1> HIDE DEF flatten
<1>4. flatten[1] = seqs[1] /\ (L = 2 => flatten[2] = both)
  <2>1. \A i \in 1 .. L : flatten[i] = IF i = 1 THEN seqs[i] ELSE flatten[i - 1] \o seqs[i]
    BY <1>3
  <2>2. 1 \in 1 .. L /\ (L = 2 => 2 \in 1 .. L /\ 2 - 1 = 1)
    OBVIOUS
  <2>3. flatten[1] = seqs[1]
    BY <2>1, <2>2
  <2>4. ASSUME L = 2 PROVE flatten[2] = both
    <3>1. flatten[2] = flatten[1] \o seqs[2]
      <4>1. flatten[2] = IF 2 = 1 THEN seqs[2] ELSE flatten[2 - 1] \o seqs[2]
        BY <2>1, <2>2, <2>4
      <4>2. 2 # 1 /\ 2 - 1 = 1
        OBVIOUS
      <4> QED BY <4>1, <4>2
    <3> QED BY <2>3, <3>1
  <2> QED BY <2>3, <2>4
<1>5. CASE L = 1
  BY <1>1, <1>4, <1>5 DEF AreJoined
<1>6. CASE L = 2
  <2>1. /\ IsList(both, m + n) /\ (\A i \in 1 .. m : both[i] = seqs[1][i])
        /\ \A i \in 1 .. n : both[m + i] = seqs[2][i]
    <3> DEFINE s == seqs[1]
               t == seqs[2]
    <3>1. IsList(s, m) /\ IsList(t, n)
      BY <1>6
    <3> HIDE DEF s, t
    <3>2. Follows(s \o t, s, m, t, n)
      BY <3>1, JoinedIs
    <3> QED BY <3>2 DEF s, t, Follows
  <2> QED BY <1>1, <1>4, <1>6, <2>1 DEF AreJoined
<1> QED BY <1>5, <1>6

-----------------------------------------------------------------------------
\* The tiles of a region: of a box, or from a tile on.
TilesOf(g, s) ==
    /\ IsList(s, g.n) /\ g.n \in Nat \ {0}
    /\ IF g.box THEN IsBox(g) /\ BoxTo(s, 0, g.sub, g.coord, g.size)
       ELSE \E p \in 1 .. Len(tiles) :
               /\ p + g.n <= Len(tiles) + 1 /\ SeqTo(s, 0, g.n, tiles, p)
               /\ \A at : IsResource(at) => IsStart(g, at, p)

LEMMA BoxTilesAre ==
    ASSUME Known, NEW g \in Boxes, FitsIn(g)
    PROVE  TilesOf(g, RegionTiles(g)) /\ g.box
<1>1. PICK key \in UsedMappings \cap Subs : g \in BoxesIn(key[2])
  BY DEF Boxes
<1> DEFINE sub == key[2]
           dim == calcSubresourcePageDim(sub)
<1>2. sub \in 0 .. layout.subs - 1 /\ key = <<"sub", sub>> /\ ~isSubresourceInMipTail(sub)
  BY DEF Subs, Tails, UsedMappings
<1>3. sub \in Nat /\ dim[1] \in Nat \ {0} /\ dim[2] \in Nat \ {0}
  BY <1>2, LayoutIs, DimsAre
<1> HIDE DEF dim, sub
<1>4. PICK c \in (0 .. dim[1] - 1) \X (0 .. dim[2] - 1), s \in (1 .. dim[1]) \X (1 .. dim[2]) :
         g = [box |-> TRUE, sub |-> sub, coord |-> c, size |-> s, n |-> s[1] * s[2]]
  BY <1>1 DEF BoxesIn, dim, sub
<1>5. g.box /\ g.sub = sub /\ g.coord = c /\ g.size = s /\ g.n = s[1] * s[2]
  BY <1>4
<1>6. /\ c[1] \in Nat /\ c[2] \in Nat /\ s[1] \in Nat \ {0} /\ s[2] \in Nat \ {0}
      /\ c[1] + s[1] <= dim[1] /\ c[2] + s[2] <= dim[2] /\ s = <<s[1], s[2]>>
  BY <1>5, <1>3 DEF FitsIn, dim
<1>7. IsBox(g)
  BY <1>3, <1>6, <1>2, <1>5 DEF Fits, IsPair, IsBox, dim
<1>8. g.n \in Nat \ {0}
  BY <1>5, <1>6, BoxIs
<1>9. RegionTiles(g) = [n \in 1 .. g.n |-> <<<<"sub", sub>>, BoxPages(c, s, dim)[n - 1]>>]
  BY <1>2, <1>5 DEF MappingOf, RegionTiles, BoxTiles, dim
<1>10. IsList(RegionTiles(g), g.n)
  BY <1>8, <1>9 DEF IsList
<1>11. BoxTo(RegionTiles(g), 0, g.sub, g.coord, g.size)
  BY <1>8, <1>9, <1>5 DEF BoxTo, dim
<1> QED BY <1>5, <1>7, <1>8, <1>10, <1>11 DEF TilesOf

LEMMA PartOfSeq ==
    ASSUME NEW S, NEW s \in Seq(S), NEW q \in 1 .. Len(s), NEW n \in Nat, q + n <= Len(s) + 1
    PROVE  /\ IsList(SubSeq(s, q, q + n - 1), n)
           /\ \A i \in 1 .. n : SubSeq(s, q, q + n - 1)[i] = s[q + i - 1]
BY DEF IsList

LEMMA RegionTilesAre ==
    ASSUME NEW at, IsResource(at), NEW q \in 1 .. Len(tiles), NEW n \in Nat \ {0}
    PROVE  RegionTiles(RegionAt(q, n)) = SubSeq(tiles, q, IF q + n <= Len(tiles) + 1 THEN q + n - 1 ELSE Len(tiles))
<1> DEFINE g == RegionAt(q, n)
           idx == IF isSubresourceInMipTail(g.sub) THEN g.coord[1]
                  ELSE PageAt(g.coord, calcSubresourcePageDim(g.sub))
           is(p) == tiles[p] = <<MappingOf(g.sub), idx>>
           first == CHOOSE p \in DOMAIN tiles : is(p)
           last == Min({first + n - 1, Len(tiles)})
<1>1. ~g.box /\ g.n = n /\ FirstIs(g, q)
  BY RegionStarts DEF IsStart
<1> HIDE DEF g
<1>2. \A p \in 1 .. Len(tiles) : is(p) <=> p = q
  BY <1>1 DEF FirstIs
<1>3. Len(tiles) \in Nat /\ DOMAIN tiles = 1 .. Len(tiles)
  BY DEF IsResource, TilesAt
<1>4. RegionTiles(g) = SubSeq(tiles, first, last)
  BY <1>1 DEF RegionTiles, TilesFrom
<1> HIDE DEF is
<1>5. first = q
  BY <1>2, <1>3
<1> HIDE DEF first
<1>6. last = IF q + n <= Len(tiles) + 1 THEN q + n - 1 ELSE Len(tiles)
  BY <1>3, <1>5, LeastOfTwo
<1> QED BY <1>4, <1>5, <1>6 DEF g

LEMMA WrappedTilesAre ==
    ASSUME NEW at, IsResource(at), NEW g \in WrappedRegions
    PROVE  TilesOf(g, RegionTiles(g)) /\ ~g.box
<1>1. PICK p \in 1 .. Len(tiles), n \in 1 .. Len(tiles) : g = RegionAt(p, n) /\ p + n - 1 <= Len(tiles)
  BY DEF WrappedRegions
<1>2. Len(tiles) \in Nat /\ tiles \in Seq(UsedTiles) /\ n \in Nat \ {0} /\ p + n <= Len(tiles) + 1
  BY <1>1 DEF IsResource, TilesAt
<1>3. g.n = n
  BY <1>1, <1>2, RegionStarts
<1>4. ~g.box
  BY <1>1, <1>2, RegionStarts DEF IsStart
<1>5. ASSUME NEW a, IsResource(a) PROVE IsStart(g, a, p)
  BY <1>1, <1>2, <1>5, RegionStarts
<1> DEFINE t == SubSeq(tiles, p, p + n - 1)
<1>6. RegionTiles(g) = t
  BY <1>1, <1>2, RegionTilesAre
<1>7. IsList(t, n) /\ \A i \in 1 .. n : t[i] = tiles[p + i - 1]
  BY <1>2, PartOfSeq
<1> HIDE DEF t
<1>8. SeqTo(t, 0, n, tiles, p)
  BY <1>2, <1>7 DEF SeqTo
<1> QED BY <1>2, <1>3, <1>4, <1>5, <1>6, <1>7, <1>8 DEF TilesOf

LEMMA RegionsAre ==
    ASSUME NEW at, IsResource(at), NEW g \in Regions
    PROVE  TilesOf(g, RegionTiles(g))
BY BoxTilesAre, WrappedTilesAre DEF IsResource, Regions

-----------------------------------------------------------------------------
(* Regions that meet ranges.                                               *)

\* Where the first range ends inside of the region: a box does not fit its range
\* then, and otherwise the next tile is the first of a subresource.
MeetsRanges(ranges, g, t, N) ==
    \A e \in 1 .. g.n - 1 : N + e = ranges[1].count =>
        IF g.box THEN g.n > ranges[IF N < ranges[1].count THEN 1 ELSE 2].count ELSE t[e + 1][2] = 0

\* A region whose tiles are t, after N tiles.
RegionMeets(ranges, to, g, t, N) ==
    /\ TilesOf(g, t) /\ MeetsRanges(ranges, g, t, N) /\ N + g.n <= PagesIn(ranges)
    /\ \A i \in 1 .. g.n : to[N + i] = t[i]

LEMMA BoxKeepsToRange ==
    ASSUME NEW heap, NEW ranges, AreRanges(heap, ranges), NEW st, NEW N \in Nat, AtPage(ranges, st, N),
           NEW g, g.n \in Nat \ {0}, g.box, NEW t, MeetsRanges(ranges, g, t, N), N + g.n <= PagesIn(ranges),
           g.n <= ranges[st.range].count
    PROVE  st.used + g.n <= ranges[st.range].count
<1> DEFINE n == g.n
           c == ranges[1].count
           u == st.used
<1>1. PagesIn(ranges) \in Nat /\ c \in Nat \ {0} /\ n \in Nat \ {0} /\ N + n <= PagesIn(ranges)
  BY DEF AreRanges, PagesIn
<1>2. st.range <= Len(ranges)
  BY <1>1, InRanges
<1>3. Len(ranges) \in 1 .. 2 /\ st.range \in 1 .. Len(ranges) /\ u \in Nat /\ u < ranges[st.range].count
  BY <1>2 DEF AreRanges, AtPage
<1>4. CASE st.range = 1
  <2>1. u = N /\ N < c
    BY <1>3, <1>4 DEF AtPage
  <2> SUFFICES ASSUME u + n > c PROVE FALSE
    <3>1. ranges[st.range].count = c
      BY <1>4
    <3> HIDE DEF n, u, c
    <3>2. ~(u + n > c) => u + n <= c
      BY <1>1, <1>3
    <3> QED BY <3>1, <3>2 DEF n, u
  <2> HIDE DEF n, u, c
  <2>2. c - N \in 1 .. n - 1 /\ N + (c - N) = c
    BY <1>1, <1>3, <2>1
  <2>3. g.n > ranges[IF N < c THEN 1 ELSE 2].count
    BY <2>2 DEF MeetsRanges, n, c
  <2>4. n > c
    BY <2>1, <2>3 DEF n, c
  <2>5. n <= c
    BY <1>4 DEF n, c
  <2> QED BY <1>1, <2>4, <2>5
<1>5. CASE st.range = 2
  <2>1. Len(ranges) = 2 /\ N = c + u /\ PagesIn(ranges) = c + ranges[2].count /\ ranges[2].count \in Nat
    BY <1>3, <1>5 DEF PagesIn, AtPage, AreRanges
  <2> HIDE DEF n, u, c
  <2>2. u + n <= ranges[2].count
    BY <1>1, <1>3, <2>1
  <2> QED BY <1>5, <2>2 DEF n, u
<1> QED BY <1>3, <1>4, <1>5

LEMMA UpdateRegionIs ==
    ASSUME NEW heap, NEW ranges, NEW b, NEW to, NEW pages, IsCall(heap, ranges, b, pages),
           NEW at, IsResource(at), NEW st, NEW N \in Nat, UpdateRight(ranges, b, to, pages, st, N),
           NEW g, NEW t, RegionMeets(ranges, to, g, t, N)
    PROVE  UpdateRight(ranges, b, to, pages, UpdateRegion(heap, ranges, st, g), N + g.n)
<1>1. /\ AreRanges(heap, ranges) /\ AtPage(ranges, st, N) /\ g.n \in Nat \ {0} /\ IsList(t, g.n)
      /\ N + g.n <= PagesIn(ranges) /\ PagesIn(ranges) \in Nat /\ MeetsRanges(ranges, g, t, N)
      /\ \A i \in 1 .. g.n : to[N + i] = t[i]
  BY DEF IsCall, UpdateRight, RegionMeets, TilesOf, AreRanges, PagesIn
<1>2. ~(st.range > Len(ranges))
  <2>1. N < PagesIn(ranges)
    BY <1>1
  <2>2. st.range <= Len(ranges)
    BY <1>1, <2>1, InRanges
  <2>3. st.range \in 1 .. Len(ranges) + 1 /\ Len(ranges) \in Nat
    BY <1>1 DEF AtPage, AreRanges
  <2> QED BY <2>2, <2>3
<1>3. CASE g.box
  <2>1. IsBox(g) /\ BoxTo(t, 0, g.sub, g.coord, g.size)
    BY <1>3 DEF RegionMeets, TilesOf
  <2>2. BoxTo(to, N, g.sub, g.coord, g.size)
    BY <2>1, <1>1 DEF IsBox, BoxTo
  <2>3. g.n <= ranges[st.range].count => st.used + g.n <= ranges[st.range].count
    BY <1>1, <1>3, BoxKeepsToRange
  <2>4. UpdateRight(ranges, b, to, pages, UpdateBox(heap, ranges, st, g), N + g.n)
    BY <1>1, <2>1, <2>2, <2>3, UpdateBoxIs
  <2> QED BY <1>2, <1>3, <2>4 DEF UpdateRegion
<1>4. CASE ~g.box
  <2>1. PICK p \in 1 .. Len(tiles) : p + g.n <= Len(tiles) + 1 /\ SeqTo(t, 0, g.n, tiles, p) /\ IsStart(g, at, p)
    BY <1>4 DEF RegionMeets, TilesOf
  <2>2. \A i \in 1 .. g.n : t[i] = tiles[p + i - 1]
    BY <1>1, <2>1 DEF SeqTo
  <2>3. SeqTo(to, N, g.n, tiles, p)
    BY <1>1, <2>2 DEF SeqTo
  <2>4. EndsBetween(ranges, g, p, N)
    <3> SUFFICES ASSUME NEW e \in 1 .. g.n - 1, N + e = ranges[1].count PROVE tiles[p + e][2] = 0
      BY DEF EndsBetween
    <3>1. t[e + 1][2] = 0
      BY <1>1, <1>4 DEF MeetsRanges
    <3>2. e + 1 \in 1 .. g.n /\ p + (e + 1) - 1 = p + e
      BY <1>1, <2>1
    <3> QED BY <2>2, <3>1, <3>2
  <2>5. IsWrapped(heap, ranges, b, to, pages, g, at, p, N)
    BY <1>1, <2>1, <2>3 DEF IsWrapped
  <2>6. UpdateRight(ranges, b, to, pages, UpdateWrapped(heap, ranges, st, g), N + g.n)
    BY <2>4, <2>5, UpdateWrappedIs
  <2> QED BY <1>2, <1>4, <2>6 DEF UpdateRegion
<1> QED BY <1>3, <1>4

\* The loop over the regions has as many iterations as there are.
LEMMA RegionsLoopIs ==
    ASSUME NEW table, NEW heap, NEW ranges, NEW regions, Len(regions) \in 1 .. 2
    PROVE  \E start, one : /\ start = [table |-> table, range |-> 1, used |-> 0]
                           /\ one = UpdateRegion(heap, ranges, start, regions[1])
                           /\ UpdatedTable(table, heap, regions, ranges) =
                                 IF Len(regions) = 1 THEN one.table
                                 ELSE UpdateRegion(heap, ranges, one, regions[2]).table
<1> DEFINE L == Len(regions)
           start == [table |-> table, range |-> 1, used |-> 0]
           u(x, k) == UpdateRegion(heap, ranges, x, regions[k])
           eq(f) == f = [k \in 0 .. L |-> IF k = 0 THEN start ELSE u(f[k - 1], k)]
           after == CHOOSE f : eq(f)
           two == [k \in 0 .. L |-> IF k = 0 THEN start ELSE IF k = 1 THEN u(start, 1) ELSE u(u(start, 1), 2)]
<1>1. UpdatedTable(table, heap, regions, ranges) = after[L].table
  BY DEF UpdatedTable
<1> HIDE DEF start, u
<1>2. eq(two)
  <2>1. ASSUME NEW k \in 0 .. L
        PROVE  two[k] = IF k = 0 THEN start ELSE u(two[k - 1], k)
    <3>1. k = 0 \/ k = 1 \/ k = 2
      <4>1. L \in 1 .. 2 /\ k \in 0 .. L
        OBVIOUS
      <4> HIDE DEF L
      <4> QED BY <4>1
    <3>2. CASE k = 0
      BY <3>2
    <3>3. CASE k = 1
      BY <3>3
    <3>4. CASE k = 2
      BY <3>4
    <3> QED BY <3>1, <3>2, <3>3, <3>4
  <2>2. two = [k \in 0 .. L |-> two[k]]
    OBVIOUS
  <2> HIDE DEF two
  <2>3. [k \in 0 .. L |-> two[k]] = [k \in 0 .. L |-> IF k = 0 THEN start ELSE u(two[k - 1], k)]
    BY <2>1
  <2> QED BY <2>2, <2>3
<1>3. eq(after)
  BY <1>2
<1> HIDE DEF after
<1>4. \A k \in 0 .. L : after[k] = IF k = 0 THEN start ELSE u(after[k - 1], k)
  BY <1>3
<1>5. 0 \in 0 .. L /\ 1 \in 0 .. L /\ (L # 1 => L = 2 /\ 2 \in 0 .. L)
  OBVIOUS
<1>6. after[0] = start
  BY <1>4, <1>5
<1>7. after[1] = u(start, 1)
  BY <1>4, <1>5, <1>6
<1>8. L # 1 => after[L] = u(u(start, 1), 2)
  <2> SUFFICES ASSUME L # 1 PROVE after[L] = u(u(start, 1), 2)
    OBVIOUS
  <2>1. after[2] = u(after[2 - 1], 2) /\ L = 2
    BY <1>4, <1>5
  <2> QED BY <1>7, <2>1
<1>9. after[L].table = IF L = 1 THEN u(start, 1).table ELSE u(u(start, 1), 2).table
  BY <1>7, <1>8
<1> QED BY <1>1, <1>9 DEF start, u

\* All tiles of the regions are bound to the pages of the ranges.
LEMMA UpdatedTableIs ==
    ASSUME NEW heap, NEW ranges, NEW b, NEW to, NEW pages, IsCall(heap, ranges, b, pages),
           NEW at, IsResource(at), NEW table, TableRight(table, b), NEW regions, Len(regions) \in 1 .. 2,
           NEW t, RegionMeets(ranges, to, regions[1], t, 0),
           NEW s, Len(regions) = 2 => RegionMeets(ranges, to, regions[2], s, regions[1].n)
    PROVE  TableRight(UpdatedTable(table, heap, regions, ranges),
                      BoundUpto(b, regions[1].n + IF Len(regions) = 1 THEN 0 ELSE regions[2].n, to, pages))
<1> DEFINE L == Len(regions)
           g == regions[1]
           h == regions[2]
           right(x, n) == UpdateRight(ranges, b, to, pages, x, n)
<1>1. PICK start, one : /\ start = [table |-> table, range |-> 1, used |-> 0]
                        /\ one = UpdateRegion(heap, ranges, start, g)
                        /\ UpdatedTable(table, heap, regions, ranges) =
                                 IF L = 1 THEN one.table ELSE UpdateRegion(heap, ranges, one, h).table
  BY RegionsLoopIs
<1>2. right(start, 0)
  <2>1. BoundUpto(b, 0, to, pages) = b
    BY NoneBound DEF IsCall
  <2>2. start \in RegionLoops
    BY <1>1, TableType DEF TableRight, RegionLoops
  <2>3. AtPage(ranges, start, 0)
    BY <1>1 DEF IsCall, AreRanges, AtPage
  <2> QED BY <1>1, <2>1, <2>2, <2>3 DEF UpdateRight
<1>3. g.n \in Nat \ {0}
  BY DEF RegionMeets, TilesOf
<1>4. right(one, g.n)
  <2>1. right(UpdateRegion(heap, ranges, start, g), 0 + g.n)
    BY <1>2, UpdateRegionIs DEF g
  <2>2. 0 + g.n = g.n
    BY <1>3
  <2> QED BY <1>1, <2>1, <2>2
<1>5. CASE L = 1
  BY <1>3, <1>1, <1>4, <1>5 DEF UpdateRight
<1>6. CASE L = 2
  BY <1>6, <1>3, <1>4, UpdateRegionIs, <1>1 DEF UpdateRight, g, h
<1> QED BY <1>5, <1>6

-----------------------------------------------------------------------------
(* Calls without the hazards.                                              *)

AreRegions(regions) ==
    /\ Len(regions) \in 1 .. 2 /\ IsList(regions, Len(regions))
    /\ \A k \in 1 .. Len(regions) : TilesOf(regions[k], RegionTiles(regions[k]))

Within(regions)   == [k \in DOMAIN regions |-> RegionTiles(regions[k])]
AllTiles(regions) == FlattenSeq(Within(regions))
RegionOf(regions) == FlattenSeq([k \in DOMAIN regions |-> [n \in DOMAIN Within(regions)[k] |-> k]])
RangeOf(ranges, n) == IF n <= ranges[1].count THEN 1 ELSE 2
RangeEnds(regions, ranges) ==
    {n \in 1 .. Len(AllTiles(regions)) - 1 : RangeOf(ranges, n) # RangeOf(ranges, n + 1)}

\* Where a range ends inside of the region.
EndsInside(regions, ranges, n, k) ==
    n \in RangeEnds(regions, ranges) /\ RegionOf(regions)[n] = k /\ RegionOf(regions)[n + 1] = k

\* What the tiles of a call begin with.
FirstTileOf(regions, k) == SelectInSeq(RegionOf(regions), LAMBDA x : x = k)

NoEndInside(regions, ranges) ==
    \A n, k : EndsInside(regions, ranges, n, k) /\ ~regions[k].box => AllTiles(regions)[n + 1][2] = 0

NoBoxShares(regions, ranges) ==
    \A n : \A k \in DOMAIN regions : EndsInside(regions, ranges, n, k) /\ regions[k].box =>
        ~(regions[k].n <= ranges[RangeOf(ranges, FirstTileOf(regions, k))].count)

LEMMA HazardsAre ==
    ASSUME NEW regions, NEW ranges
    PROVE  /\ "rangeEndsInside" \notin UpdateHazards(regions, ranges) => NoEndInside(regions, ranges)
           /\ "boxSharesRange" \notin UpdateHazards(regions, ranges) => NoBoxShares(regions, ranges)
<1> DEFINE all == AllTiles(regions)
           regionOf == RegionOf(regions)
           ends == RangeEnds(regions, ranges)
           inside == \E n \in ends : regionOf[n] = regionOf[n + 1] /\ ~regions[regionOf[n]].box /\ all[n + 1][2] # 0
           shares == \E k \in DOMAIN regions : regions[k].box /\ \E n \in ends :
                        /\ regionOf[n] = k /\ regionOf[n + 1] = k
                        /\ regions[k].n <= ranges[RangeOf(ranges, FirstTileOf(regions, k))].count
<1>1. inside => "rangeEndsInside" \in UpdateHazards(regions, ranges)
  BY DEF UpdateHazards, AllTiles, RegionOf, RangeEnds, RangeOf, Within
<1>2. shares => "boxSharesRange" \in UpdateHazards(regions, ranges)
  BY DEF UpdateHazards, AllTiles, RegionOf, RangeEnds, RangeOf, Within, FirstTileOf
<1>3. ~inside => NoEndInside(regions, ranges)
  BY DEF NoEndInside, EndsInside
<1>4. ~shares => NoBoxShares(regions, ranges)
  BY DEF NoBoxShares, EndsInside
<1> QED BY <1>1, <1>2, <1>3, <1>4

TilesBefore(regions, k) == IF k = 1 THEN 0 ELSE regions[1].n

LEMMA AllTilesAre ==
    ASSUME NEW regions, AreRegions(regions)
    PROVE  /\ AreJoined(AllTiles(regions), Within(regions), Len(regions), regions[1].n, regions[2].n)
           /\ IsList(AllTiles(regions), TilesIn(regions)) /\ TilesIn(regions) \in Nat \ {0}
           /\ \A k \in 1 .. Len(regions) :
                 /\ TilesBefore(regions, k) \in Nat /\ regions[k].n \in Nat \ {0}
                 /\ TilesBefore(regions, k) + regions[k].n <= TilesIn(regions)
                 /\ \A i \in 1 .. regions[k].n :
                       AllTiles(regions)[TilesBefore(regions, k) + i] = RegionTiles(regions[k])[i]
<1> DEFINE L == Len(regions)
           m == regions[1].n
           n == regions[2].n
           w == Within(regions)
           all == AllTiles(regions)
<1>1. L \in 1 .. 2 /\ DOMAIN regions = 1 .. L /\ 1 \in 1 .. L /\ (L = 2 => 2 \in 1 .. L)
  BY DEF AreRegions, IsList
<1>2. \A k \in 1 .. L : w[k] = RegionTiles(regions[k]) /\ IsList(w[k], regions[k].n) /\ regions[k].n \in Nat \ {0}
  BY <1>1 DEF AreRegions, TilesOf, Within
<1>3. IsList(w, L)
  BY <1>1 DEF IsList, Within
<1> HIDE DEF w, L
<1>4. AreJoined(all, w, L, m, n)
  BY <1>1, <1>2, <1>3, FlattenIs DEF AllTiles, w
<1>5. m \in Nat \ {0} /\ (L = 2 => n \in Nat \ {0})
  BY <1>1, <1>2
<1>6. TilesIn(regions) = m + IF L = 1 THEN 0 ELSE n
  BY DEF TilesIn, L
<1>7. IsList(all, TilesIn(regions)) /\ TilesIn(regions) \in Nat \ {0}
  BY <1>1, <1>5, <1>6, <1>4 DEF AreJoined
<1>8. ASSUME NEW k \in 1 .. L
      PROVE  /\ TilesBefore(regions, k) \in Nat /\ regions[k].n \in Nat \ {0}
             /\ TilesBefore(regions, k) + regions[k].n <= TilesIn(regions)
             /\ \A i \in 1 .. regions[k].n : all[TilesBefore(regions, k) + i] = RegionTiles(regions[k])[i]
  <2>1. k = 1 \/ (k = 2 /\ L = 2)
    BY <1>1
  <2>2. CASE k = 1
    BY <1>5, <2>2, <1>1, <1>6, <1>2, <1>4 DEF TilesBefore, AreJoined
  <2>3. CASE k = 2 /\ L = 2
    BY <2>3, <1>5, <1>6, <1>2, <1>4 DEF TilesBefore, AreJoined
  <2> QED BY <2>1, <2>2, <2>3
<1> QED BY <1>4, <1>7, <1>8 DEF w, L

LEMMA RegionOfIs ==
    ASSUME NEW regions, AreRegions(regions)
    PROVE  /\ IsList(RegionOf(regions), TilesIn(regions))
           /\ \A k \in 1 .. Len(regions) : \A i \in 1 .. regions[k].n :
                 RegionOf(regions)[TilesBefore(regions, k) + i] = k
           /\ \A i \in 1 .. TilesIn(regions) :
                 RegionOf(regions)[i] = IF i <= regions[1].n THEN 1 ELSE 2
<1> DEFINE L == Len(regions)
           m == regions[1].n
           n == regions[2].n
           w == [k \in DOMAIN regions |-> [j \in DOMAIN Within(regions)[k] |-> k]]
           of == RegionOf(regions)
<1>1. L \in 1 .. 2 /\ DOMAIN regions = 1 .. L /\ 1 \in 1 .. L /\ (L = 2 => 2 \in 1 .. L)
  BY DEF AreRegions, IsList
<1>2. m \in Nat \ {0} /\ (L = 2 => n \in Nat \ {0}) /\ TilesIn(regions) = m + IF L = 1 THEN 0 ELSE n
  BY <1>1 DEF AreRegions, TilesOf, TilesIn
<1>3. \A k \in 1 .. L : w[k] = [j \in 1 .. regions[k].n |-> k]
  <2> SUFFICES ASSUME NEW k \in 1 .. L PROVE w[k] = [j \in 1 .. regions[k].n |-> k]
    OBVIOUS
  <2> DEFINE t == RegionTiles(regions[k])
  <2>1. IsList(t, regions[k].n)
    BY DEF AreRegions, TilesOf
  <2>2. Within(regions)[k] = t
    BY <1>1 DEF Within
  <2>3. DOMAIN t = 1 .. regions[k].n
    BY <2>1 DEF IsList
  <2> QED BY <1>1, <2>2, <2>3
<1>4. of = FlattenSeq(w)
  BY DEF RegionOf
<1>5. IsList(w, L)
  BY <1>1 DEF IsList
<1>6. IsList(w[1], m) /\ (L = 2 => IsList(w[2], n)) /\ (\A i \in 1 .. m : w[1][i] = 1)
      /\ (L = 2 => \A i \in 1 .. n : w[2][i] = 2)
  BY <1>1, <1>3, <1>2 DEF IsList
<1> HIDE DEF w, L, m, n
<1>7. AreJoined(of, w, L, m, n)
  BY <1>1, <1>5, <1>6, FlattenIs, <1>4
<1> HIDE DEF of
<1>8. /\ IsList(of, TilesIn(regions)) /\ (\A i \in 1 .. m : of[i] = 1)
      /\ (L = 2 => \A i \in 1 .. n : of[m + i] = 2)
  BY <1>1, <1>2, <1>6, <1>7 DEF AreJoined
<1>9. ASSUME NEW k \in 1 .. L, NEW i \in 1 .. regions[k].n PROVE of[TilesBefore(regions, k) + i] = k
  <2>1. CASE k = 1
    BY <1>2, <2>1, <1>8 DEF TilesBefore, m
  <2>2. CASE k = 2
    BY <1>1, <2>2, <1>8 DEF TilesBefore, m, n
  <2> QED BY <1>1, <2>1, <2>2
<1>10. ASSUME NEW i \in 1 .. TilesIn(regions) PROVE of[i] = IF i <= m THEN 1 ELSE 2
  <2>1. CASE i <= m
    BY <1>2, <2>1, <1>8
  <2>2. CASE ~(i <= m)
    <3>1. L = 2 /\ i - m \in 1 .. n /\ m + (i - m) = i
      BY <1>1, <1>2, <2>2
    <3>2. of[m + (i - m)] = 2
      BY <1>8, <3>1
    <3> QED BY <2>2, <3>1, <3>2
  <2> QED BY <2>1, <2>2
<1> QED BY <1>8, <1>9, <1>10 DEF of, L, m

LEMMA FirstTileIs ==
    ASSUME NEW regions, AreRegions(regions), NEW k \in 1 .. Len(regions)
    PROVE  FirstTileOf(regions, k) = TilesBefore(regions, k) + 1
<1> DEFINE of == RegionOf(regions)
           N == TilesBefore(regions, k)
           I == {i \in 1 .. Len(of) : of[i] = k}
<1>1. /\ IsList(of, TilesIn(regions)) /\ TilesIn(regions) \in Nat \ {0}
      /\ \A i \in 1 .. regions[k].n : of[N + i] = k
      /\ \A i \in 1 .. TilesIn(regions) : of[i] = IF i <= regions[1].n THEN 1 ELSE 2
      /\ N \in Nat /\ regions[k].n \in Nat \ {0} /\ N + regions[k].n <= TilesIn(regions)
      /\ regions[1].n \in Nat
  BY RegionOfIs, AllTilesAre DEF AreRegions
<1>2. Len(of) = TilesIn(regions)
  BY <1>1, ListIs
<1>3. FirstTileOf(regions, k) = IF I # {} THEN Min(I) ELSE 0
  BY DEF FirstTileOf, SelectInSeq
<1> HIDE DEF of
<1>4. N + 1 \in I
  BY <1>1, <1>2
<1>5. \A i \in I : N + 1 <= i
  <2> SUFFICES ASSUME NEW i \in I PROVE N + 1 <= i
    OBVIOUS
  <2>1. i \in 1 .. TilesIn(regions) /\ of[i] = k
    BY <1>2
  <2>2. k = 1 \/ k = 2
    BY DEF AreRegions
  <2>3. CASE k = 1
    BY <2>1, <2>3, <1>1 DEF TilesBefore
  <2>4. CASE k = 2
    BY <2>4, <1>1, <2>1 DEF TilesBefore
  <2> QED BY <2>2, <2>3, <2>4
<1>6. I \in SUBSET Nat /\ I # {}
  BY <1>1, <1>2, <1>4
<1>7. Min(I) \in I /\ \A i \in I : Min(I) <= i
  BY <1>6, LeastIs
<1>8. Min(I) = N + 1
  <2>1. Min(I) <= N + 1 /\ N + 1 <= Min(I) /\ Min(I) \in Nat /\ N + 1 \in Nat
    BY <1>1, <1>4, <1>5, <1>6, <1>7
  <2> HIDE DEF I, N
  <2> QED BY <2>1
<1> QED BY <1>3, <1>6, <1>8

LEMMA MeetsIs ==
    ASSUME NEW heap, NEW ranges, AreRanges(heap, ranges), NEW regions, AreRegions(regions),
           NoEndInside(regions, ranges), NoBoxShares(regions, ranges), NEW k \in 1 .. Len(regions)
    PROVE  MeetsRanges(ranges, regions[k], RegionTiles(regions[k]), TilesBefore(regions, k))
<1> DEFINE N == TilesBefore(regions, k)
           g == regions[k]
           t == RegionTiles(g)
           c == ranges[1].count
<1> SUFFICES ASSUME NEW e \in 1 .. g.n - 1, N + e = c
             PROVE  IF g.box THEN g.n > ranges[IF N < c THEN 1 ELSE 2].count ELSE t[e + 1][2] = 0
  BY DEF MeetsRanges
<1>1. /\ N \in Nat /\ g.n \in Nat \ {0} /\ N + g.n <= TilesIn(regions) /\ TilesIn(regions) \in Nat \ {0}
      /\ IsList(AllTiles(regions), TilesIn(regions))
      /\ \A i \in 1 .. g.n : AllTiles(regions)[N + i] = t[i] /\ RegionOf(regions)[N + i] = k
  BY AllTilesAre, RegionOfIs
<1>2. c \in Nat \ {0} /\ Len(ranges) \in 1 .. 2
  BY DEF AreRanges
<1>3. DOMAIN regions = 1 .. Len(regions)
  BY DEF AreRegions, IsList
<1>4. Len(AllTiles(regions)) = TilesIn(regions)
  BY <1>1, ListIs
<1> HIDE DEF N, g, t
<1>5. /\ e \in 1 .. g.n /\ e + 1 \in 1 .. g.n /\ N + (e + 1) = c + 1 /\ N < c
      /\ c \in 1 .. TilesIn(regions) - 1
  <2>1. N \in Nat /\ g.n \in Nat \ {0} /\ N + g.n <= TilesIn(regions) /\ TilesIn(regions) \in Nat \ {0}
    BY <1>1
  <2> QED BY <2>1, <1>2
<1>6. EndsInside(regions, ranges, c, k)
  <2>1. RangeOf(ranges, c) = 1 /\ RangeOf(ranges, c + 1) = 2
    BY <1>2 DEF RangeOf
  <2>2. RegionOf(regions)[N + e] = k /\ RegionOf(regions)[N + (e + 1)] = k
    BY <1>1, <1>5
  <2> QED BY <1>4, <1>5, <2>1, <2>2 DEF EndsInside, RangeEnds
<1>7. CASE g.box
  <2>1. ~(g.n <= ranges[RangeOf(ranges, FirstTileOf(regions, k))].count)
    BY <1>3, <1>6, <1>7 DEF NoBoxShares, g
  <2>2. FirstTileOf(regions, k) = N + 1
    BY FirstTileIs DEF N
  <2>3. RangeOf(ranges, N + 1) = 1
    BY <1>1, <1>2, <1>5 DEF RangeOf
  <2>4. ~(g.n <= ranges[1].count)
    BY <2>1, <2>2, <2>3
  <2>5. g.n > ranges[1].count
    BY <1>1, <1>2, <2>4
  <2> QED BY <1>5, <1>7, <2>5
<1>8. CASE ~g.box
  <2>1. AllTiles(regions)[c + 1][2] = 0
    BY <1>6, <1>8 DEF NoEndInside, g
  <2>2. AllTiles(regions)[N + (e + 1)] = t[e + 1]
    BY <1>1, <1>5
  <2> QED BY <1>5, <1>8, <2>1, <2>2
<1> QED BY <1>7, <1>8

\* The pages of all ranges.
AllPages(heap, ranges) == FlattenSeq([k \in DOMAIN ranges |-> RangePages(heap, ranges[k])])

LEMMA RangeListsAre ==
    ASSUME NEW heap \in Heaps, NEW n \in Nat \ {0}, NEW ranges \in RangeLists(n)
    PROVE  AreRanges(heap, ranges) /\ PagesIn(ranges) = n /\ IsList(ranges, Len(ranges))
<1> DEFINE flags == {"NONE", "NULL", "SKIP", "REUSE_SINGLE_TILE"}
           at(o, f, c) == [flag |-> f, offset |-> o, count |-> c]
           low == Min(HeapOffsets)
<1>1. low \in Nat /\ HeapOffsets \subseteq Nat
  BY SparseBindingsAssumption, LeastIs
<1> HIDE DEF low
<1>2. \/ \E o \in Nat, f \in flags : ranges = <<at(o, f, n)>>
      \/ \E f, g \in flags : \E c \in 1 .. n - 1 : ranges = <<at(low, f, c), at(low + c + 1, g, n - c)>>
  BY <1>1 DEF RangeLists, low
<1>3. ASSUME NEW o \in Nat, NEW f \in flags, ranges = <<at(o, f, n)>>
      PROVE  AreRanges(heap, ranges) /\ PagesIn(ranges) = n /\ IsList(ranges, Len(ranges))
  BY <1>3 DEF AreRanges, PagesIn, IsList
<1>4. ASSUME NEW f \in flags, NEW g \in flags, NEW c \in 1 .. n - 1,
             ranges = <<at(low, f, c), at(low + c + 1, g, n - c)>>
      PROVE  AreRanges(heap, ranges) /\ PagesIn(ranges) = n /\ IsList(ranges, Len(ranges))
  BY <1>4, <1>1 DEF AreRanges, PagesIn, IsList
<1> HIDE DEF at, flags
<1> QED BY <1>2, <1>3, <1>4

LEMMA AllPagesAre ==
    ASSUME NEW heap, NEW ranges, AreRanges(heap, ranges), IsList(ranges, Len(ranges))
    PROVE  RangesGive(heap, ranges, AllPages(heap, ranges)) /\ IsList(AllPages(heap, ranges), PagesIn(ranges))
<1> DEFINE L == Len(ranges)
           m == ranges[1].count
           n == ranges[2].count
           w == [k \in DOMAIN ranges |-> RangePages(heap, ranges[k])]
           pages == AllPages(heap, ranges)
<1>1. L \in 1 .. 2 /\ DOMAIN ranges = 1 .. L /\ 1 \in 1 .. L /\ (L = 2 => 2 \in 1 .. L)
  BY DEF AreRanges, IsList
<1>2. m \in Nat \ {0} /\ (L = 2 => n \in Nat \ {0})
  BY <1>1 DEF AreRanges
<1>3. ASSUME NEW k \in 1 .. L PROVE w[k] = RangePages(heap, ranges[k]) /\ IsList(w[k], ranges[k].count)
  BY <1>1 DEF AreRanges, RangePages, IsList
<1>4. IsList(w, L)
  BY <1>1 DEF IsList
<1>5. IsList(w[1], m) /\ (L = 2 => IsList(w[2], n)) /\ w[1] = RangePages(heap, ranges[1])
      /\ (L = 2 => w[2] = RangePages(heap, ranges[2]))
  BY <1>1, <1>3
<1> HIDE DEF w, L, m, n
<1>6. AreJoined(pages, w, L, m, n)
  BY <1>1, <1>4, <1>5, FlattenIs DEF AllPages, w
<1>7. PagesIn(ranges) = IF L = 1 THEN m ELSE m + n
  BY <1>2 DEF PagesIn, L, m, n
<1>8. IsList(pages, PagesIn(ranges))
  BY <1>6, <1>7 DEF AreJoined
<1>9. RangesGive(heap, ranges, pages)
  BY <1>5, <1>6 DEF AreJoined, RangesGive, m, n, L
<1> QED BY <1>8, <1>9

LEMMA NearIs ==
    ASSUME NEW heap, NEW regions, NEW ranges, AreRanges(heap, ranges), IsList(ranges, Len(ranges)),
           "farOffset" \notin UpdateHazards(regions, ranges), Len(AllTiles(regions)) = PagesIn(ranges)
    PROVE  \A r \in 1 .. Len(ranges) : (ranges[r].offset + ranges[r].count) * PageBytes <= UINT_MAX
<1> DEFINE all == AllTiles(regions)
           c(r) == ranges[r].count
           v(r) == (ranges[r].offset + IF ranges[r].count > Len(all) THEN 0 ELSE ranges[r].count) * PageBytes
           far == \E r \in DOMAIN ranges : v(r) > UINT_MAX
<1>1. far => "farOffset" \in UpdateHazards(regions, ranges)
  BY DEF UpdateHazards, AllTiles, Within
<1>2. \A r \in DOMAIN ranges : ~(v(r) > UINT_MAX)
  BY <1>1
<1>3. /\ Len(ranges) \in 1 .. 2 /\ DOMAIN ranges = 1 .. Len(ranges)
      /\ c(1) \in Nat \ {0} /\ (Len(ranges) = 2 => c(2) \in Nat \ {0})
  BY DEF AreRanges, IsList
<1>4. ASSUME NEW r \in 1 .. Len(ranges) PROVE ~(c(r) > Len(all))
  BY <1>3 DEF PagesIn
<1>5. ASSUME NEW r \in 1 .. Len(ranges) PROVE (ranges[r].offset + c(r)) * PageBytes <= UINT_MAX
  <2> DEFINE x == (ranges[r].offset + c(r)) * PageBytes
  <2>1. v(r) = x
    BY <1>4
  <2>2. x \in Nat /\ UINT_MAX \in Nat
    BY PageBytesAssumption, PageTableAssumption DEF AreRanges
  <2>3. ~(x > UINT_MAX)
    BY <1>2, <1>3, <2>1
  <2> HIDE DEF x
  <2> QED BY <2>2, <2>3 DEF x
<1> QED BY <1>5

\* Of the calls for a number of tiles of UpdateTileMappings that have no hazard.
LEMMA UpdateIs ==
    ASSUME NEW at, IsResource(at), NEW heap \in Heaps, NEW regions, AreRegions(regions),
           NEW ranges \in RangeLists(TilesIn(regions)),
           UpdateHazards(regions, ranges) \cap {"rangeEndsInside", "boxSharesRange", "farOffset"} = {},
           NEW table, NEW b, TableRight(table, b)
    PROVE  TableRight(UpdatedTable(table, heap, regions, ranges),
                      Bind(b, AllTiles(regions), AllPages(heap, ranges)))
<1> DEFINE to == AllTiles(regions)
           pages == AllPages(heap, ranges)
           n == TilesIn(regions)
<1>1. n \in Nat \ {0} /\ IsList(to, n)
  BY AllTilesAre
<1>2. AreRanges(heap, ranges) /\ PagesIn(ranges) = n /\ IsList(ranges, Len(ranges))
  BY <1>1, RangeListsAre DEF n
<1>3. RangesGive(heap, ranges, pages) /\ IsList(pages, n)
  BY <1>2, AllPagesAre
<1>4. Len(to) = n /\ DOMAIN to = 1 .. n
  BY <1>1, ListIs
<1>5. /\ NoEndInside(regions, ranges) /\ NoBoxShares(regions, ranges)
      /\ \A r \in 1 .. Len(ranges) : (ranges[r].offset + ranges[r].count) * PageBytes <= UINT_MAX
  BY <1>2, <1>4, HazardsAre, NearIs
<1>6. IsCall(heap, ranges, b, pages)
  BY <1>2, <1>3, <1>5 DEF IsCall, IsResource, TableRight
<1>7. ASSUME NEW k \in 1 .. Len(regions)
      PROVE  RegionMeets(ranges, to, regions[k], RegionTiles(regions[k]), TilesBefore(regions, k))
  BY <1>2, <1>5, MeetsIs, AllTilesAre DEF AreRegions, RegionMeets
<1>8. Len(regions) \in 1 .. 2
  BY DEF AreRegions
<1> DEFINE t == RegionTiles(regions[1])
           s == RegionTiles(regions[2])
<1>9. RegionMeets(ranges, to, regions[1], t, 0)
      /\ (Len(regions) = 2 => RegionMeets(ranges, to, regions[2], s, regions[1].n))
  BY <1>8, <1>7 DEF TilesBefore
<1> DEFINE total == regions[1].n + IF Len(regions) = 1 THEN 0 ELSE regions[2].n
<1>10. total = n
  BY DEF TilesIn
<1> HIDE DEF t, s, to, pages, n
<1>11. TableRight(UpdatedTable(table, heap, regions, ranges), BoundUpto(b, total, to, pages))
  BY <1>6, <1>8, <1>9, UpdatedTableIs
<1>12. Bind(b, to, pages) = BoundUpto(b, n, to, pages)
  BY <1>1, <1>4, BindIsUpto
<1> QED BY <1>10, <1>11, <1>12 DEF to, pages

LEMMA RegionListsAre ==
    ASSUME NEW at, IsResource(at), NEW regions \in RegionLists
    PROVE  AreRegions(regions) \/ regions = <<Everything>>
<1>1. \/ \E g \in Regions : regions = <<g>>
      \/ regions = <<Everything>>
      \/ \E g, h \in Regions : regions = <<g, h>>
  BY DEF RegionLists
<1>2. ASSUME NEW g \in Regions, regions = <<g>> PROVE AreRegions(regions)
  BY <1>2, RegionsAre DEF AreRegions, IsList
<1>3. ASSUME NEW g \in Regions, NEW h \in Regions, regions = <<g, h>> PROVE AreRegions(regions)
  BY <1>3, RegionsAre DEF AreRegions, IsList
<1> QED BY <1>1, <1>2, <1>3

(* A call of UpdateTileMappings with regions of a number of tiles and with  *)
(* ranges, whose borders need not meet: the n-th tile of all regions gets   *)
(* the n-th page of all ranges, and no other tile is changed.              *)
THEOREM UpdateBindsTiles ==
    ASSUME NEW at, IsResource(at), NEW heap \in Heaps,
           NEW regions \in RegionLists, regions # <<Everything>>, NEW ranges \in RangeLists(TilesIn(regions)),
           UpdateHazards(regions, ranges) \cap {"rangeEndsInside", "boxSharesRange", "farOffset"} = {},
           NEW table, NEW b, TableRight(table, b)
    PROVE  TableRight(UpdatedTable(table, heap, regions, ranges),
                      Bind(b, AllTiles(regions), AllPages(heap, ranges)))
BY RegionListsAre, UpdateIs
===============================================================================
