----------------------------- MODULE SparseBindings ----------------------------
(***************************************************************************)
(* How the drivers keep page tables: the D3D12 queue from                  *)
(* UpdateTileMappings and CopyTileMappings, the Vulkan queue from the      *)
(* binds of vkQueueBindSparse.  A capture stores the tables, and a replay  *)
(* binds the pages again from them (SparseBinds, SparseBinding).           *)
(*                                                                         *)
(* boundTo is what the calls of the application mean by the rules of the   *)
(* APIs, page by page.  TableHazards are the calls that the code gets      *)
(* wrong, as the README says of each.                                      *)
(***************************************************************************)
EXTENDS PageTable

CONSTANTS
    VulkanLayouts,   \* the resources of an application that uses Vulkan
    D3D12Layouts,    \* and of one that uses D3D12
    Heaps,           \* memory to bind to
    HeapOffsets,     \* where in it, in pages
    MaxBindings,     \* bound on the calls of the application
    TableHazards

ASSUME SparseBindingsAssumption ==
    /\ VulkanLayouts \cap D3D12Layouts = {}
    /\ NoHeap \notin Heaps /\ "kept" \notin Heaps /\ HeapOffsets \subseteq Nat /\ HeapOffsets # {}
    /\ MaxBindings \in Nat
    /\ TableHazards \subseteq {"unboundedBuffer", "rangeEndsInside", "boxSharesRange", "farOffset",
                               "largeRegion", "wrappedCopy", "tailCopy", "cutTail", "smallerCopy",
                               "allTails", "aliased"}

ASSUME WidthAssumption == (UINT_MAX + 1) % PageBytes = 0

Positive == Nat \ {0}

\* Of a buffer, or of an image; what the APIs say of several tails of one.
IsLayout(l) ==
    /\ l \in [dim : Positive \X Positive, texels : Positive \X Positive, mips : Positive,
              slices : Positive, subs : Nat, firstMip : 0 .. l.mips, byteOffset : Nat,
              byteStride : Nat, packed : Nat]
    /\ IF l.subs = 0 THEN l = BufferLayout(l.packed) ELSE l.subs = l.slices * l.mips
    /\ l.firstMip < l.mips => l.packed > 0
    /\ (l.firstMip < l.mips /\ l.byteStride > 0 /\ l.slices > 1) =>
          LET tail == l.packed \div l.slices IN
          /\ l.packed = l.slices * tail /\ tail % PageBytes = 0
          /\ tail <= l.byteStride /\ l.byteStride % PageBytes = 0

ASSUME LayoutAssumption == \A l \in VulkanLayouts \cup D3D12Layouts : IsLayout(l)

VARIABLES
    tiles,       \* the pages of the resource in the order of the API
    tables,      \* the page tables of two resources of the layout
    boundTo,     \* what each of their pages is bound to
    bindings     \* the number of calls so far

sparseVars == <<layout, tiles, tables, boundTo, bindings>>

\* The pages of the subresources, each followed by the next, with the tail in
\* place of the mips in it.
TilesThrough(seq, key) ==
    IF seq # <<>> /\ Last(seq)[1] = key THEN seq
    ELSE seq \o [n \in 1 .. NumPages(key) |-> <<key, n - 1>>]

TileOrder ==
    LET upto[sub \in 0 .. Max({1, layout.subs})] ==
            IF sub = 0 THEN <<>> ELSE TilesThrough(upto[sub - 1], MappingOf(sub - 1))
    IN  upto[Max({1, layout.subs})]

UsedPages == Range(tiles)

SparseInit ==
    /\ layout \in VulkanLayouts \cup D3D12Layouts
    /\ tiles = TileOrder
    /\ tables = [r \in 1 .. 2 |-> [key \in Subs \cup Tails |-> Unmapped]]
    /\ boundTo = [r \in 1 .. 2 |-> [tile \in UsedPages |-> NoPage]]
    /\ bindings = 0

Called(n) == bindings' = bindings + n /\ UNCHANGED <<layout, tiles>>

-----------------------------------------------------------------------------
(* What the D3D12 API says of tiles.  A region is a box in a subresource,  *)
(* or a number of tiles from a coordinate on, through the subresources and *)
(* the tail.  The tiles of the regions meet those of the ranges in order.  *)

TilesFrom(sub, coord, n) ==
    LET idx   == IF isSubresourceInMipTail(sub) THEN coord[1]
                 ELSE PageAt(coord, calcSubresourcePageDim(sub))
        first == CHOOSE p \in DOMAIN tiles : tiles[p] = <<MappingOf(sub), idx>>
    IN SubSeq(tiles, first, Min({first + n - 1, Len(tiles)}))

BoxTiles(sub, coord, size) ==
    LET box == BoxPages(coord, size, calcSubresourcePageDim(sub))
    IN [n \in 1 .. size[1] * size[2] |-> <<MappingOf(sub), box[n - 1]>>]

RegionTiles(g) == IF g.box THEN BoxTiles(g.sub, g.coord, g.size) ELSE TilesFrom(g.sub, g.coord, g.n)

Kept == Page("kept", 0)

RangePages(heap, range) ==
    [n \in 1 .. range.count |->
        CASE range.flag = "NULL"              -> NoPage
          [] range.flag = "SKIP"              -> Kept
          [] range.flag = "REUSE_SINGLE_TILE" -> Page(heap, range.offset * PageBytes)
          [] OTHER                            -> Page(heap, (range.offset + n - 1) * PageBytes)]

\* The pages are bound to the tiles, one after the other: the last one stays.
Bind(b, to, pages) ==
    [tile \in DOMAIN b |->
        LET bound == {n \in DOMAIN to : to[n] = tile /\ pages[n] # Kept}
        IN  IF bound = {} THEN b[tile] ELSE pages[Max(bound)]]

-----------------------------------------------------------------------------
(* WrappedID3D12CommandQueue::UpdateTileMappings.  A state of its loops    *)
(* has the table, the current range and how much of that was used.         *)

Consume(ranges, st, n) ==
    IF st.used + n >= ranges[st.range].count
    THEN [st EXCEPT !.range = @ + 1, !.used = 0] ELSE [st EXCEPT !.used = @ + n]

\* The page of the current range to go on with; 32 bits wide.
RangePage(heap, range, used) ==
    IF range.flag = "NULL" THEN NoPage
    ELSE LET at == range.offset + (IF range.flag = "REUSE_SINGLE_TILE" THEN 0 ELSE used)
         IN Page(heap, (at * PageBytes) % (UINT_MAX + 1))

Texels(coord) == [d \in 1 .. 2 |-> coord[d] * layout.texels[d]]

\* A box of n tiles in region g.
SetBox(heap, ranges, st, g, coord, size, n) ==
    LET range == ranges[st.range] IN
    Consume(ranges, IF range.flag = "SKIP" THEN st
                    ELSE [st EXCEPT !.table = setImageBoxRange(@, g.sub, Texels(coord), Texels(size),
                             RangePage(heap, range, st.used), range.flag = "REUSE_SINGLE_TILE")], n)

\* A box that fits the range in one call, else tile by tile.
UpdateBox(heap, ranges, start, g) ==
    LET coordOf(n) == <<g.coord[1] + ((n - 1) % g.size[1]), g.coord[2] + ((n - 1) \div g.size[1])>>
        after[n \in 0 .. g.n] ==
            IF n = 0 THEN start ELSE SetBox(heap, ranges, after[n - 1], g, coordOf(n), <<1, 1>>, 1)
    IN  IF g.n <= ranges[start.range].count THEN SetBox(heap, ranges, start, g, g.coord, g.size, g.n)
        ELSE after[g.n]

\* The rest of the range or of the region, whichever is less, at a time.
NextTiles(ranges, st, g) == Min({g.n - st.done, ranges[st.range].count - st.used})

SetNextTiles(heap, range, st, n) ==
    setImageWrappedRange(st.table, st.sub, st.coord, (n * PageBytes) % (UINT_MAX + 1),
                         RangePage(heap, range, st.used),
                         range.flag = "REUSE_SINGLE_TILE", range.flag # "SKIP")

GoOn(st, set, n) ==
    [st EXCEPT !.table = set.table, !.sub = set.sub, !.coord = set.coord, !.done = @ + n]

UpdateTiles(heap, ranges, st, n) ==
    GoOn(Consume(ranges, st, n), SetNextTiles(heap, ranges[st.range], st, n), n)

UpdateNextWrapped(heap, ranges, st, g) ==
    IF st.done < g.n THEN UpdateTiles(heap, ranges, st, NextTiles(ranges, st, g)) ELSE st

RangesLeft(st) == [table |-> st.table, range |-> st.range, used |-> st.used]

UpdateWrapped(heap, ranges, start, g) ==
    LET after[n \in 0 .. Len(ranges)] ==
            IF n = 0 THEN [table |-> start.table, range |-> start.range, used |-> start.used,
                           sub |-> g.sub, coord |-> Texels(g.coord), done |-> 0]
            ELSE UpdateNextWrapped(heap, ranges, after[n - 1], g)
    IN  RangesLeft(after[Len(ranges)])

UpdateRegion(heap, ranges, st, g) ==
    IF st.range > Len(ranges) THEN st
    ELSE IF g.box THEN UpdateBox(heap, ranges, st, g) ELSE UpdateWrapped(heap, ranges, st, g)

UpdatedTable(table, heap, regions, ranges) ==
    LET after[k \in 0 .. Len(regions)] ==
            IF k = 0 THEN [table |-> table, range |-> 1, used |-> 0]
            ELSE UpdateRegion(heap, ranges, after[k - 1], regions[k])
    IN  after[Len(regions)].table

BoxesIn(sub) ==
    LET dim == calcSubresourcePageDim(sub)
    IN {[box |-> TRUE, sub |-> sub, coord |-> c, size |-> s, n |-> s[1] * s[2]] :
           c \in (0 .. dim[1] - 1) \X (0 .. dim[2] - 1), s \in (1 .. dim[1]) \X (1 .. dim[2])}

Boxes == UNION {BoxesIn(key[2]) : key \in UsedMappings \cap Subs}

FitsIn(g) == LET dim == calcSubresourcePageDim(g.sub)
             IN \A d \in 1 .. 2 : g.coord[d] + g.size[d] <= dim[d]

\* A region of n tiles from the p-th on.
RegionAt(p, n) ==
    LET key == tiles[p][1] idx == tiles[p][2] IN
    IF key \in Tails
    THEN [box |-> FALSE, sub |-> key[2] * layout.mips + layout.firstMip, coord |-> <<idx, 0>>, n |-> n]
    ELSE LET dim == calcSubresourcePageDim(key[2])
         IN [box |-> FALSE, sub |-> key[2], coord |-> <<idx % dim[1], idx \div dim[1]>>, n |-> n]

\* Short ones, and those to the end.
WrappedRegions ==
    LET last == Len(tiles) IN
    {RegionAt(pn[1], pn[2]) : pn \in {pn \in (1 .. last) \X (1 .. last) :
        pn[1] + pn[2] - 1 <= last /\ (pn[2] <= 2 \/ pn[1] + pn[2] - 1 = last)}}

Regions == {g \in Boxes : FitsIn(g)} \cup WrappedRegions

Everything == [RegionAt(1, 1) EXCEPT !.n = UINT_MAX]

RegionLists == {<<g>> : g \in Regions \cup {Everything}}
    \cup (IF bindings = 0 THEN {<<g, h>> : g, h \in {g \in Regions : g.n <= 2}} ELSE {})

TilesIn(regions) == regions[1].n + IF Len(regions) = 1 THEN 0 ELSE regions[2].n

\* Of one range, or of two with a gap between them in the heap.
RangeLists(n) ==
    LET flags == {"NONE", "NULL", "SKIP", "REUSE_SINGLE_TILE"}
        at(o, f, c) == [flag |-> f, offset |-> o, count |-> c]
        low == Min(HeapOffsets)
    IN {<<at(o, f, n)>> : o \in HeapOffsets, f \in {"NONE", "REUSE_SINGLE_TILE"}}
       \cup {<<at(low, f, n)>> : f \in {"NULL", "SKIP"}}
       \cup (IF n = UINT_MAX THEN {}
             ELSE {<<at(low, f, c), at(low + c + 1, g, n - c)>> :
                     f, g \in flags, c \in {1, n - 1} \cap (1 .. n - 1)})

\* The calls the code gets wrong.
UpdateHazards(regions, ranges) ==
    LET within   == [k \in DOMAIN regions |-> RegionTiles(regions[k])]
        all      == FlattenSeq(within)
        regionOf == FlattenSeq([k \in DOMAIN regions |-> [n \in DOMAIN within[k] |-> k]])
        rangeOf(n) == IF n <= ranges[1].count THEN 1 ELSE 2
        ends     == {n \in 1 .. Len(all) - 1 : rangeOf(n) # rangeOf(n + 1)}
    IN {h \in {"unboundedBuffer", "rangeEndsInside", "boxSharesRange", "farOffset", "largeRegion"} :
         CASE h = "unboundedBuffer" ->
                regions[1].n = UINT_MAX /\ layout.firstMip = 0 /\ ranges[1].flag = "NONE"
           [] h = "rangeEndsInside" ->
                \E n \in ends : regionOf[n] = regionOf[n + 1] /\ ~regions[regionOf[n]].box /\ all[n + 1][2] # 0
           [] h = "boxSharesRange" ->
                \E k \in DOMAIN regions : regions[k].box /\ \E n \in ends :
                    /\ regionOf[n] = k /\ regionOf[n + 1] = k
                    /\ regions[k].n <= ranges[rangeOf(SelectInSeq(regionOf, LAMBDA x : x = k))].count
           [] h = "farOffset" ->
                \E k \in DOMAIN ranges :
                    (ranges[k].offset + IF ranges[k].count > Len(all) THEN 0 ELSE ranges[k].count)
                        * PageBytes > UINT_MAX
           [] h = "largeRegion" ->
                regions[1].n = UINT_MAX /\ Len(all) * PageBytes > (UINT_MAX * PageBytes) % (UINT_MAX + 1)}

UpdateTileMappings(heap, regions, ranges) ==
    /\ Called(IF Len(regions) = 1 THEN 1 ELSE MaxBindings)
    /\ UpdateHazards(regions, ranges) \subseteq TableHazards
    /\ tables' = [tables EXCEPT ![1] = UpdatedTable(@, heap, regions, ranges)]
    /\ boundTo' = [boundTo EXCEPT ![1] =
                   Bind(@, FlattenSeq([k \in DOMAIN regions |-> RegionTiles(regions[k])]),
                        FlattenSeq([k \in DOMAIN ranges |-> RangePages(heap, ranges[k])]))]

-----------------------------------------------------------------------------
(* WrappedID3D12CommandQueue::CopyTileMappings, within a resource from a   *)
(* copy of its table.  Without a box it passes bytes for tiles.            *)

BufferBoxes == {[box |-> TRUE, sub |-> 0, coord |-> <<x, 0>>, size |-> <<w, 1>>, n |-> w] :
                   x \in 0 .. 2, w \in 1 .. 3}

CopyRegions == WrappedRegions \cup {g \in IF layout.subs = 0 THEN BufferBoxes ELSE Boxes : FitsIn(g)}

CopyHazards(to, from) ==
    LET dim == calcSubresourcePageDim(to.sub)
        src == tables[1][MappingOf(from.sub)]
    IN {h \in {"wrappedCopy", "tailCopy", "cutTail", "smallerCopy"} :
         CASE h = "wrappedCopy" ->
                ~to.box /\ ~(/\ NumTails = 0
                             /\ to.sub % layout.mips = from.sub % layout.mips /\ to.coord = from.coord
                             /\ Last(tiles) \in {Last(RegionTiles(to)), Last(RegionTiles(from))})
           [] h = "tailCopy" ->
                to.box /\ layout.subs = 0 /\ IF hasSingleMapping(src) THEN src.reused /\ from.coord[1] # 0
                                             ELSE to.n > 1
           [] h = "cutTail" ->
                to.box /\ layout.subs = 0 /\ to.n > layout.packed \div PageBytes
           [] h = "smallerCopy" ->
                /\ to.box /\ to.size = dim /\ layout.subs # 0
                /\ calcSubresourcePageDim(from.sub) # dim /\ hasSingleMapping(src)}

SameShape(to) ==
    {g \in CopyRegions : g.box = to.box /\ g.n = to.n /\ (to.box => g.size = to.size)}

CopyTileMappings(dst, to, from) ==
    /\ Called(1)
    /\ CopyHazards(to, from) \subseteq TableHazards
    /\ tables' = [tables EXCEPT ![dst] =
                    IF to.box
                    THEN copyImageBoxRange(@, to.sub, to.coord, to.size, tables[1], from.sub, from.coord)
                    ELSE copyImageWrappedRange(@, to.sub, to.coord, to.n * PageBytes,
                                               tables[1], from.sub, from.coord)]
    /\ boundTo' = [boundTo EXCEPT ![dst] =
                   Bind(@, RegionTiles(to), [n \in 1 .. to.n |-> boundTo[1][RegionTiles(from)[n]]])]

-----------------------------------------------------------------------------
(* ResourceInfo::Update, for the binds of vkQueueBindSparse: boxes of an   *)
(* image, or ranges of bytes of a buffer or of the tails of an image.      *)

\* No page of memory is bound twice, without the flag for aliasing.
NotAliased(b) == \A t, u \in UsedPages : t # u /\ b[t].memory # NoHeap => b[t] # b[u]

VulkanPages == {NoPage} \cup {Page(heap, o * PageBytes) : heap \in Heaps, o \in HeapOffsets}

UpdateImage(g, page) ==
    LET extent == [d \in 1 .. 2 |-> Min({Texels(g.size)[d], MipDim(g.sub)[d] - Texels(g.coord)[d]})]
    IN  /\ FitsIn(g)
        /\ Called(1)
        /\ tables' = [tables EXCEPT ![1] = setImageBoxRange(@, g.sub, Texels(g.coord), extent, page, FALSE)]
        /\ boundTo' = [boundTo EXCEPT ![1] =
                       Bind(@, RegionTiles(g), [n \in 1 .. g.n |-> PagesOn(page, n - 1)])]
        /\ "aliased" \in TableHazards \/ NotAliased(boundTo'[1])

\* Where a page of a tail is in the resource.
TailAddress(tile) == layout.byteOffset + tile[1][2] * layout.byteStride + tile[2] * PageBytes

TailTiles == {tile \in UsedPages : tile[1] \in Tails}

UpdateOpaque(first, last, page, atEnd) ==
    LET bytes  == TailAddress(last) - TailAddress(first)
                     + IF atEnd THEN layout.packed - last[2] * PageBytes ELSE PageBytes
        within == {tile \in TailTiles : TailAddress(tile) \in TailAddress(first) .. TailAddress(last)}
    IN  /\ TailAddress(first) <= TailAddress(last)
        /\ atEnd => layout.subs = 0 /\ last[2] = TailPages - 1
        /\ (NumTails > 1 /\ TailAddress(first) = layout.byteOffset /\ bytes = layout.packed)
              => "allTails" \in TableHazards
        /\ Called(1)
        /\ tables' = [tables EXCEPT ![1] = setMipTailRange(@, TailAddress(first), page, bytes, FALSE)]
        /\ boundTo' = [boundTo EXCEPT ![1] = [tile \in UsedPages |->
                       IF tile \notin within THEN @[tile]
                       ELSE PagesOn(page, (TailAddress(tile) - TailAddress(first)) \div PageBytes)]]
        /\ "aliased" \in TableHazards \/ NotAliased(boundTo'[1])

-----------------------------------------------------------------------------
D3D12Next ==
    \/ \E heap \in Heaps, regions \in RegionLists :
          \E ranges \in RangeLists(TilesIn(regions)) : UpdateTileMappings(heap, regions, ranges)
    \/ \E dst \in 1 .. 2, to \in CopyRegions : \E from \in SameShape(to) :
          CopyTileMappings(dst, to, from)

VulkanNext ==
    \/ \E g \in Boxes, page \in VulkanPages : UpdateImage(g, page)
    \/ \E first, last \in TailTiles, page \in VulkanPages, atEnd \in BOOLEAN :
          UpdateOpaque(first, last, page, atEnd)

SparseNext ==
    /\ bindings < MaxBindings
    /\ \/ layout \in D3D12Layouts /\ D3D12Next
       \/ layout \in VulkanLayouts /\ VulkanNext

SparseSpec == SparseInit /\ [][SparseNext]_sparseVars

-----------------------------------------------------------------------------
(* What a replay binds.  A table is loaded from the file without           *)
(* singlePageReused (DoSerialise of PageRangeMapping), and bound again in  *)
(* runs of pages: a single mapping at once, pages one by one, where        *)
(* consecutive ones are joined to one run.                                 *)

Loaded(m) == [m EXCEPT !.reused = FALSE]

\* SparseBinds (D3D12) compares with the end of the run, SparseBinding (Vulkan
\* buffers) with its second page; images of Vulkan are bound page by page.
Joins(run, page) ==
    /\ layout \in D3D12Layouts \/ layout.subs = 0
    /\ page.memory = run.page.memory
    /\ \/ page.memory = NoHeap
       \/ page.offset = run.page.offset
                          + PageBytes * (IF layout \in D3D12Layouts THEN run.count ELSE 1)

BindPage(runs, idx, page) ==
    IF runs # <<>> /\ Joins(Last(runs), page)
    THEN [runs EXCEPT ![Len(runs)].count = @ + 1]
    ELSE Append(runs, [first |-> idx, count |-> 1, page |-> page])

SparseBinds(m, n) ==
    LET upto[p \in 0 .. n] ==
            IF p = 0 THEN <<>> ELSE BindPage(upto[p - 1], p - 1, m.pages[p - 1])
    IN  IF hasSingleMapping(m) THEN <<[first |-> 0, count |-> n, page |-> m.single]>> ELSE upto[n]

PageOfRuns(runs, idx) ==
    LET run == runs[SelectInSeq(runs, LAMBDA x : x.first <= idx /\ idx < x.first + x.count)]
    IN  PagesOn(run.page, idx - run.first)

ReplayedPages(m, n) ==
    LET runs == SparseBinds(Loaded(m), n) IN [idx \in 0 .. n - 1 |-> PageOfRuns(runs, idx)]

-----------------------------------------------------------------------------
(* Mappings that are whole, split and whole again.                         *)
PageTableTypeOK ==
    /\ bindings \in 0 .. MaxBindings
    /\ \A r \in 1 .. 2 : \A key \in Subs \cup Tails :
         LET m == tables[r][key] IN
         /\ m.reused \in BOOLEAN
         /\ m.single.memory \in Heaps \cup {NoHeap} /\ m.single.offset \in Nat
         /\ ~hasSingleMapping(m) => /\ DOMAIN m.pages = 0 .. NumPages(key) - 1
                                    /\ m.single = NoPage /\ ~m.reused

\* Of the mapping of resource r at key, with the pages that getPage finds.
PagesAreBound(r, key, page(_)) ==
    \A idx \in 0 .. NumPages(key) - 1 : SamePage(page(idx), boundTo[r][<<key, idx>>])

UnmappedIsKnown(r, key) ==
    isMapped(tables[r][key]) =
        \E idx \in 0 .. NumPages(key) - 1 : boundTo[r][<<key, idx>>].memory # NoHeap

ReplayBindsPages(r, key) ==
    LET replayed == ReplayedPages(tables[r][key], NumPages(key))
    IN  PagesAreBound(r, key, LAMBDA idx : replayed[idx])

(* Whatever was bound, split and copied, the table says of every page what  *)
(* the application bound it to, knows which subresources have no memory     *)
(* (their contents are left out), and makes a replay bind the same; except  *)
(* for mappings of a whole subresource to one page (ReusedPagesReplayed).   *)
BindingsKept ==
    \A r \in 1 .. 2 : \A key \in UsedMappings :
        LET m == tables[r][key] IN
        /\ PagesAreBound(r, key, LAMBDA idx : getPage(m, idx))
        /\ UnmappedIsKnown(r, key)
        /\ m.reused \/ ReplayBindsPages(r, key)

(* A replay binds the same also where one page is used for all of a         *)
(* subresource.  singlePageReused is there to tell this from consecutive    *)
(* pages (sparse_page_table.h:66), but is not in the file.                  *)
ReusedPagesReplayed ==
    \A r \in 1 .. 2 : \A key \in UsedMappings : ReplayBindsPages(r, key)
===============================================================================
