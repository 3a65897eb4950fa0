------------------------------- MODULE PageTable ------------------------------
(***************************************************************************)
(* The page tables of sparse resources (renderdoc/core/sparse_page_table): *)
(* which memory each page of a buffer or an image is bound to.  The D3D12  *)
(* driver keeps them up to date from UpdateTileMappings and                *)
(* CopyTileMappings, the Vulkan driver from vkQueueBindSparse; a capture   *)
(* holds them, and a replay binds what they say.                           *)
(*                                                                         *)
(* Images have two dimensions here; the third is treated as the second.    *)
(* SparseBindings has the calls of the drivers and what they should mean.  *)
(***************************************************************************)
EXTENDS PageMappings, SequencesExt

CONSTANT UINT_MAX        \* the largest 32-bit number

ASSUME PageTableAssumption == UINT_MAX \in Nat \ {0}

VARIABLE layout          \* the shape of the resource

-----------------------------------------------------------------------------
(* PageTable::Initialise.  A tail of a layout holds the pages of its       *)
(* smallest mips; a buffer is all tail.                                    *)

BufferLayout(byteSize) ==
    [dim |-> <<byteSize, 1>>, mips |-> 1, slices |-> 1, subs |-> 0, texels |-> <<PageBytes, 1>>,
     firstMip |-> 0, byteOffset |-> 0, byteStride |-> 0, packed |-> byteSize]

ImageLayout(dim, mips, slices, texels, firstTailMip, offset, stride, packed) ==
    LET tail == firstTailMip < mips
    IN [dim |-> dim, mips |-> mips, slices |-> slices, subs |-> slices * mips, texels |-> texels,
        firstMip   |-> IF tail THEN firstTailMip ELSE mips,
        byteOffset |-> IF tail THEN offset ELSE 0,
        byteStride |-> IF tail THEN stride ELSE 0,
        packed     |-> IF tail THEN packed ELSE 0]

NumTails == IF layout.firstMip >= layout.mips THEN 0
            ELSE IF layout.byteStride = 0 THEN 1 ELSE layout.slices

isSubresourceInMipTail(sub) == sub % layout.mips >= layout.firstMip

\* n >> by
Shifted(n, by) ==
    LET shifted[k \in 0 .. by] == IF k = 0 THEN n ELSE shifted[k - 1] \div 2 IN shifted[by]

MipDim(sub) == [d \in 1 .. 2 |-> Max({1, Shifted(layout.dim[d], sub % layout.mips)})]

calcSubresourcePageDim(sub) ==
    [d \in 1 .. 2 |-> (MipDim(sub)[d] + layout.texels[d] - 1) \div layout.texels[d]]

SubPages(sub) == calcSubresourcePageDim(sub)[1] * calcSubresourcePageDim(sub)[2]

TailBytes == layout.packed \div Max({1, NumTails})
TailPages == Pages(TailBytes)

\* A table has a mapping for every subresource, used or not, and every tail.
Subs  == {<<"sub", s>> : s \in 0 .. layout.subs - 1}
Tails == {<<"tail", k>> : k \in 0 .. NumTails - 1}

\* Slices may have a tail in common on Vulkan, where none is looked up by subresource.
MappingOf(sub) ==
    IF isSubresourceInMipTail(sub)
    THEN <<"tail", IF NumTails = 1 THEN 0 ELSE (sub \div layout.mips) % layout.slices>>
    ELSE <<"sub", sub>>

NumPages(key) == IF key \in Tails THEN TailPages ELSE SubPages(key[2])

UsedMappings == Tails \cup {key \in Subs : ~isSubresourceInMipTail(key[2])}

PageAt(coord, dim) == coord[2] * dim[1] + coord[1]

\* Where the next tile is after the end of sub.
NextSubresource(sub) == IF isSubresourceInMipTail(sub)
                        THEN (sub \div layout.mips + 1) * layout.mips ELSE sub + 1

-----------------------------------------------------------------------------
(* PageTable::setMipTailRange.  Nobody uses the offset it returns.         *)

\* The pages of a tail that a range of bytes touches, in order.
TailRange(start, bytes) ==
    LET first == start \div PageBytes
    IN [idx \in {p \in 0 .. TailPages - 1 : first <= p /\ p < Pages(start + bytes)} |-> idx - first]

\* One iteration of the loop over tails: st has the table, and the rest of the range.
SetOneTail(st, reused) ==
    LET whole    == st.start = 0 /\ st.bytes >= TailBytes
        range    == TailRange(st.start, st.bytes)
        consumed == IF whole THEN TailBytes ELSE PageBytes * Cardinality(DOMAIN range)
        padding  == layout.byteStride - TailBytes
        passed   == CASE whole -> IF reused THEN 0 ELSE layout.byteStride
                      [] OTHER -> padding + (IF reused \/ st.page.memory = NoHeap THEN 0 ELSE consumed)
        after    == [st.page EXCEPT !.offset = @ + passed]
    IN [table |-> [st.table EXCEPT ![<<"tail", st.tail>>] =
                      IF whole THEN SingleMapping(st.page, reused)
                      ELSE BindPages(@, TailPages, range, st.page, reused)],
        page  |-> after,
        tail  |-> st.tail + 1,
        start |-> 0,
        bytes |-> IF st.start + consumed >= TailBytes
                  THEN Max({0, st.bytes - consumed - padding}) ELSE 0]

SetNextTail(st, reused) == IF st.bytes = 0 THEN st ELSE SetOneTail(st, reused)

SetTails(start, reused) ==
    LET after[n \in 0 .. NumTails - start.tail] ==
            IF n = 0 THEN start ELSE SetNextTail(after[n - 1], reused)
    IN  after[NumTails - start.tail].table

setMipTailRange(table, resourceByteOffset, page, bytes, reused) ==
    LET start == resourceByteOffset - layout.byteOffset
    IN  IF start = 0 /\ bytes \in {layout.packed, Pages(layout.packed) * PageBytes}
        THEN [key \in DOMAIN table |->
                IF key \notin Tails THEN table[key]
                \* memoryByteOffset += i * byteStride, once for each tail before
                ELSE SingleMapping([page EXCEPT !.offset = @ + IF reused THEN 0 ELSE
                         layout.byteStride * ((key[2] * (key[2] - 1)) \div 2)], reused)]
        ELSE IF NumTails = 1
        THEN [table EXCEPT ![<<"tail", 0>>] =
                BindPages(@, TailPages, TailRange(start, bytes), page, reused)]
        ELSE LET first == start \div layout.byteStride
             IN SetTails([table |-> table, page |-> page, tail |-> first, bytes |-> bytes,
                          start |-> start - first * layout.byteStride], reused)

-----------------------------------------------------------------------------
(* PageTable::setImageBoxRange: a box of texels, whose edges may cut pages *)
(* at the border of the image.                                             *)

\* The pages of a box in order: its origin and size in pages.
BoxPages(origin, size, dim) ==
    LET at(n) == <<origin[1] + (n % size[1]), origin[2] + (n \div size[1])>>
    IN [n \in 0 .. size[1] * size[2] - 1 |-> PageAt(at(n), dim)]

setImageBoxRange(table, sub, coord, dim, page, reused) ==
    LET pageDim == calcSubresourcePageDim(sub)
        origin  == [d \in 1 .. 2 |-> coord[d] \div layout.texels[d]]
        size    == [d \in 1 .. 2 |-> (dim[d] + layout.texels[d] - 1) \div layout.texels[d]]
        box     == BoxPages(origin, size, pageDim)
        from    == IF page.memory = NoHeap THEN NoPage ELSE page
    IN [table EXCEPT ![<<"sub", sub>>] =
          IF origin = <<0, 0>> /\ size = pageDim THEN SingleMapping(from, reused)
          ELSE BindPages(@, SubPages(sub), AntiFunction(box), from, reused)]

-----------------------------------------------------------------------------
(* PageTable::setImageWrappedRange: pages from a coordinate on, through    *)
(* the subresources.  It takes the coordinate in texels, and returns where *)
(* it ends, in tiles when that is inside of a subresource.                 *)

\* One iteration of the loop, over the rest of one subresource.
SetWrapped(st, reused, update) ==
    LET key    == MappingOf(st.sub)
        inTail == isSubresourceInMipTail(st.sub)
        dim    == calcSubresourcePageDim(st.sub)
        n      == NumPages(key)
        whole  == st.coord = <<0, 0>> /\ st.bytes >= n * PageBytes
        tiles  == <<st.coord[1] \div layout.texels[1],
                    IF inTail THEN 0 ELSE st.coord[2] \div layout.texels[2]>>
        first  == IF whole THEN 0 ELSE PageAt(tiles, dim)
        wanted == st.bytes \div PageBytes
        range  == [idx \in first .. Min({first + wanted, n}) - 1 |-> idx - first]
        count  == Cardinality(DOMAIN range)
        inside == ~whole /\ count = wanted /\ first + wanted < n
    IN [table |-> IF ~update THEN st.table
                  ELSE [st.table EXCEPT ![key] =
                          IF whole THEN SingleMapping(st.page, reused)
                          ELSE BindPages(@, n, range, st.page, reused)],
        page  |-> IF reused THEN st.page ELSE PagesOn(st.page, count),
        bytes |-> st.bytes - count * PageBytes,
        sub   |-> IF inside THEN st.sub ELSE NextSubresource(st.sub),
        coord |-> CASE inside /\ inTail  -> <<tiles[1] + wanted * layout.texels[1], 0>>
                    [] inside /\ ~inTail -> <<(tiles[1] + wanted) % dim[1],
                                              (tiles[2] + wanted \div dim[1]) % dim[2]>>
                    [] OTHER -> IF ~inTail THEN <<0, 0>> ELSE IF whole THEN st.coord ELSE tiles]

SetNextWrapped(st, reused, update) ==
    IF st.bytes > 0 /\ (isSubresourceInMipTail(st.sub) \/ st.sub < layout.subs)
    THEN SetWrapped(st, reused, update) ELSE st

\* Each iteration takes a page or more.
SetAllWrapped(start, reused, update) ==
    LET after[n \in 0 .. start.bytes \div PageBytes] ==
            IF n = 0 THEN start ELSE SetNextWrapped(after[n - 1], reused, update)
    IN  after[start.bytes \div PageBytes]

\* Where a range ends that has bytes left is not told.
WhereItEnds(end) == IF end.bytes = 0 THEN end ELSE [end EXCEPT !.sub = 0, !.coord = <<0, 0>>]

setImageWrappedRange(table, sub, coord, byteSize, page, reused, update) ==
    WhereItEnds(SetAllWrapped(
        [table |-> table, sub |-> sub, coord |-> coord,
         bytes |-> IF byteSize = UINT_MAX THEN byteSize - (byteSize % PageBytes) ELSE byteSize,
         page  |-> IF page.memory = NoHeap THEN NoPage ELSE page],
        reused, update))

-----------------------------------------------------------------------------
(* PageTable::copyImageBoxRange and copyImageWrappedRange, between two      *)
(* tables of one layout.  Coordinates are in tiles.                        *)

getMipTailByteOffsetForSubresource(sub) ==
    layout.byteOffset + layout.byteStride * ((sub \div layout.mips) % layout.slices)

\* What both do between tails: page by page, always to the first page.
CopyTailPage(table, coord, page) == setMipTailRange(table, coord[1] * PageBytes, page, PageBytes, FALSE)

CopyTailPages(table, coord, n, src, srcCoord) ==
    LET after[p \in 0 .. n] ==
            IF p = 0 THEN table ELSE CopyTailPage(after[p - 1], coord, getPage(src, srcCoord[1] + p - 1))
    IN  after[n]

CopyTail(table, sub, coord, n, srcTable, srcSub, srcCoord) ==
    LET src == srcTable[MappingOf(srcSub)]
    IN  IF hasSingleMapping(src)
        THEN setMipTailRange(table, getMipTailByteOffsetForSubresource(sub) + coord[1] * PageBytes,
                             IF src.single.memory = NoHeap THEN NoPage
                             ELSE [src.single EXCEPT !.offset = @ + srcCoord[1] * PageBytes],
                             n * PageBytes, src.reused)
        ELSE CopyTailPages(table, coord, n, src, srcCoord)

BothInTails(sub, srcSub, n) ==
    /\ isSubresourceInMipTail(sub) /\ isSubresourceInMipTail(srcSub)
    /\ n <= (layout.packed \div layout.slices) \div PageBytes

copyImageBoxRange(table, sub, coord, size, srcTable, srcSub, srcCoord) ==
    LET dim    == calcSubresourcePageDim(sub)
        srcDim == calcSubresourcePageDim(srcSub)
        src    == srcTable[<<"sub", srcSub>>]
        to     == BoxPages(coord, size, dim)
        from   == BoxPages(srcCoord, size, srcDim)
        split  == createPages(table[<<"sub", sub>>], dim[1] * dim[2])
        copied == [split EXCEPT !.pages = [idx \in DOMAIN @ |->
                     IF \E n \in DOMAIN to : to[n] = idx
                     THEN getPage(src, from[AntiFunction(to)[idx]]) ELSE @[idx]]]
    IN  IF BothInTails(sub, srcSub, size[1])
        THEN CopyTail(table, sub, coord, size[1], srcTable, srcSub, srcCoord)
        ELSE [table EXCEPT ![<<"sub", sub>>] =
                IF size = dim /\ (srcDim = dim \/ \A d \in 1 .. 2 : srcDim[d] >= size[d]
                                                    /\ hasSingleMapping(src))
                THEN src ELSE simplifyUnmapped(copied)]

\* One iteration: a whole subresource of the destination, or one page.
CopyWrapped(st, srcTable, numTiles) ==
    LET dst   == <<"sub", st.sub>>
        src   == srcTable[<<"sub", st.srcSub>>]
        n     == SubPages(st.sub)
        srcN  == SubPages(st.srcSub)
        whole == st.page = 0 /\ n <= numTiles - st.done /\ hasSingleMapping(src) /\ n <= srcN - st.srcPage
        count == IF whole THEN n ELSE 1
        split == createPages(st.table[dst], n)
        table == [st.table EXCEPT ![dst] = IF whole THEN src
                    ELSE [split EXCEPT !.pages[st.page] = getPage(src, st.srcPage)]]
        left    == st.page + count >= n
        srcLeft == st.srcPage + count >= srcN
        srcNext == IF srcLeft THEN NextSubresource(st.srcSub) ELSE st.srcSub
        next    == IF left THEN NextSubresource(st.sub) ELSE st.sub
    IN [table   |-> IF left \/ st.done + count >= numTiles \/ srcNext >= layout.subs
                    THEN [table EXCEPT ![dst] = simplifyUnmapped(@)] ELSE table,
        sub     |-> next,
        page    |-> IF left THEN 0 ELSE st.page + count,
        srcSub  |-> srcNext,
        srcPage |-> IF srcLeft THEN 0 ELSE st.srcPage + count,
        done    |-> st.done + count]

CopyNextWrapped(st, srcTable, numTiles) ==
    IF st.done < numTiles /\ st.sub < layout.subs /\ st.srcSub < layout.subs
    THEN CopyWrapped(st, srcTable, numTiles) ELSE st

CopyAllWrapped(start, srcTable, numTiles) ==
    LET after[n \in 0 .. numTiles] ==
            IF n = 0 THEN start ELSE CopyNextWrapped(after[n - 1], srcTable, numTiles)
    IN  after[numTiles]

copyImageWrappedRange(table, sub, coord, numTiles, srcTable, srcSub, srcCoord) ==
    IF BothInTails(sub, srcSub, numTiles)
    THEN CopyTail(table, sub, coord, numTiles, srcTable, srcSub, srcCoord)
    ELSE CopyAllWrapped(
             [table |-> table, sub |-> sub, srcSub |-> srcSub, done |-> 0,
              page    |-> PageAt(coord, calcSubresourcePageDim(sub)),
              srcPage |-> PageAt(srcCoord, calcSubresourcePageDim(srcSub))],
             srcTable, numTiles).table
===============================================================================
