-------------------------- MODULE ResourceManagerProofs ------------------------
(***************************************************************************)
(* Frame references: for any number of subresources and accesses and for   *)
(* every policy, what is read in a replay is what was read in the captured *)
(* frame, and a replay begins with clean memory.                           *)
(*                                                                         *)
(* What carries the proof is a meaning for each reference (Means), about   *)
(* the accesses alone: it holds of the references of the frame, of the     *)
(* descriptors and of the commands composed in the order of the submission *)
(* (Gathered), because composition is associative and, where the order is  *)
(* not known, falls to ReadBeforeWrite, which promises nothing.            *)
(*                                                                         *)
(* Initial contents: for any number of resources and images bound to them, *)
(* records live as long as they are used, and the file of a frame holds    *)
(* what the frame needs.                                                   *)
(*                                                                         *)
(* Records are counted for any sets of users (Counted); Delete, which      *)
(* recurses to the parents, is proved to give back one reference where one *)
(* is too many (CountedButFor), by the least resource for which it would   *)
(* not, as parents have smaller ids.  For contents the invariant says how  *)
(* each resource of the start of the frame is still in time (InTime).      *)
(***************************************************************************)
EXTENDS FrameRefs, InitialContents, SequenceTheorems, FiniteSetTheorems, WellFoundedInduction, TLAPS


Access == [sub : Subresources, type : Writes \cup {eFrameRef_Read}, half : Halves,
           seen : [Halves -> Int]]

CoreTypes ==
    /\ accesses \in Seq(Access)
    /\ contents \in [Subresources -> [Halves -> Int]]
    /\ next \in Nat \ {0}
    /\ phase \in {"capture", "replay"} /\ kind \in {"image", "memory"} /\ policy \in InitPolicy
    /\ refs \in [Subresources -> FrameRefType] /\ recorded \in [Subresources -> FrameRefType]
    /\ bound \in [Subresources -> {eFrameRef_None, eFrameRef_Read, eFrameRef_ReadBeforeWrite}]

-----------------------------------------------------------------------------
(* What the accesses leave and see.                                        *)

IsRead(k, s) == accesses[k].sub = s /\ accesses[k].type = eFrameRef_Read

IsWrite(k, s) == accesses[k].sub = s /\ accesses[k].type # eFrameRef_Read

Overwrites(k, s, h) ==
    IsWrite(k, s) /\ (accesses[k].type = eFrameRef_PartialWrite => accesses[k].half = h)

Left(k) == IF accesses[k].type = eFrameRef_CompleteWriteAndDiscard THEN Undefined ELSE k

\* Accesses from one to another that leave a half alone.
Untouched(s, h, first, last) == \A k \in first .. last : ~Overwrites(k, s, h)

\* A half is what the last access to it left.
ContentsFollow ==
    phase = "capture" =>
        \A s \in Subresources, h \in Halves :
            /\ Untouched(s, h, 1, Len(accesses)) => contents[s][h] = Initial
            /\ \A j \in 1 .. Len(accesses) :
                   Overwrites(j, s, h) /\ Untouched(s, h, j + 1, Len(accesses)) =>
                       contents[s][h] = Left(j)

\* So is what a read saw.
SeenFollows ==
    \A s \in Subresources, h \in Halves : \A k \in 1 .. Len(accesses) :
        IsRead(k, s) =>
            /\ Untouched(s, h, 1, k - 1) => accesses[k].seen[h] = Initial
            /\ \A j \in 1 .. k - 1 :
                   Overwrites(j, s, h) /\ Untouched(s, h, j + 1, k - 1) =>
                       accesses[k].seen[h] = Left(j)

-----------------------------------------------------------------------------
(* What references mean.                                                   *)

Gathered(s) == ComposeFrameRefs(ComposeFrameRefs(refs[s], bound[s]), recorded[s])

NoneMeans(s) == \A k \in 1 .. Len(accesses) : accesses[k].sub # s

PartialWriteMeans(s) == \A k \in 1 .. Len(accesses) : ~IsRead(k, s)

CompleteWriteMeans(s) ==
    \E j \in 1 .. Len(accesses) :
        /\ \A h \in Halves : Overwrites(j, s, h)
        /\ \A k \in 1 .. j : ~IsRead(k, s)

ReadMeans(s) == \A k \in 1 .. Len(accesses) : ~IsWrite(k, s)

WriteBeforeReadMeans(s) ==
    \A j, k \in 1 .. Len(accesses) : IsWrite(j, s) /\ IsRead(k, s) => j < k

Means(s, refType) ==
    /\ refType = eFrameRef_None => NoneMeans(s)
    /\ refType = eFrameRef_PartialWrite => PartialWriteMeans(s)
    /\ IsCompleteWriteFrameRef(refType) => CompleteWriteMeans(s)
    /\ refType = eFrameRef_Read => ReadMeans(s)
    /\ refType = eFrameRef_WriteBeforeRead => WriteBeforeReadMeans(s)

RefsMean == \A s \in Subresources : Means(s, Gathered(s))

-----------------------------------------------------------------------------
(* What a replay keeps.                                                    *)

\* A half that is not touched on the way to a read is what the read saw.
ReadsToCome ==
    \A s \in Subresources, h \in Halves : \A k \in next .. Len(accesses) :
        IsRead(k, s) /\ Untouched(s, h, next, k - 1) => contents[s][h] = accesses[k].seen[h]

\* A half that is read and never touched stays what it was.
ReadOnlyKept ==
    \A s \in Subresources, h \in Halves :
        /\ \E k \in 1 .. Len(accesses) : IsRead(k, s)
        /\ Untouched(s, h, 1, Len(accesses))
        => contents[s][h] = Initial

CleanHalf(s, h) ==
    \/ contents[s][h] = Initial
    \/ policy = "ClearUnread" /\ contents[s][h] = Cleared

\* Memory that is not written to stays clean.
UnwrittenClean ==
    kind = "memory" /\ policy # "Fastest" =>
        \A s \in Subresources, h \in Halves :
            refs[s] \in {eFrameRef_None, eFrameRef_Read} => CleanHalf(s, h)

ReplayFollows ==
    phase = "replay" =>
        /\ bound = NoRefs /\ recorded = NoRefs
        /\ ReadsToCome /\ ReadOnlyKept /\ UnwrittenClean

IInv == CoreTypes /\ ContentsFollow /\ SeenFollows /\ RefsMean /\ ReplayFollows /\ BeginsClean

-----------------------------------------------------------------------------
\* The numbers of the references are used throughout.
USE DEF eFrameRef_None, eFrameRef_PartialWrite, eFrameRef_CompleteWrite, eFrameRef_Read,
        eFrameRef_ReadBeforeWrite, eFrameRef_WriteBeforeRead, eFrameRef_CompleteWriteAndDiscard

-----------------------------------------------------------------------------
(* References.                                                             *)

\* The order in which references are composed is that of the accesses,
\* wherever the submissions are.
LEMMA ComposeFrameRefsAssociative ==
    ASSUME NEW x \in FrameRefType, NEW y \in FrameRefType, NEW z \in FrameRefType
    PROVE  ComposeFrameRefs(ComposeFrameRefs(x, y), z) = ComposeFrameRefs(x, ComposeFrameRefs(y, z))
  BY DEF ComposeFrameRefs, IncludesWrite, FrameRefType

\* Nothing is composed to a reference by no access.
LEMMA ComposeFrameRefsType ==
    ASSUME NEW x \in FrameRefType, NEW y \in FrameRefType
    PROVE  /\ ComposeFrameRefs(x, y) \in FrameRefType
           /\ ComposeFrameRefs(x, eFrameRef_None) = x
  BY DEF ComposeFrameRefs, IncludesWrite, FrameRefType

\* What a descriptor adds is composed too early: either that makes no
\* difference, or the result promises nothing.
LEMMA DescriptorsFirst ==
    ASSUME NEW x \in FrameRefType, NEW z \in FrameRefType,
           NEW y \in {eFrameRef_None, eFrameRef_Read, eFrameRef_ReadBeforeWrite},
           NEW type \in {eFrameRef_Read, eFrameRef_PartialWrite},
           NEW w, w = ComposeFrameRefsUnordered(y, BindRef(type))
    PROVE  /\ w \in {eFrameRef_None, eFrameRef_Read, eFrameRef_ReadBeforeWrite}
           /\ ComposeFrameRefs(ComposeFrameRefs(x, w), z) \in
                  {eFrameRef_ReadBeforeWrite,
                   ComposeFrameRefs(ComposeFrameRefs(ComposeFrameRefs(x, y), z), type)}
  <1>1. w \in {eFrameRef_Read, eFrameRef_ReadBeforeWrite}
    BY DEF ComposeFrameRefsUnordered, BindRef, IncludesWrite, IncludesRead, Larger,
           WithoutDiscard, FrameRefType
  <1>2. w = eFrameRef_Read => type = eFrameRef_Read /\ y \in {eFrameRef_None, eFrameRef_Read}
    BY DEF ComposeFrameRefsUnordered, BindRef, IncludesWrite, IncludesRead, Larger,
           WithoutDiscard, FrameRefType
  <1>3. QED
    BY <1>1, <1>2, SMTT(30)
    DEF ComposeFrameRefs, IncludesWrite, FrameRefType

\* The largest of a set of references is one, so that Whole chooses it.
LEMMA WholeIsLargest ==
    ASSUME NEW types \in SUBSET FrameRefType, eFrameRef_ReadBeforeWrite \notin types
    PROVE  /\ Whole(types) \in {eFrameRef_None} \cup {WithoutDiscard(u) : u \in types}
           /\ \A u \in types : WithoutDiscard(u) <= Whole(types)
  <1> DEFINE Candidates == {eFrameRef_None} \cup {WithoutDiscard(u) : u \in types}
  <1>1. \E t \in Candidates : \A u \in types : WithoutDiscard(u) <= t
    <2>1. CASE eFrameRef_WriteBeforeRead \in types
      BY <2>1 DEF FrameRefType, WithoutDiscard
    <2>2. CASE eFrameRef_WriteBeforeRead \notin types /\ eFrameRef_Read \in types
      BY <2>2 DEF FrameRefType, WithoutDiscard
    <2>3. CASE /\ {eFrameRef_WriteBeforeRead, eFrameRef_Read} \cap types = {}
               /\ {eFrameRef_CompleteWrite, eFrameRef_CompleteWriteAndDiscard} \cap types # {}
      BY <2>3 DEF FrameRefType, WithoutDiscard
    <2>4. CASE types \subseteq {eFrameRef_None, eFrameRef_PartialWrite}
      BY <2>4 DEF WithoutDiscard
    <2>5. QED
      BY <2>1, <2>2, <2>3, <2>4 DEF FrameRefType
  <1>2. Whole(types) = CHOOSE t \in Candidates : \A u \in types : WithoutDiscard(u) <= t
    BY DEF Whole
  <1>3. QED
    BY <1>1, <1>2

\* Whole is what a loop makes of the parts, one after the other.
THEOREM WholeIsLoop ==
    /\ Whole({}) = eFrameRef_None
    /\ \A types \in SUBSET FrameRefType, x \in FrameRefType :
           Whole(types \cup {x}) = ComposeFrameRefsDisjoint(Whole(types), x)
  <1> USE DEF FrameRefType, WithoutDiscard, Larger
  <1>1. Whole({}) = eFrameRef_None
    <2>1. Whole({}) \in {eFrameRef_None} \cup {WithoutDiscard(u) : u \in {}}
      BY WholeIsLargest
    <2>2. QED
      BY <2>1
  <1>2. ASSUME NEW types \in SUBSET FrameRefType, NEW x \in FrameRefType
        PROVE  Whole(types \cup {x}) = ComposeFrameRefsDisjoint(Whole(types), x)
    <2>1. CASE eFrameRef_ReadBeforeWrite \in types \cup {x}
      BY <2>1 DEF Whole, ComposeFrameRefsDisjoint
    <2>2. CASE eFrameRef_ReadBeforeWrite \notin types \cup {x}
      <3>1. /\ Whole(types) \in {eFrameRef_None} \cup {WithoutDiscard(u) : u \in types}
            /\ \A u \in types : WithoutDiscard(u) <= Whole(types)
        BY <2>2, WholeIsLargest
      <3>2. /\ Whole(types \cup {x}) \in
                   {eFrameRef_None} \cup {WithoutDiscard(u) : u \in types \cup {x}}
            /\ \A u \in types \cup {x} : WithoutDiscard(u) <= Whole(types \cup {x})
        BY <2>2, WholeIsLargest
      <3>3. ComposeFrameRefsDisjoint(Whole(types), x) = Larger(Whole(types), x)
        BY <2>2, <3>1 DEF ComposeFrameRefsDisjoint
      <3>4. QED
        BY <2>2, <3>1, <3>2, <3>3
    <2>3. QED
      BY <2>1, <2>2
  <1>3. QED
    BY <1>1, <1>2

\* What one part demands of the whole.
LEMMA WholeOfRead ==
    ASSUME NEW types \in SUBSET FrameRefType, NEW x \in types, IncludesRead(x)
    PROVE  /\ IncludesRead(Whole(types))
           /\ x = eFrameRef_ReadBeforeWrite => Whole(types) = eFrameRef_ReadBeforeWrite
  <1> USE DEF FrameRefType, WithoutDiscard, IncludesRead
  <1>1. CASE eFrameRef_ReadBeforeWrite \in types
    BY <1>1 DEF Whole
  <1>2. CASE eFrameRef_ReadBeforeWrite \notin types
    BY <1>2, WholeIsLargest
  <1>3. QED
    BY <1>1, <1>2

-----------------------------------------------------------------------------
(* Accesses.                                                               *)

\* An access is added at the end.
LEMMA OneMoreAccess ==
    ASSUME CoreTypes, NEW a \in Access, accesses' = Append(accesses, a)
    PROVE  /\ accesses' \in Seq(Access) /\ Len(accesses) \in Nat
           /\ Len(accesses') = Len(accesses) + 1
           /\ \A k \in 1 .. Len(accesses) : accesses'[k] = accesses[k]
           /\ accesses'[Len(accesses) + 1] = a
  BY DEF CoreTypes

\* What earlier accesses are, and leave alone, stays.
LEMMA EarlierAccesses ==
    ASSUME CoreTypes, NEW a \in Access, accesses' = Append(accesses, a)
    PROVE  /\ \A k \in 1 .. Len(accesses) :
                  /\ Left(k)' = Left(k)
                  /\ \A s \in Subresources :
                         /\ IsRead(k, s)' <=> IsRead(k, s)
                         /\ IsWrite(k, s)' <=> IsWrite(k, s)
                         /\ \A h \in Halves : Overwrites(k, s, h)' <=> Overwrites(k, s, h)
           /\ \A s \in Subresources, h \in Halves, first \in Nat \ {0}, last \in 0 .. Len(accesses) :
                  Untouched(s, h, first, last)' <=> Untouched(s, h, first, last)
  <1>1. /\ Len(accesses) \in Nat
        /\ \A k \in 1 .. Len(accesses) : accesses'[k] = accesses[k]
    BY OneMoreAccess
  <1>2. \A k \in 1 .. Len(accesses) :
            /\ Left(k)' = Left(k)
            /\ \A s \in Subresources :
                   /\ IsRead(k, s)' <=> IsRead(k, s)
                   /\ IsWrite(k, s)' <=> IsWrite(k, s)
                   /\ \A h \in Halves : Overwrites(k, s, h)' <=> Overwrites(k, s, h)
    BY <1>1 DEF Left, IsRead, IsWrite, Overwrites
  <1>3. ASSUME NEW s \in Subresources, NEW h \in Halves, NEW first \in Nat \ {0},
               NEW last \in 0 .. Len(accesses)
        PROVE  Untouched(s, h, first, last)' <=> Untouched(s, h, first, last)
    <2>1. \A k \in first .. last : k \in 1 .. Len(accesses)
      BY <1>1
    <2>2. QED
      BY <1>2, <2>1 DEF Untouched
  <1>4. QED
    BY <1>2, <1>3

\* Means is kept by an access that is composed to the reference, or that makes
\* it ReadBeforeWrite.
LEMMA MeaningGrows ==
    ASSUME CoreTypes, NEW a \in Access, accesses' = Append(accesses, a), NEW s \in Subresources,
           Gathered(s) \in FrameRefType, Means(s, Gathered(s)),
           IF a.sub = s
           THEN Gathered(s)' \in {eFrameRef_ReadBeforeWrite, ComposeFrameRefs(Gathered(s), a.type)}
           ELSE Gathered(s)' = Gathered(s)
    PROVE  Means(s, Gathered(s))'
  <1>0. PICK n \in Nat : n = Len(accesses)
    BY OneMoreAccess
  <1> USE DEF FrameRefType
  <1>1. /\ Len(accesses') = n + 1 /\ accesses'[n + 1] = a
        /\ \A k \in 1 .. n : accesses'[k] = accesses[k]
    BY <1>0, OneMoreAccess
  <1>2. \A k \in 1 .. n :
            /\ IsRead(k, s)' <=> IsRead(k, s)
            /\ IsWrite(k, s)' <=> IsWrite(k, s)
            /\ \A h \in Halves : Overwrites(k, s, h)' <=> Overwrites(k, s, h)
    BY <1>0, EarlierAccesses
  <1>3. /\ IsRead(n + 1, s)' <=> a.sub = s /\ a.type = eFrameRef_Read
        /\ IsWrite(n + 1, s)' <=> a.sub = s /\ a.type # eFrameRef_Read
        /\ \A h \in Halves :
               Overwrites(n + 1, s, h)' <=>
                   /\ a.sub = s /\ a.type # eFrameRef_Read
                   /\ a.type = eFrameRef_PartialWrite => a.half = h
    BY <1>1 DEF IsRead, IsWrite, Overwrites
  <1>4. \A k \in 1 .. n + 1 : k \in 1 .. n \/ k = n + 1
    BY <1>1
  <1>5. CASE a.sub # s
    <2>1. Gathered(s)' = Gathered(s)
      BY <1>5
    <2>2. NoneMeans(s) => NoneMeans(s)'
      BY <1>0, <1>1, <1>4, <1>5 DEF NoneMeans
    <2>3. PartialWriteMeans(s) => PartialWriteMeans(s)'
      BY <1>0, <1>1, <1>2, <1>3, <1>4, <1>5
      DEF PartialWriteMeans
    <2>4. CompleteWriteMeans(s) => CompleteWriteMeans(s)'
      <3>1. SUFFICES ASSUME NEW j \in 1 .. n, \A h \in Halves : Overwrites(j, s, h),
                            \A k \in 1 .. j : ~IsRead(k, s)
                     PROVE  CompleteWriteMeans(s)'
        BY <1>0 DEF CompleteWriteMeans
      <3>2. j \in 1 .. n + 1 /\ \A k \in 1 .. j : k \in 1 .. n
        BY <1>1
      <3>3. QED
        BY <1>1, <1>2, <3>1, <3>2 DEF CompleteWriteMeans
    <2>5. ReadMeans(s) => ReadMeans(s)'
      BY <1>0, <1>1, <1>2, <1>3, <1>4, <1>5
      DEF ReadMeans
    <2>6. WriteBeforeReadMeans(s) => WriteBeforeReadMeans(s)'
      BY <1>0, <1>1, <1>2, <1>3, <1>4, <1>5
      DEF WriteBeforeReadMeans
    <2>7. QED
      BY <2>1, <2>2, <2>3, <2>4, <2>5, <2>6 DEF Means
  <1>6. CASE a.sub = s
    <2> DEFINE r == ComposeFrameRefs(Gathered(s), a.type)
    <2>1. a.type \in Writes \cup {eFrameRef_Read}
      BY DEF Access
    <2>2. r # eFrameRef_None
      BY <2>1 DEF ComposeFrameRefs, Writes
    <2>3. r = eFrameRef_PartialWrite => PartialWriteMeans(s)'
      <3>1. SUFFICES ASSUME r = eFrameRef_PartialWrite PROVE PartialWriteMeans(s)'
        OBVIOUS
      <3>2. /\ Gathered(s) \in {eFrameRef_None, eFrameRef_PartialWrite}
            /\ a.type = eFrameRef_PartialWrite
        BY <2>1, <3>1 DEF ComposeFrameRefs, Writes
      <3>3. \A k \in 1 .. n : ~IsRead(k, s)
        BY <1>0, <3>2 DEF Means, NoneMeans, PartialWriteMeans, IsRead
      <3>4. QED
        BY <1>1, <1>2, <1>3, <1>4, <3>2, <3>3 DEF PartialWriteMeans
    <2>4. IsCompleteWriteFrameRef(r) => CompleteWriteMeans(s)'
      <3>1. SUFFICES ASSUME IsCompleteWriteFrameRef(r) PROVE CompleteWriteMeans(s)'
        OBVIOUS
      <3>2. \/ IsCompleteWriteFrameRef(Gathered(s))
            \/ /\ Gathered(s) \in {eFrameRef_None, eFrameRef_PartialWrite}
               /\ IsCompleteWriteFrameRef(a.type)
        BY <2>1, <3>1 DEF ComposeFrameRefs, Writes, IsCompleteWriteFrameRef
      <3>3. CASE IsCompleteWriteFrameRef(Gathered(s))
        <4>1. PICK j \in 1 .. n : /\ \A h \in Halves : Overwrites(j, s, h)
                                  /\ \A k \in 1 .. j : ~IsRead(k, s)
          BY <1>0, <3>3 DEF Means, CompleteWriteMeans
        <4>2. j \in 1 .. n + 1 /\ \A k \in 1 .. j : k \in 1 .. n
          BY <1>1
        <4>3. QED
          BY <1>1, <1>2, <4>1, <4>2 DEF CompleteWriteMeans
      <3>4. CASE /\ Gathered(s) \in {eFrameRef_None, eFrameRef_PartialWrite}
                 /\ IsCompleteWriteFrameRef(a.type)
        <4>1. \A k \in 1 .. n : ~IsRead(k, s)
          BY <1>0, <3>4 DEF Means, NoneMeans, PartialWriteMeans, IsRead
        <4>2. n + 1 \in 1 .. n + 1 /\ ~IsRead(n + 1, s)'
          BY <1>1, <1>3, <3>4 DEF IsCompleteWriteFrameRef
        <4>3. \A h \in Halves : Overwrites(n + 1, s, h)'
          BY <1>3, <1>6, <3>4 DEF IsCompleteWriteFrameRef
        <4>4. \A k \in 1 .. n + 1 : ~IsRead(k, s)'
          BY <1>2, <1>4, <4>1, <4>2
        <4>5. QED
          BY <1>1, <4>2, <4>3, <4>4 DEF CompleteWriteMeans
      <3>5. QED
        BY <3>2, <3>3, <3>4
    <2>5. r = eFrameRef_Read => ReadMeans(s)'
      <3>1. SUFFICES ASSUME r = eFrameRef_Read PROVE ReadMeans(s)'
        OBVIOUS
      <3>2. Gathered(s) \in {eFrameRef_None, eFrameRef_Read} /\ a.type = eFrameRef_Read
        BY <2>1, <3>1 DEF ComposeFrameRefs, IncludesWrite, Writes
      <3>3. \A k \in 1 .. n : ~IsWrite(k, s)
        BY <1>0, <3>2 DEF Means, NoneMeans, ReadMeans, IsWrite
      <3>4. QED
        BY <1>1, <1>2, <1>3, <1>4, <3>2, <3>3 DEF ReadMeans
    <2>6. r = eFrameRef_WriteBeforeRead => WriteBeforeReadMeans(s)'
      <3>1. SUFFICES ASSUME r = eFrameRef_WriteBeforeRead PROVE WriteBeforeReadMeans(s)'
        OBVIOUS
      <3>2. /\ Gathered(s) \in {eFrameRef_PartialWrite, eFrameRef_WriteBeforeRead}
            /\ a.type = eFrameRef_Read
        BY <2>1, <3>1 DEF ComposeFrameRefs, IncludesWrite, Writes
      <3>3. WriteBeforeReadMeans(s)
        BY <3>2 DEF Means, PartialWriteMeans, WriteBeforeReadMeans
      <3>4. SUFFICES ASSUME NEW j \in 1 .. n + 1, NEW k \in 1 .. n + 1,
                            IsWrite(j, s)', IsRead(k, s)'
                     PROVE  j < k
        BY <1>1 DEF WriteBeforeReadMeans
      <3>5. j \in 1 .. n
        BY <1>3, <1>4, <3>2, <3>4
      <3>6. CASE k = n + 1
        BY <1>1, <3>5, <3>6
      <3>7. CASE k \in 1 .. n
        BY <1>0, <1>2, <3>3, <3>4, <3>5, <3>7 DEF WriteBeforeReadMeans
      <3>8. QED
        BY <1>4, <3>6, <3>7
    <2>7. CASE Gathered(s)' = eFrameRef_ReadBeforeWrite
      BY <2>7 DEF Means, IsCompleteWriteFrameRef
    <2>8. CASE Gathered(s)' = r
      BY <2>2, <2>3, <2>4, <2>5, <2>6, <2>8 DEF Means
    <2>9. QED
      BY <1>6, <2>7, <2>8
  <1>7. QED
    BY <1>5, <1>6

-----------------------------------------------------------------------------
(* The capture.                                                            *)

\* Contents and what is seen follow the accesses, with one access more.
LEMMA PerformFollows ==
    ASSUME CoreTypes, ContentsFollow, SeenFollows,
           NEW s \in Subresources, NEW type \in Writes \cup {eFrameRef_Read}, NEW half \in Halves,
           Perform(s, type, half)
    PROVE  /\ \E a \in Access : /\ a.sub = s /\ a.type = type
                                /\ accesses' = Append(accesses, a)
           /\ contents' \in [Subresources -> [Halves -> Int]]
           /\ ContentsFollow' /\ SeenFollows'
  <1> DEFINE a == [sub |-> s, type |-> type, half |-> half, seen |-> contents[s]]
  <1>1. PICK n \in Nat : n = Len(accesses)
    BY DEF CoreTypes
  <1>2. a \in Access /\ accesses' = Append(accesses, a)
    BY DEF Perform, Access, CoreTypes
  <1>3. /\ Len(accesses') = n + 1 /\ accesses'[n + 1] = a
        /\ \A k \in 1 .. n : accesses'[k] = accesses[k]
    BY <1>1, <1>2, OneMoreAccess
  <1>4. /\ \A k \in 1 .. n :
               /\ Left(k)' = Left(k)
               /\ \A x \in Subresources :
                      /\ IsRead(k, x)' <=> IsRead(k, x)
                      /\ \A h \in Halves : Overwrites(k, x, h)' <=> Overwrites(k, x, h)
        /\ \A x \in Subresources, h \in Halves, first \in Nat \ {0}, last \in 0 .. n :
               Untouched(x, h, first, last)' <=> Untouched(x, h, first, last)
    BY <1>1, <1>2, EarlierAccesses
  <1>5. \A x \in Subresources, h \in Halves :
            contents'[x][h] = IF Overwrites(n + 1, x, h)' THEN Left(n + 1)' ELSE contents[x][h]
    <2>1. contents' = [contents EXCEPT ![s] = After(a, n + 1, @)]
      BY <1>1 DEF Perform
    <2>2. SUFFICES ASSUME NEW x \in Subresources, NEW h \in Halves
                   PROVE  contents'[x][h] =
                              IF Overwrites(n + 1, x, h)' THEN Left(n + 1)' ELSE contents[x][h]
      OBVIOUS
    <2>3. Overwrites(n + 1, x, h)' <=>
              /\ s = x /\ type # eFrameRef_Read
              /\ type = eFrameRef_PartialWrite => half = h
      BY <1>3 DEF Overwrites, IsWrite
    <2>4. Left(n + 1)' = IF type = eFrameRef_CompleteWriteAndDiscard THEN Undefined ELSE n + 1
      BY <1>3 DEF Left
    <2>5. CASE x # s
      BY <2>1, <2>3, <2>5 DEF CoreTypes
    <2>6. CASE x = s
      <3>1. contents'[x][h] = After(a, n + 1, contents[s])[h]
        BY <2>1, <2>6 DEF CoreTypes
      <3>2. After(a, n + 1, contents[s])[h] =
                IF type # eFrameRef_Read /\ (type = eFrameRef_PartialWrite => half = h)
                THEN IF type = eFrameRef_CompleteWriteAndDiscard THEN Undefined ELSE n + 1
                ELSE contents[s][h]
        BY DEF After, Writes, CoreTypes
      <3>3. QED
        BY <2>3, <2>4, <2>6, <3>1, <3>2
    <2>7. QED
      BY <2>5, <2>6
  <1>6. contents' \in [Subresources -> [Halves -> Int]]
    <2>1. contents' = [contents EXCEPT ![s] = After(a, n + 1, @)]
      BY <1>1 DEF Perform
    <2>2. After(a, n + 1, contents[s]) \in [Halves -> Int]
      BY DEF After, Writes, CoreTypes, Undefined
    <2>3. QED
      BY <2>1, <2>2 DEF CoreTypes
  <1>7. ContentsFollow'
    <2>1. SUFFICES ASSUME NEW x \in Subresources, NEW h \in Halves
                   PROVE  /\ Untouched(x, h, 1, n + 1)' => contents'[x][h] = Initial
                          /\ \A j \in 1 .. n + 1 :
                                 Overwrites(j, x, h)' /\ Untouched(x, h, j + 1, n + 1)' =>
                                     contents'[x][h] = Left(j)'
      BY <1>3 DEF ContentsFollow
    <2>2. /\ Untouched(x, h, 1, n) => contents[x][h] = Initial
          /\ \A j \in 1 .. n : Overwrites(j, x, h) /\ Untouched(x, h, j + 1, n) =>
                                   contents[x][h] = Left(j)
      BY <1>1 DEF ContentsFollow, Perform
    <2>3. CASE Overwrites(n + 1, x, h)'
      <3>1. ASSUME NEW j \in 0 .. n
            PROVE  ~Untouched(x, h, j + 1, n + 1)'
        <4>1. n + 1 \in j + 1 .. n + 1
          OBVIOUS
        <4>2. QED
          BY <2>3, <4>1 DEF Untouched
      <3>2. ~Untouched(x, h, 1, n + 1)'
        BY <3>1
      <3>3. \A j \in 1 .. n + 1 : j \in 0 .. n \/ j = n + 1
        OBVIOUS
      <3>4. QED
        BY <1>5, <2>3, <3>1, <3>2, <3>3
    <2>4. CASE ~Overwrites(n + 1, x, h)'
      <3>1. contents'[x][h] = contents[x][h]
        BY <1>5, <2>4
      <3>2. \A first \in 1 .. n + 1 : Untouched(x, h, first, n + 1)' => Untouched(x, h, first, n)
        <4>1. SUFFICES ASSUME NEW first \in 1 .. n + 1, Untouched(x, h, first, n + 1)'
                       PROVE  Untouched(x, h, first, n)'
          BY <1>4
        <4>2. \A k \in first .. n : k \in first .. n + 1
          OBVIOUS
        <4>3. QED
          BY <4>1, <4>2 DEF Untouched
      <3>3. ASSUME NEW j \in 1 .. n + 1, Overwrites(j, x, h)', Untouched(x, h, j + 1, n + 1)'
            PROVE  contents'[x][h] = Left(j)'
        <4>1. j \in 1 .. n /\ j + 1 \in 1 .. n + 1
          BY <2>4, <3>3
        <4>2. QED
          BY <1>4, <2>2, <3>1, <3>2, <3>3, <4>1
      <3>4. 1 \in 1 .. n + 1
        OBVIOUS
      <3>5. QED
        BY <2>2, <3>1, <3>2, <3>3, <3>4
    <2>5. QED
      BY <2>3, <2>4
  <1>8. SeenFollows'
    <2>1. SUFFICES ASSUME NEW x \in Subresources, NEW h \in Halves, NEW k \in 1 .. n + 1,
                          IsRead(k, x)'
                   PROVE  /\ Untouched(x, h, 1, k - 1)' => accesses'[k].seen[h] = Initial
                          /\ \A j \in 1 .. k - 1 :
                                 Overwrites(j, x, h)' /\ Untouched(x, h, j + 1, k - 1)' =>
                                     accesses'[k].seen[h] = Left(j)'
      BY <1>3 DEF SeenFollows
    <2>2. /\ k - 1 \in 0 .. n
          /\ Untouched(x, h, 1, k - 1)' <=> Untouched(x, h, 1, k - 1)
          /\ \A j \in 1 .. k - 1 : /\ j \in 1 .. n
                                   /\ Untouched(x, h, j + 1, k - 1)' <=> Untouched(x, h, j + 1, k - 1)
      BY <1>4
    <2>3. CASE k \in 1 .. n
      <3>1. IsRead(k, x) /\ accesses'[k] = accesses[k]
        BY <1>3, <1>4, <2>1, <2>3
      <3>2. /\ Untouched(x, h, 1, k - 1) => accesses[k].seen[h] = Initial
            /\ \A j \in 1 .. k - 1 :
                   Overwrites(j, x, h) /\ Untouched(x, h, j + 1, k - 1) =>
                       accesses[k].seen[h] = Left(j)
        BY <1>1, <2>3, <3>1 DEF SeenFollows
      <3>3. \A j \in 1 .. k - 1 : /\ Overwrites(j, x, h)' <=> Overwrites(j, x, h)
                                  /\ Left(j)' = Left(j)
        BY <1>4, <2>2
      <3>4. QED
        BY <2>2, <3>1, <3>2, <3>3
    <2>4. CASE k = n + 1
      <3>1. x = s /\ accesses'[k].seen[h] = contents[x][h] /\ k - 1 = n
        BY <1>3, <2>1, <2>4 DEF IsRead
      <3>2. /\ Untouched(x, h, 1, n) => contents[x][h] = Initial
            /\ \A j \in 1 .. n : Overwrites(j, x, h) /\ Untouched(x, h, j + 1, n) =>
                                     contents[x][h] = Left(j)
        BY <1>1 DEF ContentsFollow, Perform
      <3>3. QED
        BY <1>4, <2>2, <3>1, <3>2
    <2>5. QED
      BY <2>3, <2>4
  <1>9. QED
    BY <1>2, <1>6, <1>7, <1>8

\* What is gathered is a reference.
LEMMA GatheredType ==
    ASSUME CoreTypes, NEW s \in Subresources
    PROVE  Gathered(s) \in FrameRefType
  <1>1. /\ refs[s] \in FrameRefType /\ bound[s] \in FrameRefType
        /\ recorded[s] \in FrameRefType
    BY DEF CoreTypes, FrameRefType
  <1>2. QED
    BY <1>1, ComposeFrameRefsType DEF Gathered

\* What commands and shaders have in common.
LEMMA AccessPreserves ==
    ASSUME IInv, NEW s \in Subresources, NEW type \in Writes \cup {eFrameRef_Read},
           NEW half \in Halves, Perform(s, type, half),
           recorded' \in [Subresources -> FrameRefType],
           bound' \in [Subresources -> {eFrameRef_None, eFrameRef_Read, eFrameRef_ReadBeforeWrite}],
           Gathered(s)' \in {eFrameRef_ReadBeforeWrite, ComposeFrameRefs(Gathered(s), type)},
           \A x \in Subresources : x # s => Gathered(x)' = Gathered(x)
    PROVE  IInv'
  <1>1. PICK a \in Access : a.sub = s /\ a.type = type /\ accesses' = Append(accesses, a)
    BY PerformFollows DEF IInv
  <1>2. /\ contents' \in [Subresources -> [Halves -> Int]]
        /\ ContentsFollow' /\ SeenFollows'
    BY PerformFollows DEF IInv
  <1>3. CoreTypes'
    BY <1>1, <1>2, OneMoreAccess DEF IInv, CoreTypes, Perform
  <1>4. ASSUME NEW x \in Subresources
        PROVE  Means(x, Gathered(x))'
    <2>1. Gathered(x) \in FrameRefType /\ Means(x, Gathered(x)) /\ CoreTypes
      BY GatheredType DEF IInv, RefsMean
    <2>2. IF a.sub = x
          THEN Gathered(x)' \in {eFrameRef_ReadBeforeWrite, ComposeFrameRefs(Gathered(x), a.type)}
          ELSE Gathered(x)' = Gathered(x)
      BY <1>1
    <2>3. QED
      BY <1>1, <2>1, <2>2, MeaningGrows
  <1>5. RefsMean'
    BY <1>4 DEF RefsMean
  <1>6. phase' = "capture"
    BY DEF Perform
  <1>7. ReplayFollows' /\ BeginsClean'
    BY <1>6 DEF ReplayFollows, BeginsClean
  <1>8. QED
    BY <1>2, <1>3, <1>5, <1>7 DEF IInv

\* The reference of a command is composed last, like its access.
LEMMA CommandPreserves ==
    ASSUME IInv, NEW s \in Subresources, NEW type \in Writes \cup {eFrameRef_Read},
           NEW half \in Halves, Command(s, type, half)
    PROVE  IInv'
  <1>1. /\ Perform(s, type, half) /\ bound' = bound /\ refs' = refs
        /\ recorded' = [recorded EXCEPT ![s] = ComposeFrameRefs(@, type)]
    BY DEF Command, Perform
  <1>2. /\ refs[s] \in FrameRefType /\ bound[s] \in FrameRefType /\ recorded[s] \in FrameRefType
        /\ type \in FrameRefType /\ recorded \in [Subresources -> FrameRefType]
    BY DEF IInv, CoreTypes, FrameRefType, Writes
  <1>3. recorded' \in [Subresources -> FrameRefType]
    BY <1>1, <1>2, ComposeFrameRefsType
  <1>4. Gathered(s)' = ComposeFrameRefs(ComposeFrameRefs(refs[s], bound[s]),
                                        ComposeFrameRefs(recorded[s], type))
    BY <1>1, <1>2 DEF Gathered
  <1>5. ComposeFrameRefs(refs[s], bound[s]) \in FrameRefType
    BY <1>2, ComposeFrameRefsType
  <1>6. Gathered(s)' = ComposeFrameRefs(Gathered(s), type)
    BY <1>2, <1>4, <1>5, ComposeFrameRefsAssociative DEF Gathered
  <1>7. \A x \in Subresources : x # s => Gathered(x)' = Gathered(x)
    BY <1>1, <1>2 DEF Gathered
  <1>8. bound' \in [Subresources -> {eFrameRef_None, eFrameRef_Read, eFrameRef_ReadBeforeWrite}]
    BY <1>1 DEF IInv, CoreTypes
  <1>9. QED
    BY <1>1, <1>3, <1>6, <1>7, <1>8, AccessPreserves

\* The reference of a descriptor is composed before those of commands.
LEMMA ShaderPreserves ==
    ASSUME IInv, NEW s \in Subresources, NEW type \in {eFrameRef_Read, eFrameRef_PartialWrite},
           NEW half \in Halves, Shader(s, type, half)
    PROVE  IInv'
  <1> DEFINE Bindable == {eFrameRef_None, eFrameRef_Read, eFrameRef_ReadBeforeWrite}
  <1> DEFINE w == ComposeFrameRefsUnordered(bound[s], BindRef(type))
  <1>1. /\ Perform(s, type, half) /\ recorded' = recorded /\ refs' = refs
        /\ bound' = [bound EXCEPT ![s] = w]
    BY DEF Shader, Perform
  <1>2. /\ refs[s] \in FrameRefType /\ recorded[s] \in FrameRefType
        /\ bound \in [Subresources -> Bindable] /\ bound[s] \in Bindable
    BY DEF IInv, CoreTypes
  <1>3. /\ w \in Bindable
        /\ ComposeFrameRefs(ComposeFrameRefs(refs[s], w), recorded[s]) \in
               {eFrameRef_ReadBeforeWrite, ComposeFrameRefs(Gathered(s), type)}
    BY <1>2, DescriptorsFirst DEF Gathered
  <1>4. Gathered(s)' = ComposeFrameRefs(ComposeFrameRefs(refs[s], w), recorded[s])
    BY <1>1, <1>2 DEF Gathered
  <1>5. bound' \in [Subresources -> Bindable]
    BY <1>1, <1>2, <1>3
  <1>6. \A x \in Subresources : x # s => Gathered(x)' = Gathered(x)
    BY <1>1, <1>2 DEF Gathered
  <1>7. recorded' \in [Subresources -> FrameRefType] /\ type \in Writes \cup {eFrameRef_Read}
    BY <1>1 DEF IInv, CoreTypes, Writes
  <1>8. QED
    BY <1>1, <1>3, <1>4, <1>5, <1>6, <1>7, AccessPreserves

\* What is about the accesses alone stays with them.
LEMMA SameAccesses ==
    ASSUME UNCHANGED accesses
    PROVE  /\ SeenFollows' <=> SeenFollows
           /\ \A s \in Subresources :
                  /\ NoneMeans(s)' <=> NoneMeans(s)
                  /\ PartialWriteMeans(s)' <=> PartialWriteMeans(s)
                  /\ CompleteWriteMeans(s)' <=> CompleteWriteMeans(s)
                  /\ ReadMeans(s)' <=> ReadMeans(s)
                  /\ WriteBeforeReadMeans(s)' <=> WriteBeforeReadMeans(s)
                  /\ \A h \in Halves, first, last \in Nat :
                         Untouched(s, h, first, last)' <=> Untouched(s, h, first, last)
  BY DEF SeenFollows, NoneMeans, PartialWriteMeans, CompleteWriteMeans, ReadMeans,
         WriteBeforeReadMeans, Untouched, Overwrites, IsRead, IsWrite, Left

\* So does what references mean.
LEMMA SameMeanings ==
    ASSUME UNCHANGED accesses, RefsMean, \A s \in Subresources : Gathered(s)' = Gathered(s)
    PROVE  RefsMean'
  BY SameAccesses DEF RefsMean, Means

\* What is gathered is what the frame has after the submission.
LEMMA SubmitPreserves ==
    ASSUME IInv, Submit
    PROVE  IInv'
  <1>1. /\ phase = "capture" /\ phase' = phase
        /\ UNCHANGED <<accesses, contents, kind, policy, next>>
        /\ refs' = [s \in Subresources |-> Gathered(s)]
        /\ bound' = NoRefs /\ recorded' = NoRefs
    BY DEF Submit, Gathered
  <1>2. \A s \in Subresources : Gathered(s) \in FrameRefType
    BY GatheredType DEF IInv
  <1>3. CoreTypes'
    BY <1>1, <1>2 DEF IInv, CoreTypes, NoRefs, FrameRefType
  <1>4. \A s \in Subresources : Gathered(s)' = Gathered(s)
    <2>1. SUFFICES ASSUME NEW s \in Subresources PROVE Gathered(s)' = Gathered(s)
      OBVIOUS
    <2>2. refs'[s] = Gathered(s) /\ bound'[s] = eFrameRef_None /\ recorded'[s] = eFrameRef_None
      BY <1>1 DEF NoRefs
    <2>3. Gathered(s)' = ComposeFrameRefs(ComposeFrameRefs(refs'[s], bound'[s]), recorded'[s])
      BY DEF Gathered
    <2>4. QED
      BY <1>2, <2>2, <2>3, ComposeFrameRefsType
  <1>5. RefsMean' /\ SeenFollows'
    BY <1>1, <1>4, SameAccesses, SameMeanings DEF IInv
  <1>6. ContentsFollow'
    BY <1>1 DEF IInv, ContentsFollow, Untouched, Overwrites, IsWrite, Left
  <1>7. QED
    BY <1>1, <1>3, <1>5, <1>6 DEF IInv, ReplayFollows, BeginsClean

-----------------------------------------------------------------------------
(* What the references of the frame demand of a replay.                    *)

\* A half that is read before anything is written to it is the reason for a
\* reference that includes a read, and if that is not ReadBeforeWrite then
\* nothing is written to it at all.
LEMMA InitialReadIsKnown ==
    ASSUME CoreTypes, RefsMean, bound = NoRefs, recorded = NoRefs,
           NEW s \in Subresources, NEW h \in Halves, NEW k \in 1 .. Len(accesses),
           IsRead(k, s), Untouched(s, h, 1, k - 1)
    PROVE  /\ IncludesRead(refs[s])
           /\ refs[s] # eFrameRef_ReadBeforeWrite => Untouched(s, h, 1, Len(accesses))
  <1>1. refs[s] \in FrameRefType /\ Means(s, refs[s]) /\ Len(accesses) \in Nat
    <2>1. refs[s] \in FrameRefType /\ Len(accesses) \in Nat
      BY DEF CoreTypes
    <2>2. bound[s] = eFrameRef_None /\ recorded[s] = eFrameRef_None
      BY DEF NoRefs
    <2>3. Gathered(s) = refs[s]
      BY <2>1, <2>2, ComposeFrameRefsType DEF Gathered, FrameRefType
    <2>4. QED
      BY <2>1, <2>3 DEF RefsMean
  <1>2. ~NoneMeans(s) /\ ~PartialWriteMeans(s)
    BY DEF NoneMeans, PartialWriteMeans, IsRead
  <1>3. ~CompleteWriteMeans(s)
    <2>1. SUFFICES ASSUME NEW j \in 1 .. Len(accesses), Overwrites(j, s, h),
                          \A i \in 1 .. j : ~IsRead(i, s)
                   PROVE  FALSE
      BY DEF CompleteWriteMeans
    <2>2. j \in 1 .. k - 1
      BY <1>1, <2>1
    <2>3. QED
      BY <2>1, <2>2 DEF Untouched
  <1>4. ReadMeans(s) => Untouched(s, h, 1, Len(accesses))
    BY DEF ReadMeans, Untouched, Overwrites
  <1>5. WriteBeforeReadMeans(s) => Untouched(s, h, 1, Len(accesses))
    <2>1. SUFFICES ASSUME WriteBeforeReadMeans(s), NEW j \in 1 .. Len(accesses),
                          Overwrites(j, s, h)
                   PROVE  FALSE
      BY DEF Untouched
    <2>2. j < k
      BY <2>1 DEF WriteBeforeReadMeans, Overwrites
    <2>3. j \in 1 .. k - 1
      BY <1>1, <2>2
    <2>4. QED
      BY <2>1, <2>3 DEF Untouched
  <1>6. QED
    BY <1>1, <1>2, <1>3, <1>4, <1>5
    DEF Means, IsCompleteWriteFrameRef, IncludesRead, FrameRefType

\* A reference that includes a read is copied before the first replay, and before
\* the second one copied or left alone.
LEMMA ReadIsCopied ==
    ASSUME CoreTypes, NEW s \in Subresources, IncludesRead(refs[s]), NEW p \in InitPolicy
    PROVE  /\ Requirement(s, p, FALSE) = "Copy"
           /\ Requirement(s, p, TRUE) \in {"Copy", "None"}
           /\ refs[s] = eFrameRef_ReadBeforeWrite => Requirement(s, p, TRUE) = "Copy"
  <1> DEFINE whole == Whole({refs[x] : x \in Subresources})
  <1>1. /\ IncludesRead(whole)
        /\ refs[s] = eFrameRef_ReadBeforeWrite => whole = eFrameRef_ReadBeforeWrite
    <2>1. {refs[x] : x \in Subresources} \in SUBSET FrameRefType
      BY DEF CoreTypes
    <2>2. QED
      BY <2>1, WholeOfRead
  <1>2. ASSUME NEW r, IncludesRead(r)
        PROVE  /\ InitReq(r, p, FALSE) = "Copy"
               /\ InitReq(r, p, TRUE) \in {"Copy", "None"}
               /\ r = eFrameRef_ReadBeforeWrite => InitReq(r, p, TRUE) = "Copy"
    BY <1>2 DEF InitReq, Once, InitPolicy, IncludesRead
  <1>3. QED
    BY <1>1, <1>2 DEF Requirement, MaxInitReq

\* Whatever was written to memory is copied or cleared.
LEMMA MemoryIsCleaned ==
    ASSUME CoreTypes, kind = "memory", NEW s \in Subresources, NEW p \in InitPolicy, p # "Fastest",
           NEW initialized \in BOOLEAN
    PROVE  \/ Requirement(s, p, initialized) = "Copy"
           \/ Requirement(s, p, initialized) = "Clear" /\ p = "ClearUnread"
           \/ initialized /\ refs[s] \in {eFrameRef_None, eFrameRef_Read}
  BY DEF Requirement, InitReq, Once, InitPolicy

\* Half by half, what the requirements make of the contents.
LEMMA InitialisedHalves ==
    ASSUME CoreTypes, NEW p \in InitPolicy, NEW initialized \in BOOLEAN,
           NEW before \in [Subresources -> [Halves -> Int]]
    PROVE  /\ Initialised(p, initialized, before) \in [Subresources -> [Halves -> Int]]
           /\ \A s \in Subresources, h \in Halves :
                  /\ Requirement(s, p, initialized) = "Copy" =>
                         Initialised(p, initialized, before)[s][h] = Initial
                  /\ Requirement(s, p, initialized) = "Clear" =>
                         Initialised(p, initialized, before)[s][h] = Cleared
                  /\ Requirement(s, p, initialized) # "Copy" /\ Requirement(s, p, initialized) # "Clear" =>
                         Initialised(p, initialized, before)[s][h] = before[s][h]
  BY DEF Initialised, Initial, Cleared

-----------------------------------------------------------------------------
(* The replays.                                                            *)

\* Both replays begin alike, with contents from before that keep what the
\* references do not ask to restore.
LEMMA ReplayBegins ==
    ASSUME CoreTypes, SeenFollows, RefsMean, bound = NoRefs, recorded = NoRefs,
           NEW p \in InitPolicy, NEW initialized \in BOOLEAN,
           NEW before \in [Subresources -> [Halves -> Int]],
           initialized => before = contents /\ ReadOnlyKept /\ UnwrittenClean /\ p = policy,
           UNCHANGED <<accesses, bound, recorded, refs, kind>>,
           phase' = "replay", policy' = p, next' = 1,
           contents' = Initialised(p, initialized, before)
    PROVE  IInv'
  <1>1. CoreTypes'
    <2>1. contents' \in [Subresources -> [Halves -> Int]]
      BY InitialisedHalves
    <2>2. QED
      BY <2>1 DEF CoreTypes
  <1>2. \A s \in Subresources : Gathered(s)' = Gathered(s)
    BY DEF Gathered
  <1>3. SeenFollows' /\ RefsMean'
    BY <1>2, SameAccesses, SameMeanings
  <1>4. ASSUME NEW s \in Subresources, NEW h \in Halves, NEW k \in 1 .. Len(accesses),
               IsRead(k, s), Untouched(s, h, 1, k - 1)
        PROVE  contents'[s][h] = Initial
    <2>1. /\ IncludesRead(refs[s])
          /\ refs[s] # eFrameRef_ReadBeforeWrite => Untouched(s, h, 1, Len(accesses))
      BY <1>4, InitialReadIsKnown
    <2>2. CASE Requirement(s, p, initialized) = "Copy"
      BY <2>2, InitialisedHalves
    <2>3. CASE Requirement(s, p, initialized) # "Copy"
      <3>1. /\ initialized /\ Requirement(s, p, initialized) = "None"
            /\ refs[s] # eFrameRef_ReadBeforeWrite
        BY <2>1, <2>3, ReadIsCopied
      <3>2. contents[s][h] = Initial
        BY <1>4, <2>1, <3>1 DEF ReadOnlyKept
      <3>3. before = contents
        BY <3>1
      <3>4. contents'[s][h] = before[s][h]
        BY <3>1, InitialisedHalves, ZenonT(60)
      <3>5. QED
        BY <3>2, <3>3, <3>4
    <2>4. QED
      BY <2>2, <2>3
  <1>5. ReadsToCome'
    <2>1. SUFFICES ASSUME NEW s \in Subresources, NEW h \in Halves, NEW k \in 1 .. Len(accesses),
                          IsRead(k, s), Untouched(s, h, 1, k - 1)
                   PROVE  contents'[s][h] = accesses[k].seen[h]
      BY DEF ReadsToCome, IsRead, Untouched, Overwrites, IsWrite
    <2>2. QED
      BY <1>4, <2>1 DEF SeenFollows
  <1>6. ReadOnlyKept'
    <2>1. SUFFICES ASSUME NEW s \in Subresources, NEW h \in Halves, NEW k \in 1 .. Len(accesses),
                          IsRead(k, s), Untouched(s, h, 1, Len(accesses))
                   PROVE  contents'[s][h] = Initial
      BY DEF ReadOnlyKept, IsRead, Untouched, Overwrites, IsWrite
    <2>2. \A j \in 1 .. k - 1 : j \in 1 .. Len(accesses)
      BY DEF CoreTypes
    <2>3. QED
      BY <1>4, <2>1, <2>2 DEF Untouched
  <1>7. ASSUME NEW s \in Subresources, NEW h \in Halves, kind = "memory", p # "Fastest"
        PROVE  CleanHalf(s, h)'
    <2>1. CASE Requirement(s, p, initialized) = "Copy"
      BY <2>1, InitialisedHalves DEF CleanHalf
    <2>2. CASE Requirement(s, p, initialized) = "Clear" /\ p = "ClearUnread"
      BY <2>2, InitialisedHalves DEF CleanHalf
    <2>3. CASE /\ Requirement(s, p, initialized) \notin {"Copy", "Clear"}
               /\ initialized /\ refs[s] \in {eFrameRef_None, eFrameRef_Read}
      <3>1. CleanHalf(s, h)
        BY <1>7, <2>3 DEF UnwrittenClean
      <3>2. before = contents
        BY <2>3
      <3>3. contents'[s][h] = before[s][h]
        <4>1. /\ Requirement(s, p, initialized) # "Copy"
              /\ Requirement(s, p, initialized) # "Clear"
          BY <2>3
        <4>2. QED
          BY <4>1, InitialisedHalves
      <3>4. QED
        BY <2>3, <3>1, <3>2, <3>3 DEF CleanHalf
    <2>4. Requirement(s, p, initialized) = "Clear" => p = "ClearUnread"
      BY <1>7 DEF Requirement, InitReq, Once, InitPolicy
    <2>5. QED
      BY <1>7, <2>1, <2>2, <2>3, <2>4, MemoryIsCleaned
  <1>8. UnwrittenClean' /\ BeginsClean'
    BY <1>7 DEF UnwrittenClean, BeginsClean, CleanHalf
  <1>9. ContentsFollow'
    BY DEF ContentsFollow
  <1>10. QED
    BY <1>1, <1>3, <1>5, <1>6, <1>8, <1>9 DEF IInv, ReplayFollows, NoRefs

\* The first replay.
LEMMA FirstReplayPreserves ==
    ASSUME IInv, NEW p \in InitPolicy, FirstReplay(p)
    PROVE  IInv'
  <1>1. All(Junk) \in [Subresources -> [Halves -> Int]]
    BY DEF All, Junk
  <1>2. QED
    BY <1>1, ReplayBegins DEF FirstReplay, IInv

\* The second replay, with what the first one left.
LEMMA NextReplayPreserves ==
    ASSUME IInv, NextReplay
    PROVE  IInv'
  <1>1. policy \in InitPolicy /\ contents \in [Subresources -> [Halves -> Int]]
    BY DEF IInv, CoreTypes
  <1>2. /\ bound = NoRefs /\ recorded = NoRefs /\ ReadOnlyKept /\ UnwrittenClean
        /\ phase' = "replay" /\ policy' = policy
    BY DEF NextReplay, IInv, ReplayFollows
  <1>3. QED
    BY <1>1, <1>2, ReplayBegins DEF NextReplay, IInv

\* A replayed access leaves what the captured one left.
LEMMA ReplayAccessPreserves ==
    ASSUME IInv, ReplayAccess
    PROVE  IInv'
  <1> DEFINE a == accesses[next]
  <1>1. /\ phase = "replay" /\ next <= Len(accesses) /\ next' = next + 1
        /\ contents' = [contents EXCEPT ![a.sub] = After(a, next, @)]
        /\ UNCHANGED <<phase, accesses, bound, recorded, refs, kind, policy>>
    BY DEF ReplayAccess
  <1>2. /\ next \in Nat \ {0} /\ next \in 1 .. Len(accesses) /\ Len(accesses) \in Nat
        /\ a \in Access /\ contents \in [Subresources -> [Halves -> Int]]
    BY <1>1 DEF IInv, CoreTypes
  <1>3. \A s \in Subresources, h \in Halves :
            contents'[s][h] = IF Overwrites(next, s, h) THEN Left(next) ELSE contents[s][h]
    <2>1. SUFFICES ASSUME NEW s \in Subresources, NEW h \in Halves
                   PROVE  contents'[s][h] =
                              IF Overwrites(next, s, h) THEN Left(next) ELSE contents[s][h]
      OBVIOUS
    <2>2. CASE a.sub # s
      BY <1>1, <1>2, <2>2 DEF Overwrites, IsWrite
    <2>3. CASE a.sub = s
      <3>1. contents'[s][h] = After(a, next, contents[s])[h]
        BY <1>1, <1>2, <2>3
      <3>2. a.type \in Writes \cup {eFrameRef_Read} /\ a.half \in Halves
        BY <1>2 DEF Access
      <3>3. After(a, next, contents[s])[h] =
                IF a.type # eFrameRef_Read /\ (a.type = eFrameRef_PartialWrite => a.half = h)
                THEN IF a.type = eFrameRef_CompleteWriteAndDiscard THEN Undefined ELSE next
                ELSE contents[s][h]
        BY <1>2, <3>2 DEF After, Writes
      <3>4. QED
        BY <2>3, <3>1, <3>3 DEF Overwrites, IsWrite, Left
    <2>4. QED
      BY <2>2, <2>3
  <1>4. CoreTypes'
    <2>1. After(a, next, contents[a.sub]) \in [Halves -> Int]
      BY <1>2 DEF After, Access, Writes, Undefined
    <2>2. contents' \in [Subresources -> [Halves -> Int]]
      BY <1>1, <1>2, <2>1
    <2>3. QED
      BY <1>1, <1>2, <2>2 DEF IInv, CoreTypes
  <1>5. SeenFollows' /\ RefsMean'
    <2>1. \A s \in Subresources : Gathered(s)' = Gathered(s)
      BY <1>1 DEF Gathered
    <2>2. QED
      BY <1>1, <2>1, SameAccesses, SameMeanings DEF IInv
  <1>6. ReadsToCome'
    <2>1. SUFFICES ASSUME NEW s \in Subresources, NEW h \in Halves,
                          NEW k \in next + 1 .. Len(accesses),
                          IsRead(k, s), Untouched(s, h, next + 1, k - 1)
                   PROVE  contents'[s][h] = accesses[k].seen[h]
      BY <1>1 DEF ReadsToCome, IsRead, Untouched, Overwrites, IsWrite
    <2>2. k \in 1 .. Len(accesses) /\ k \in next .. Len(accesses) /\ next \in 1 .. k - 1
      BY <1>2
    <2>3. CASE Overwrites(next, s, h)
      <3>1. accesses[k].seen[h] = Left(next)
        BY <2>1, <2>2, <2>3 DEF IInv, SeenFollows
      <3>2. QED
        BY <1>3, <2>3, <3>1
    <2>4. CASE ~Overwrites(next, s, h)
      <3>1. \A j \in next .. k - 1 : j = next \/ j \in next + 1 .. k - 1
        BY <1>2
      <3>2. Untouched(s, h, next, k - 1)
        BY <2>1, <2>4, <3>1 DEF Untouched
      <3>3. QED
        BY <1>1, <1>3, <2>1, <2>2, <2>4, <3>2 DEF IInv, ReplayFollows, ReadsToCome
    <2>5. QED
      BY <2>3, <2>4
  <1>7. ReadOnlyKept'
    <2>1. SUFFICES ASSUME NEW s \in Subresources, NEW h \in Halves,
                          \E k \in 1 .. Len(accesses) : IsRead(k, s),
                          Untouched(s, h, 1, Len(accesses))
                   PROVE  contents'[s][h] = Initial
      BY <1>1 DEF ReadOnlyKept, IsRead, Untouched, Overwrites, IsWrite
    <2>2. ~Overwrites(next, s, h)
      BY <1>2, <2>1 DEF Untouched
    <2>3. QED
      BY <1>1, <1>3, <2>1, <2>2 DEF IInv, ReplayFollows, ReadOnlyKept
  <1>8. UnwrittenClean'
    <2>1. SUFFICES ASSUME kind = "memory", policy # "Fastest",
                          NEW s \in Subresources, NEW h \in Halves,
                          refs[s] \in {eFrameRef_None, eFrameRef_Read}
                   PROVE  CleanHalf(s, h)'
      BY <1>1 DEF UnwrittenClean
    <2>2. Means(s, refs[s])
      BY <1>1, ComposeFrameRefsType
      DEF IInv, CoreTypes, RefsMean, Gathered, ReplayFollows, NoRefs
    <2>3. ~IsWrite(next, s)
      BY <1>2, <2>1, <2>2 DEF Means, NoneMeans, ReadMeans, IsWrite
    <2>4. contents'[s][h] = contents[s][h]
      BY <1>3, <2>3 DEF Overwrites
    <2>5. QED
      BY <1>1, <2>1, <2>4 DEF IInv, ReplayFollows, UnwrittenClean, CleanHalf
  <1>9. BeginsClean' /\ ContentsFollow'
    BY <1>1, <1>2 DEF BeginsClean, ContentsFollow
  <1>10. QED
    BY <1>1, <1>4, <1>5, <1>6, <1>7, <1>8, <1>9 DEF IInv, ReplayFollows, NoRefs

-----------------------------------------------------------------------------
(* The invariant.                                                          *)

\* Before the first access every reference is None.
LEMMA InitEstablishes == FrameRefsInit => IInv
  <1>1. SUFFICES ASSUME FrameRefsInit PROVE IInv
    OBVIOUS
  <1>2. accesses = <<>> /\ Len(accesses) = 0 /\ phase = "capture"
    BY <1>1 DEF FrameRefsInit
  <1>3. CoreTypes
    BY <1>1 DEF FrameRefsInit, CoreTypes, All, NoRefs, Initial, InitPolicy, FrameRefType
  <1>4. \A s \in Subresources : Gathered(s) = eFrameRef_None
    BY <1>1, ComposeFrameRefsType DEF FrameRefsInit, NoRefs, Gathered, FrameRefType
  <1>5. RefsMean
    BY <1>2, <1>4 DEF RefsMean, Means, NoneMeans, IsCompleteWriteFrameRef
  <1>6. ContentsFollow /\ SeenFollows
    BY <1>1, <1>2 DEF ContentsFollow, SeenFollows, FrameRefsInit, All
  <1>7. QED
    BY <1>2, <1>3, <1>5, <1>6 DEF IInv, ReplayFollows, BeginsClean

\* Each action preserves the invariant.
LEMMA StepPreserves == IInv /\ [FrameRefsNext]_frameRefsVars => IInv'
  <1> SUFFICES ASSUME IInv, [FrameRefsNext]_frameRefsVars PROVE IInv'
    OBVIOUS
  <1>1. CASE \E s \in Subresources, h \in Halves, t \in Writes \cup {eFrameRef_Read} :
                 Command(s, t, h)
    BY <1>1, CommandPreserves
  <1>2. CASE \E s \in Subresources, h \in Halves, t \in {eFrameRef_Read, eFrameRef_PartialWrite} :
                 Shader(s, t, h)
    BY <1>2, ShaderPreserves
  <1>3. CASE Submit
    BY <1>3, SubmitPreserves
  <1>4. CASE \E p \in InitPolicy : FirstReplay(p)
    BY <1>4, FirstReplayPreserves
  <1>5. CASE NextReplay
    BY <1>5, NextReplayPreserves
  <1>6. CASE ReplayAccess
    BY <1>6, ReplayAccessPreserves
  <1>7. CASE UNCHANGED frameRefsVars
    <2>1. UNCHANGED <<phase, accesses, contents, bound, recorded, refs, kind, policy, next>>
      BY <1>7 DEF frameRefsVars
    <2>2. SeenFollows' /\ RefsMean'
      BY <2>1, SameAccesses, SameMeanings DEF IInv, Gathered
    <2>3. CoreTypes'
      BY <2>1 DEF IInv, CoreTypes
    <2>4. ContentsFollow' /\ BeginsClean'
      <3>1. ContentsFollow'
        BY <2>1 DEF IInv, ContentsFollow, Untouched, Overwrites, IsWrite, Left
      <3>2. BeginsClean'
        BY <2>1 DEF IInv, BeginsClean
      <3>3. QED
        BY <3>1, <3>2
    <2>5. ReplayFollows'
      BY <2>1 DEF IInv, ReplayFollows, ReadsToCome, ReadOnlyKept, UnwrittenClean, CleanHalf,
                  Untouched, Overwrites, IsWrite, IsRead, NoRefs
    <2>6. QED
      BY <2>2, <2>3, <2>4, <2>5 DEF IInv
  <1>8. QED
    BY <1>1, <1>2, <1>3, <1>4, <1>5, <1>6, <1>7 DEF FrameRefsNext

\* Whatever the frame does, in whatever command buffers, and whatever the
\* policy: what a replay reads, the second one included, is what was read in
\* the captured frame (ComposeFrameRefs, CaptureQueueSubmit and InitReq).
THEOREM ReplaysReadTheSame == FrameRefsSpec => []ReadsSeeTheSame
  <1>1. IInv => ReadsSeeTheSame
    <2>1. SUFFICES ASSUME IInv, phase = "replay", next <= Len(accesses),
                          accesses[next].type = eFrameRef_Read
                   PROVE  contents[accesses[next].sub] = accesses[next].seen
      BY DEF ReadsSeeTheSame
    <2>2. /\ next \in next .. Len(accesses) /\ accesses[next] \in Access
          /\ next .. next - 1 = {}
      BY <2>1 DEF IInv, CoreTypes
    <2>3. accesses[next].sub \in Subresources /\ IsRead(next, accesses[next].sub)
      BY <2>1, <2>2 DEF Access, IsRead
    <2>4. \A h \in Halves : contents[accesses[next].sub][h] = accesses[next].seen[h]
      BY <2>1, <2>2, <2>3 DEF IInv, ReplayFollows, ReadsToCome, Untouched
    <2>5. /\ contents[accesses[next].sub] \in [Halves -> Int]
          /\ accesses[next].seen \in [Halves -> Int]
      BY <2>1, <2>2, <2>3 DEF IInv, CoreTypes, Access
    <2>6. QED
      BY <2>4, <2>5
  <1>2. QED
    BY <1>1, InitEstablishes, StepPreserves, PTL DEF FrameRefsSpec

\* Unless the policy is Fastest a replay begins with memory that is as it was,
\* or cleared: nothing of the previous replay is left (InitReq).
THEOREM ReplaysBeginClean == FrameRefsSpec => []BeginsClean
  <1>1. IInv => BeginsClean
    BY DEF IInv
  <1>2. QED
    BY <1>1, InitEstablishes, StepPreserves, PTL DEF FrameRefsSpec

\* No more accesses than the bound, in two replays.
WithinBounds == Len(accesses) <= MaxAccesses /\ round \in 0 .. 2 /\ next \in 1 .. Len(accesses) + 1

LEMMA BoundsBegin == FrameRefsInit => WithinBounds
  BY MaxAccessesAssumption DEF FrameRefsInit, WithinBounds

LEMMA BoundsPreserved ==
    IInv /\ WithinBounds /\ [FrameRefsNext]_frameRefsVars => WithinBounds'
  <1> SUFFICES ASSUME IInv, WithinBounds, [FrameRefsNext]_frameRefsVars PROVE WithinBounds'
    OBVIOUS
  <1>1. accesses \in Seq(Access) /\ next \in Nat \ {0} /\ MaxAccesses \in Nat
    BY MaxAccessesAssumption DEF IInv, CoreTypes
  <1>2. ASSUME NEW s \in Subresources, NEW type, NEW half, Perform(s, type, half) PROVE WithinBounds'
    <2>1. /\ Len(accesses) < MaxAccesses /\ round' = round /\ next' = next
          /\ accesses' = Append(accesses, [sub |-> s, type |-> type, half |-> half, seen |-> contents[s]])
      BY <1>2 DEF Perform
    <2>2. Len(accesses') = Len(accesses) + 1
      BY <1>1, <2>1
    <2>3. QED
      BY <1>1, <2>1, <2>2 DEF WithinBounds
  <1>3. CASE \/ \E s \in Subresources, h \in Halves, t \in Writes \cup {eFrameRef_Read} : Command(s, t, h)
             \/ \E s \in Subresources, h \in Halves, t \in {eFrameRef_Read, eFrameRef_PartialWrite} :
                   Shader(s, t, h)
    BY <1>2, <1>3 DEF Command, Shader
  <1>4. CASE Submit \/ UNCHANGED frameRefsVars
    BY <1>4 DEF Submit, frameRefsVars, WithinBounds
  <1>5. CASE NextReplay \/ \E p \in InitPolicy : FirstReplay(p)
    <2>1. next' = 1 /\ round' \in {1, 2} /\ accesses' = accesses
      BY <1>5 DEF NextReplay, FirstReplay
    <2>2. Len(accesses) \in Nat
      BY <1>1
    <2>3. QED
      BY <2>1, <2>2 DEF WithinBounds
  <1>6. CASE ReplayAccess
    BY <1>1, <1>6 DEF ReplayAccess, WithinBounds
  <1>7. QED
    BY <1>3, <1>4, <1>5, <1>6 DEF FrameRefsNext

\* Types of the machine that gives references a meaning, for any frame: what
\* composing references, in and out of order, makes of them is a reference, and
\* one of bindings never more than a read and a write.
THEOREM FrameRefsTypeCorrect == FrameRefsSpec => []FrameRefsTypeOK
  <1>1. IInv /\ WithinBounds => FrameRefsTypeOK
    <2>1. SUFFICES ASSUME IInv, WithinBounds PROVE FrameRefsTypeOK
      OBVIOUS
    <2>2. CoreTypes
      BY <2>1 DEF IInv
    <2>3. bound \in [Subresources -> FrameRefType]
      BY <2>2 DEF CoreTypes, FrameRefType
    <2>4. {bound, recorded, refs} \subseteq [Subresources -> FrameRefType]
      BY <2>2, <2>3 DEF CoreTypes
    <2>5. next \in 1 .. MaxAccesses + 1 /\ Len(accesses) <= MaxAccesses /\ round \in 0 .. 2
      BY <2>1, <2>2, MaxAccessesAssumption DEF WithinBounds, CoreTypes
    <2>6. QED
      BY <2>2, <2>4, <2>5 DEF CoreTypes, FrameRefsTypeOK
  <1>2. QED
    BY <1>1, InitEstablishes, StepPreserves, BoundsBegin, BoundsPreserved, PTL DEF FrameRefsSpec

-----------------------------------------------------------------------------
(* Initial contents: types, and what a stage of the capturing thread means. *)

Stages == {"idle", "starting", "prepared", "capturing", "ended", "chunks", "contents", "needed"}

ManagerTypes ==
    /\ stage \in Stages /\ refAllResources \in BOOLEAN
    /\ m_ResourceRecords \in RefCounts
    /\ m_FrameReferencedResources \in [Resources -> FrameRefType]
    /\ m_InitialContents \in [Resources -> Contents]
    /\ {m_CurrentResourceMap, m_DirtyResources, m_PostponedResourceIDs, m_SkippedResourceIDs,
        fresh, atStart, changed} \subseteq SUBSET Resources
    /\ DOMAIN file = {"chunks", "contents", "needed"}

\* Only a frame that is captured has references, and between captures nothing
\* is fetched, postponed, skipped or in a file.
StagesFollow ==
    /\ m_State = "ActiveCapturing" <=> stage = "capturing"
    /\ stage \in {"idle", "starting", "prepared"} => Referenced = {}
    /\ stage \in {"idle", "starting"} =>
         /\ m_PostponedResourceIDs = {} /\ m_SkippedResourceIDs = {}
         /\ m_InitialContents = [r \in Resources |-> "none"]
    /\ stage \in {"idle", "starting", "prepared", "capturing", "ended"} => DataWritten = {}

\* A resource that was not created yet is in none of the maps.
FreshIsNew ==
    /\ fresh \cap (m_CurrentResourceMap \cup Referenced \cup atStart) = {}
    /\ \A r \in fresh : m_ResourceRecords[r] = 0

-----------------------------------------------------------------------------
(* Records: who uses each of them, and the records bound to it.            *)

One(used) == IF used THEN 1 ELSE 0

Bound(r, records) == {q \in Resources : Parent[q] = r /\ records[q] > 0}

Users(r, records, app, frame) ==
    One(r \in app) + One(r \in frame) + Cardinality(Bound(r, records))

Counted(records, app, frame) ==
    \A r \in Resources : records[r] = Users(r, records, app, frame)

\* The same but for one reference too many.
CountedButFor(x, records, app, frame) ==
    \A r \in Resources : records[r] = Users(r, records, app, frame) + One(r = x)

RecordsInv ==
    /\ ManagerTypes /\ StagesFollow /\ FreshIsNew
    /\ Counted(m_ResourceRecords, m_CurrentResourceMap, Referenced)
    /\ RecordsInFile

-----------------------------------------------------------------------------
(* Contents, if Hazards is empty.                                          *)

\* Memory outlives the images bound to it, and what exists is dirty.
CurrentIsWhole ==
    /\ m_CurrentResourceMap \subseteq m_DirtyResources
    /\ \A r \in m_CurrentResourceMap : {r, Parent[r]} \ {NoParent} \subseteq m_CurrentResourceMap

\* What a resource of the start of the frame held can still be had: it is
\* where it was, or has been fetched, or nothing will ask for it.
InTime(r) ==
    LET refType == m_FrameReferencedResources[r] IN
    \/ /\ r \in m_SkippedResourceIDs \ (m_PostponedResourceIDs \cup changed)
       /\ refType = eFrameRef_None
    \/ /\ r \in m_PostponedResourceIDs \ (m_SkippedResourceIDs \cup changed)
       /\ m_InitialContents[r] = "empty" /\ r \in m_CurrentResourceMap
    \/ /\ r \notin m_SkippedResourceIDs \cup m_PostponedResourceIDs
       /\ m_InitialContents[r] = "start" \/ IsCompleteWriteFrameRef(refType)
    \/ refType = eFrameRef_None /\ r \notin m_CurrentResourceMap

ContentsInTime ==
    stage \in {"prepared", "capturing", "ended", "chunks"} => \A r \in atStart : InTime(r)

ContentsInFile ==
    stage = "contents" => \A r \in Resources : LeftToReplay(r) =>
        file.contents[r] = "start" /\ m_InitialContents[r] # "none"

ContentsInv == CurrentIsWhole /\ ContentsInTime /\ ContentsInFile /\ StartContentsKept

\* Since contents worth keeping were written, at least as much time has passed
\* as since writes were first skipped.
SkippedSince ==
    /\ m_ResourceRefTimes \in [Resources -> ResourceRefTimes \cup {NotListed}]
    /\ kept \in [Resources -> 0 .. PERSISTENT_RESOURCE_AGE + 1]
    /\ \A r \in Resources : kept[r] >= m_ResourceRefTimes[r].skip

-----------------------------------------------------------------------------
(* Induction over numbers, without an operator for what is proved by it.   *)

LEMMA LeastNumber ==
    ASSUME NEW T, T \subseteq Nat, T # {}
    PROVE  \E least \in T : \A n \in T : least <= n
  <1> DEFINE R == OpToRel(<, Nat)
  <1>1. \A m, n \in Nat : <<m, n>> \in R <=> m < n
    BY DEF OpToRel
  <1>2. PICK least \in T : \A n \in T : <<n, least>> \notin R
    <2>1. IsWellFoundedOn(R, Nat)
      BY NatLessThanWellFounded
    <2> HIDE DEF R
    <2>2. QED
      BY <2>1, WFMin
  <1>3. \A n \in T : n \in Nat /\ least \in Nat /\ ~(n < least)
    BY <1>1, <1>2
  <1>4. QED
    BY <1>3

LEMMA CountingUp ==
    ASSUME NEW N \in Nat, NEW T, 0 \in T,
           \A n \in Nat : n < N /\ n \in T => n + 1 \in T
    PROVE  N \in T
  <1> DEFINE Missing == {n \in 0 .. N : n \notin T}
  <1>1. ASSUME Missing # {}
        PROVE  FALSE
    <2>1. PICK n \in Missing : \A m \in Missing : n <= m
      <3>1. Missing \subseteq Nat
        OBVIOUS
      <3> HIDE DEF Missing
      <3>2. QED
        BY <1>1, <3>1, LeastNumber
    <2>2. n \in 1 .. N /\ n - 1 \in Nat /\ n - 1 < N /\ n - 1 \notin Missing
      BY <2>1
    <2>3. n - 1 \in T /\ (n - 1) + 1 = n
      BY <2>2
    <2>4. QED
      BY <2>1, <2>2, <2>3
  <1>2. QED
    BY <1>1

LEMMA ResourcesAreBounded ==
    /\ Resources \subseteq Nat \ {0} /\ IsFiniteSet(Resources)
    /\ \E N \in Nat : \A r \in Resources : r <= N
  <1>1. Resources \subseteq Nat \ {0} /\ IsFiniteSet(Resources)
    BY ResourcesAssumption DEF NoParent
  <1> DEFINE Bounded(s) == \E N \in Nat : \A r \in s : r <= N
             T == {n \in Nat : \A s \in SUBSET Resources : Cardinality(s) = n => Bounded(s)}
  <1>2. \A s \in SUBSET Resources : IsFiniteSet(s) /\ Cardinality(s) \in Nat
    BY <1>1, FS_Subset, FS_CardinalityType
  <1>3. 0 \in T
    <2>1. \A s \in SUBSET Resources : Cardinality(s) = 0 => s = {}
      BY <1>2, FS_EmptySet
    <2>2. Bounded({})
      OBVIOUS
    <2>3. QED
      BY <2>1, <2>2
  <1>4. ASSUME NEW n \in Nat, n \in T
        PROVE  n + 1 \in T
    <2>1. ASSUME NEW s \in SUBSET Resources, Cardinality(s) = n + 1
          PROVE  Bounded(s)
      <3>1. PICK r \in s : r \in Nat
        <4>1. s # {}
          BY <2>1, FS_EmptySet
        <4>2. QED
          BY <1>1, <4>1
      <3>2. Cardinality(s \ {r}) = n /\ s \ {r} \in SUBSET Resources
        <4>1. IsFiniteSet(s)
          BY <1>2
        <4>2. Cardinality(s \ {r}) = Cardinality(s) - 1
          BY <3>1, <4>1, FS_RemoveElement
        <4>3. QED
          BY <2>1, <4>2
      <3>3. PICK N \in Nat : \A q \in s \ {r} : q <= N
        BY <1>4, <3>2
      <3>4. PICK M \in Nat : r <= M /\ N <= M
        <4>1. CASE r <= N
          BY <4>1
        <4>2. CASE ~(r <= N)
          BY <3>1, <4>2
        <4>3. QED
          BY <4>1, <4>2
      <3>5. \A q \in s : q <= M
        BY <1>1, <3>3, <3>4
      <3>6. QED
        BY <3>5
    <2>2. QED
      BY <2>1
  <1>5. Cardinality(Resources) \in T
    <2> HIDE DEF T
    <2>1. Cardinality(Resources) \in Nat
      BY <1>2
    <2>2. QED
      BY <1>3, <1>4, <2>1, CountingUp
  <1>6. QED
    BY <1>1, <1>5

-----------------------------------------------------------------------------
(* Delete, which goes from a record to that of its parent, and the loop of *)
(* ClearReferencedResources over it are recursive functions: there is a    *)
(* function that satisfies their definition, so they do.                   *)

DeleteBody(f, r) ==
    [records \in RefCounts |->
        LET left == [records EXCEPT ![r] = @ - 1] IN
        IF left[r] > 0 \/ Parent[r] = NoParent THEN left ELSE f[Parent[r]][left]]

IsDelete(f) == f = [r \in Resources |-> DeleteBody(f, r)]

LEMMA DeleteIs == \A r \in Resources : Delete[r] = DeleteBody(Delete, r)
  <1>1. PICK N \in Nat : \A r \in Resources : r <= N
    BY ResourcesAreBounded
  <1> DEFINE UpTo(f, n) == \A r \in Resources : r <= n => f[r] = DeleteBody(f, r)
             Defined == {n \in Nat : \E f : f = [r \in Resources |-> f[r]] /\ UpTo(f, n)}
  <1>2. 0 \in Defined
    <2>1. \A r \in Resources : ~(r <= 0)
      BY ResourcesAreBounded
    <2>2. UpTo([r \in Resources |-> 0], 0)
      BY <2>1
    <2>3. [r \in Resources |-> 0] = [r \in Resources |-> [q \in Resources |-> 0][r]]
      OBVIOUS
    <2> HIDE DEF UpTo
    <2>4. QED
      BY <2>2, <2>3
  <1>3. ASSUME NEW n \in Nat, n \in Defined
        PROVE  n + 1 \in Defined
    <2>1. PICK f : UpTo(f, n)
      BY <1>3
    <2> DEFINE g == [r \in Resources |-> DeleteBody(f, r)]
    <2>2. ASSUME NEW r \in Resources, r <= n + 1
          PROVE  DeleteBody(g, r) = DeleteBody(f, r)
      <3>1. Parent[r] # NoParent => g[Parent[r]] = f[Parent[r]]
        <4>1. Parent[r] # NoParent => Parent[r] \in Resources /\ Parent[r] < r
          BY ResourcesAssumption
        <4>2. Parent[r] # NoParent => Parent[r] \in Nat /\ r \in Nat
          BY <4>1, ResourcesAreBounded
        <4>3. Parent[r] # NoParent => Parent[r] <= n
          BY <2>2, <4>1, <4>2
        <4>4. QED
          BY <2>1, <4>1, <4>3
      <3> HIDE DEF g
      <3>2. QED
        BY <3>1 DEF DeleteBody
    <2>3. UpTo(g, n + 1)
      BY <2>2
    <2>4. g = [r \in Resources |-> g[r]]
      OBVIOUS
    <2> HIDE DEF g, UpTo
    <2>5. QED
      BY <2>3, <2>4
  <1>4. N \in Defined
    <2> HIDE DEF Defined
    <2>1. QED
      BY <1>1, <1>2, <1>3, CountingUp
  <1>5. \E f : IsDelete(f)
    <2>1. PICK f : f = [r \in Resources |-> f[r]] /\ UpTo(f, N)
      BY <1>4
    <2>2. \A r \in Resources : f[r] = DeleteBody(f, r)
      BY <1>1, <2>1
    <2>3. IsDelete(f)
      BY <2>1, <2>2 DEF IsDelete
    <2>4. QED
      BY <2>3
  <1>6. Delete = CHOOSE f : IsDelete(f)
    BY Zenon DEF Delete, IsDelete, DeleteBody
  <1>7. IsDelete(Delete)
    BY <1>5, <1>6
  <1>8. QED
    BY <1>7 DEF IsDelete


DeleteAll(records, S) == FoldSet(LAMBDA r, left : Delete[r][left], records, S)

DeleteAllBody(f, s, records) ==
    IF s = {} THEN records
    ELSE LET r == CHOOSE q \in s : TRUE IN Delete[r][f[s \ {r}]]

IsDeleteAll(f, S, records) == f = [s \in SUBSET S |-> DeleteAllBody(f, s, records)]

\* What the loop has left for each set of records it has come through.
LEMMA DeleteAllIs ==
    ASSUME NEW S, IsFiniteSet(S), NEW records
    PROVE  \E f : /\ DeleteAll(records, S) = f[S]
                  /\ \A s \in SUBSET S : f[s] = DeleteAllBody(f, s, records)
  <1> DEFINE UpTo(f, n) == \A s \in SUBSET S : Cardinality(s) <= n => f[s] = DeleteAllBody(f, s, records)
             Defined == {n \in Nat : \E f : f = [s \in SUBSET S |-> f[s]] /\ UpTo(f, n)}
  <1>1. \A s \in SUBSET S : Cardinality(s) \in Nat /\ Cardinality(s) <= Cardinality(S) /\ IsFiniteSet(s)
    BY FS_Subset, FS_CardinalityType
  <1>2. 0 \in Defined
    <2> DEFINE g == [s \in SUBSET S |-> records]
    <2>1. ASSUME NEW s \in SUBSET S, Cardinality(s) <= 0
          PROVE  g[s] = DeleteAllBody(g, s, records)
      <3>1. Cardinality(s) = 0
        BY <1>1, <2>1
      <3>2. s = {}
        BY <1>1, <3>1, FS_EmptySet
      <3>3. QED
        BY <3>2 DEF DeleteAllBody
    <2>2. UpTo(g, 0)
      BY <2>1
    <2>3. g = [s \in SUBSET S |-> g[s]]
      OBVIOUS
    <2> HIDE DEF g, UpTo
    <2>4. QED
      BY <2>2, <2>3
  <1>3. ASSUME NEW n \in Nat, n \in Defined
        PROVE  n + 1 \in Defined
    <2>1. PICK f : UpTo(f, n)
      BY <1>3
    <2> DEFINE g == [s \in SUBSET S |-> DeleteAllBody(f, s, records)]
    <2>2. ASSUME NEW s \in SUBSET S, Cardinality(s) <= n + 1
          PROVE  DeleteAllBody(g, s, records) = DeleteAllBody(f, s, records)
      <3>1. CASE s = {}
        BY <3>1 DEF DeleteAllBody
      <3>2. CASE s # {}
        <4> DEFINE r == CHOOSE q \in s : TRUE
        <4>1. r \in s
          BY <3>2
        <4> HIDE DEF r
        <4>2. Cardinality(s \ {r}) = Cardinality(s) - 1 /\ s \ {r} \in SUBSET S
          BY <1>1, <4>1, FS_RemoveElement
        <4>3. Cardinality(s \ {r}) <= n
          BY <1>1, <2>2, <4>2
        <4>4. g[s \ {r}] = f[s \ {r}]
          BY <2>1, <4>2, <4>3
        <4> HIDE DEF g
        <4>5. QED
          BY <3>2, <4>4 DEF DeleteAllBody, r
      <3>3. QED
        BY <3>1, <3>2
    <2>3. UpTo(g, n + 1)
      BY <2>2
    <2>4. g = [s \in SUBSET S |-> g[s]]
      OBVIOUS
    <2> HIDE DEF g, UpTo
    <2>5. QED
      BY <2>3, <2>4
  <1>4. Cardinality(S) \in Defined
    <2> HIDE DEF Defined
    <2>1. Cardinality(S) \in Nat
      BY <1>1
    <2>2. QED
      BY <1>2, <1>3, <2>1, CountingUp
  <1>5. \E f : IsDeleteAll(f, S, records)
    <2>1. PICK f : f = [s \in SUBSET S |-> f[s]] /\ UpTo(f, Cardinality(S))
      BY <1>4
    <2>2. \A s \in SUBSET S : f[s] = DeleteAllBody(f, s, records)
      BY <1>1, <2>1
    <2>3. IsDeleteAll(f, S, records)
      BY <2>1, <2>2 DEF IsDeleteAll
    <2>4. QED
      BY <2>3
  <1>6. DeleteAll(records, S) = (CHOOSE f : IsDeleteAll(f, S, records))[S]
    BY Zenon DEF DeleteAll, FoldSet, MapThenFoldSet, IsDeleteAll, DeleteAllBody
  <1> DEFINE all == CHOOSE f : IsDeleteAll(f, S, records)
  <1>7. IsDeleteAll(all, S, records)
    BY <1>5
  <1>8. \A s \in SUBSET S : all[s] = DeleteAllBody(all, s, records)
    BY <1>7 DEF IsDeleteAll
  <1>9. QED
    BY <1>6, <1>8

-----------------------------------------------------------------------------
(* A reference is given back.                                              *)

LEMMA UsersCount ==
    ASSUME NEW r, NEW records, NEW app, NEW frame
    PROVE  /\ IsFiniteSet(Bound(r, records)) /\ Cardinality(Bound(r, records)) \in Nat
           /\ Users(r, records, app, frame) \in Nat
  <1>1. IsFiniteSet(Bound(r, records))
    BY ResourcesAreBounded, FS_Subset DEF Bound
  <1>2. Cardinality(Bound(r, records)) \in Nat
    BY <1>1, FS_CardinalityType
  <1>3. One(r \in app) \in Nat /\ One(r \in frame) \in Nat
    BY DEF One
  <1>4. QED
    BY <1>1, <1>2, <1>3 DEF Users

\* What is left is counted, and no count has grown.
GivenBack(left, records, app, frame) ==
    /\ left \in RefCounts /\ Counted(left, app, frame)
    /\ \A r \in Resources : left[r] <= records[r]

LEMMA BoundLeft ==
    ASSUME NEW x \in Resources, NEW records \in RefCounts, NEW left \in RefCounts,
           left[x] \in Nat, records[x] = left[x] + 1,
           \A q \in Resources : q # x => left[q] = records[q]
    PROVE  /\ left[x] > 0 => \A r \in Resources : Bound(r, left) = Bound(r, records)
           /\ left[x] = 0 =>
                /\ \A r \in Resources : r # Parent[x] => Bound(r, left) = Bound(r, records)
                /\ Parent[x] \in Resources =>
                     Cardinality(Bound(Parent[x], left)) = Cardinality(Bound(Parent[x], records)) - 1
  <1>1. records[x] > 0 /\ (left[x] = 0 <=> ~(left[x] > 0))
    OBVIOUS
  <1>2. \A q \in Resources : q # x => left[q] = records[q]
    OBVIOUS
  <1>3. ASSUME left[x] > 0, NEW r \in Resources
        PROVE  Bound(r, left) = Bound(r, records)
    <2>1. left[x] > 0 <=> records[x] > 0
      BY <1>1, <1>3
    <2>2. \A q \in Resources : left[q] > 0 <=> records[q] > 0
      <3>1. ASSUME NEW q \in Resources
            PROVE  left[q] > 0 <=> records[q] > 0
        <4>1. CASE q = x
          BY <2>1, <4>1
        <4>2. CASE q # x
          <5>1. left[q] = records[q]
            BY <1>2, <4>2
          <5>2. QED
            BY <5>1
        <4>3. QED
          BY <4>1, <4>2
      <3>2. QED
        BY <3>1
    <2>3. QED
      BY <2>2 DEF Bound
  <1>4. ASSUME left[x] = 0, NEW r \in Resources, r # Parent[x]
        PROVE  Bound(r, left) = Bound(r, records)
    BY <1>2, <1>4 DEF Bound
  <1>5. ASSUME left[x] = 0, Parent[x] \in Resources
        PROVE  Cardinality(Bound(Parent[x], left)) = Cardinality(Bound(Parent[x], records)) - 1
    <2>1. x \in Bound(Parent[x], records) /\ x \notin Bound(Parent[x], left)
      <3>1. records[x] > 0 /\ ~(left[x] > 0)
        BY <1>1, <1>5
      <3>2. QED
        BY <3>1 DEF Bound
    <2>2. Bound(Parent[x], left) = Bound(Parent[x], records) \ {x}
      BY <1>2, <2>1 DEF Bound
    <2>3. QED
      BY <2>1, <2>2, UsersCount, FS_RemoveElement
  <1>6. QED
    BY <1>3, <1>4, <1>5

LEMMA DeleteGivesBack ==
    ASSUME NEW app, NEW frame, NEW x \in Resources, NEW records \in RefCounts,
           CountedButFor(x, records, app, frame)
    PROVE  GivenBack(Delete[x][records], records, app, frame)
  <1> DEFINE Bad == {y \in Resources : \E rec \in RefCounts :
                       /\ CountedButFor(y, rec, app, frame)
                       /\ ~GivenBack(Delete[y][rec], rec, app, frame)}
  <1>1. ASSUME Bad # {}
        PROVE  FALSE
    <2>1. PICK y \in Bad : \A z \in Bad : y <= z
      <3>1. Bad \subseteq Nat
        BY ResourcesAreBounded
      <3> HIDE DEF Bad
      <3>2. QED
        BY <1>1, <3>1, LeastNumber
    <2>2. PICK rec \in RefCounts : /\ CountedButFor(y, rec, app, frame)
                                   /\ ~GivenBack(Delete[y][rec], rec, app, frame)
      BY <2>1
    <2>3. y \in Resources /\ y \in Nat /\ y > 0
      BY <2>1, ResourcesAreBounded
    <2> DEFINE left == [rec EXCEPT ![y] = @ - 1]
    <2>4. /\ left \in RefCounts /\ \A r \in Resources : left[r] = rec[r] - One(r = y)
          /\ \A r \in Resources : left[r] <= rec[r]
      BY <2>3 DEF RefCounts, One
    <2>5. Delete[y][rec] = IF left[y] > 0 \/ Parent[y] = NoParent THEN left ELSE Delete[Parent[y]][left]
      <3>1. Delete[y] = DeleteBody(Delete, y)
        BY <2>3, DeleteIs
      <3>2. QED
        BY <3>1 DEF DeleteBody
    <2> HIDE DEF left
    <2>6. \A r \in Resources : left[r] = Users(r, rec, app, frame)
      <3>1. ASSUME NEW r \in Resources
            PROVE  left[r] = Users(r, rec, app, frame)
        <4>1. rec[r] = Users(r, rec, app, frame) + One(r = y)
          BY <2>2 DEF CountedButFor
        <4>2. Users(r, rec, app, frame) \in Nat /\ One(r = y) \in Nat
          BY UsersCount DEF One
        <4>3. left[r] = rec[r] - One(r = y)
          BY <2>4
        <4>4. QED
          BY <4>1, <4>2, <4>3
      <3>2. QED
        BY <3>1
    <2>7. left[y] \in Nat
      BY <2>3, <2>6, UsersCount
    <2>8. left = [rec EXCEPT ![y] = @ - 1]
      BY DEF left
    <2>9. /\ left[y] > 0 => \A r \in Resources : Bound(r, left) = Bound(r, rec)
          /\ left[y] = 0 =>
               /\ \A r \in Resources : r # Parent[y] => Bound(r, left) = Bound(r, rec)
               /\ Parent[y] \in Resources =>
                    Cardinality(Bound(Parent[y], left)) = Cardinality(Bound(Parent[y], rec)) - 1
      <3>1. left[y] \in Nat /\ rec[y] = left[y] + 1
        <4>1. left[y] = rec[y] - One(y = y) /\ One(y = y) = 1 /\ rec[y] \in Int
          BY <2>2, <2>3, <2>4 DEF One, RefCounts
        <4>2. QED
          BY <2>7, <4>1
      <3>2. \A q \in Resources : q # y => left[q] = rec[q]
        BY <2>2, <2>8 DEF RefCounts
      <3>3. y \in Resources /\ rec \in RefCounts /\ left \in RefCounts
        BY <2>2, <2>3, <2>4
      <3> HIDE DEF Bad
      <3>4. QED
        BY <3>1, <3>2, <3>3, BoundLeft
    <2>10. CASE left[y] > 0 \/ Parent[y] = NoParent
      <3>1. \A r \in Resources : Bound(r, left) = Bound(r, rec)
        <4>1. left[y] > 0 \/ left[y] = 0
          BY <2>7
        <4>2. \A r \in Resources : r # NoParent
          BY ResourcesAreBounded DEF NoParent
        <4>3. QED
          BY <2>9, <2>10, <4>1, <4>2
      <3>2. Counted(left, app, frame)
        BY <2>6, <3>1 DEF Counted, Users
      <3>3. Delete[y][rec] = left
        BY <2>5, <2>10
      <3>4. QED
        BY <2>2, <2>4, <3>2, <3>3 DEF GivenBack
    <2>11. CASE ~(left[y] > 0 \/ Parent[y] = NoParent)
      <3>1. /\ left[y] = 0 /\ Parent[y] \in Resources /\ Parent[y] < y
            /\ Delete[y][rec] = Delete[Parent[y]][left]
        BY <2>3, <2>5, <2>7, <2>11, ResourcesAssumption
      <3>2. CountedButFor(Parent[y], left, app, frame)
        <4>1. ASSUME NEW r \in Resources
              PROVE  left[r] = Users(r, left, app, frame) + One(r = Parent[y])
          <5>1. CASE r # Parent[y]
            <6>1. Users(r, left, app, frame) = Users(r, rec, app, frame)
              BY <2>9, <3>1, <5>1 DEF Users
            <6>2. QED
              BY <2>6, <5>1, <6>1, UsersCount DEF One
          <5>2. CASE r = Parent[y]
            <6>1. Cardinality(Bound(r, left)) = Cardinality(Bound(r, rec)) - 1
              BY <2>9, <3>1, <5>2
            <6>2. Cardinality(Bound(r, rec)) \in Nat /\ Cardinality(Bound(r, left)) \in Nat
              BY UsersCount
            <6>3. One(r \in app) \in Nat /\ One(r \in frame) \in Nat /\ One(r = Parent[y]) = 1
              BY <5>2 DEF One
            <6>4. left[r] = One(r \in app) + One(r \in frame) + Cardinality(Bound(r, rec))
              BY <2>6 DEF Users
            <6>5. Users(r, left, app, frame) =
                    One(r \in app) + One(r \in frame) + Cardinality(Bound(r, left))
              BY DEF Users
            <6>6. QED
              BY <6>1, <6>2, <6>3, <6>4, <6>5
          <5>3. QED
            BY <5>1, <5>2
        <4>2. QED
          BY <4>1 DEF CountedButFor
      <3>3. Parent[y] \notin Bad
        <4>1. Parent[y] \in Nat /\ y \in Nat
          BY <3>1, ResourcesAreBounded
        <4>2. ~(y <= Parent[y])
          BY <3>1, <4>1
        <4> HIDE DEF Bad
        <4>3. QED
          BY <2>1, <4>2
      <3>4. GivenBack(Delete[Parent[y]][left], left, app, frame)
        BY <2>4, <3>1, <3>2, <3>3
      <3>5. \A r \in Resources : Delete[Parent[y]][left][r] <= rec[r]
        <4>1. ASSUME NEW r \in Resources
              PROVE  Delete[Parent[y]][left][r] <= rec[r]
          <5>1. Delete[Parent[y]][left][r] \in Int /\ left[r] \in Int /\ rec[r] \in Int
            BY <2>2, <2>4, <3>4 DEF GivenBack, RefCounts
          <5>2. Delete[Parent[y]][left][r] <= left[r] /\ left[r] <= rec[r]
            BY <2>4, <3>4 DEF GivenBack
          <5>3. QED
            BY <5>1, <5>2
        <4>2. QED
          BY <4>1
      <3>6. QED
        BY <2>2, <3>1, <3>4, <3>5 DEF GivenBack
    <2>12. QED
      BY <2>10, <2>11
  <1>2. QED
    BY <1>1

LEMMA LetGo ==
    ASSUME NEW records, NEW app, NEW frame, NEW x \in Resources,
           Counted(records, app, frame)
    PROVE  /\ x \in app   => CountedButFor(x, records, app \ {x}, frame)
           /\ x \in frame => CountedButFor(x, records, app, frame \ {x})
  <1>1. ASSUME NEW r \in Resources
        PROVE  /\ x \in app   => One(r \in app) = One(r \in app \ {x}) + One(r = x)
               /\ x \in frame => One(r \in frame) = One(r \in frame \ {x}) + One(r = x)
    BY DEF One
  <1>2. ASSUME NEW r \in Resources
        PROVE  /\ records[r] = One(r \in app) + One(r \in frame) + Cardinality(Bound(r, records))
               /\ Cardinality(Bound(r, records)) \in Nat
               /\ One(r \in app) \in Nat /\ One(r \in frame) \in Nat /\ One(r = x) \in Nat
               /\ One(r \in app \ {x}) \in Nat /\ One(r \in frame \ {x}) \in Nat
    <2>1. records[r] = One(r \in app) + One(r \in frame) + Cardinality(Bound(r, records))
      BY DEF Counted, Users
    <2>2. Cardinality(Bound(r, records)) \in Nat
      BY UsersCount
    <2>3. QED
      BY <2>1, <2>2 DEF One
  <1>3. ASSUME x \in app, NEW r \in Resources
        PROVE  records[r] = Users(r, records, app \ {x}, frame) + One(r = x)
    <2>1. One(r \in app) = One(r \in app \ {x}) + One(r = x)
      BY <1>1, <1>3
    <2>2. Users(r, records, app \ {x}, frame) =
            One(r \in app \ {x}) + One(r \in frame) + Cardinality(Bound(r, records))
      BY DEF Users
    <2>3. QED
      BY <1>2, <2>1, <2>2
  <1>4. ASSUME x \in frame, NEW r \in Resources
        PROVE  records[r] = Users(r, records, app, frame \ {x}) + One(r = x)
    <2>1. One(r \in frame) = One(r \in frame \ {x}) + One(r = x)
      BY <1>1, <1>4
    <2>2. Users(r, records, app, frame \ {x}) =
            One(r \in app) + One(r \in frame \ {x}) + Cardinality(Bound(r, records))
      BY DEF Users
    <2>3. QED
      BY <1>2, <2>1, <2>2
  <1>5. QED
    BY <1>3, <1>4 DEF CountedButFor

LEMMA DeleteAllGivesBack ==
    ASSUME NEW app, NEW frame, NEW S, S \subseteq Resources, S \subseteq frame,
           NEW records \in RefCounts, Counted(records, app, frame)
    PROVE  GivenBack(DeleteAll(records, S), records, app, frame \ S)
  <1>1. IsFiniteSet(S) /\ Cardinality(S) \in Nat
    BY ResourcesAreBounded, FS_Subset, FS_CardinalityType
  <1>2. PICK f : /\ DeleteAll(records, S) = f[S]
                 /\ \A s \in SUBSET S : f[s] = DeleteAllBody(f, s, records)
    BY <1>1, DeleteAllIs
  <1> DEFINE T == {n \in Nat : \A s \in SUBSET S :
                      Cardinality(s) = n => GivenBack(f[s], records, app, frame \ s)}
  <1>3. \A s \in SUBSET S : IsFiniteSet(s) /\ Cardinality(s) \in Nat
    BY <1>1, FS_Subset, FS_CardinalityType
  <1>4. 0 \in T
    <2>1. \A s \in SUBSET S : Cardinality(s) = 0 => s = {}
      BY <1>3, FS_EmptySet
    <2>2. f[{}] = records
      BY <1>2 DEF DeleteAllBody
    <2>3. frame \ {} = frame
      OBVIOUS
    <2>4. \A r \in Resources : records[r] <= records[r]
      BY DEF RefCounts
    <2>5. GivenBack(f[{}], records, app, frame \ {})
      BY <2>2, <2>3, <2>4 DEF GivenBack
    <2>6. QED
      BY <2>1, <2>5
  <1>5. ASSUME NEW n \in Nat, n \in T
        PROVE  n + 1 \in T
    <2>1. ASSUME NEW s \in SUBSET S, Cardinality(s) = n + 1
          PROVE  GivenBack(f[s], records, app, frame \ s)
      <3> DEFINE r == CHOOSE q \in s : TRUE
                 rest == s \ {r}
                 before == f[rest]
      <3>1. s # {}
        BY <2>1, FS_EmptySet
      <3>2. r \in s
        BY <3>1
      <3>3. f[s] = Delete[r][before]
        BY <1>2, <3>1 DEF DeleteAllBody
      <3> HIDE DEF r
      <3>4. Cardinality(rest) = n /\ rest \in SUBSET S
        <4>1. Cardinality(s \ {r}) = Cardinality(s) - 1
          BY <1>3, <3>2, FS_RemoveElement
        <4>2. QED
          BY <2>1, <4>1
      <3>5. GivenBack(before, records, app, frame \ rest)
        BY <1>5, <3>4
      <3>6. r \in Resources /\ r \in frame \ rest /\ (frame \ rest) \ {r} = frame \ s
        BY <3>2
      <3> HIDE DEF before, rest, T
      <3>7. CountedButFor(r, before, app, frame \ s)
        BY <3>5, <3>6, LetGo DEF GivenBack
      <3>8. before \in RefCounts
        BY <3>5 DEF GivenBack
      <3>9. GivenBack(f[s], before, app, frame \ s)
        BY <3>3, <3>6, <3>7, <3>8, DeleteGivesBack
      <3>10. \A q \in Resources : f[s][q] <= records[q]
        <4>1. ASSUME NEW q \in Resources
              PROVE  f[s][q] <= records[q]
          <5>1. f[s][q] \in Int /\ before[q] \in Int /\ records[q] \in Int
            BY <3>8, <3>9 DEF GivenBack, RefCounts
          <5>2. f[s][q] <= before[q] /\ before[q] <= records[q]
            BY <3>5, <3>9 DEF GivenBack
          <5>3. QED
            BY <5>1, <5>2
        <4>2. QED
          BY <4>1
      <3>11. QED
        BY <3>9, <3>10 DEF GivenBack
    <2>2. \A s \in SUBSET S : Cardinality(s) = n + 1 => GivenBack(f[s], records, app, frame \ s)
      BY <2>1
    <2>3. n + 1 \in Nat
      OBVIOUS
    <2>4. QED
      BY <2>2, <2>3
  <1>6. Cardinality(S) \in T
    <2> HIDE DEF T
    <2>1. QED
      BY <1>1, <1>4, <1>5, CountingUp
  <1>7. QED
    BY <1>2, <1>6

\* A resource that has a user is given one more.
LEMMA AddRefCounts ==
    ASSUME NEW app, NEW frame, NEW x \in Resources, NEW records \in RefCounts,
           Counted(records, app, frame), records[x] > 0, x \notin frame
    PROVE  /\ AddRef(records, x) \in RefCounts
           /\ Counted(AddRef(records, x), app, frame \cup {x})
  <1> DEFINE more == AddRef(records, x)
  <1>1. /\ more \in RefCounts /\ more[x] = records[x] + 1
        /\ \A r \in Resources : r # x => more[r] = records[r]
    BY ResourcesAreBounded DEF AddRef, RefCounts, NoParent
  <1> HIDE DEF more
  <1>2. \A r \in Resources : more[r] > 0 <=> records[r] > 0
    <2>1. more[x] > 0
      BY <1>1 DEF RefCounts
    <2>2. QED
      BY <1>1, <2>1
  <1>3. \A r \in Resources : Bound(r, more) = Bound(r, records)
    BY <1>2 DEF Bound
  <1>4. ASSUME NEW r \in Resources
        PROVE  more[r] = Users(r, more, app, frame \cup {x})
    <2>1. /\ records[r] = One(r \in app) + One(r \in frame) + Cardinality(Bound(r, records))
          /\ Users(r, more, app, frame \cup {x}) =
               One(r \in app) + One(r \in frame \cup {x}) + Cardinality(Bound(r, records))
      BY <1>3 DEF Counted, Users
    <2>2. /\ Cardinality(Bound(r, records)) \in Nat /\ One(r \in app) \in Nat
          /\ One(r \in frame) \in Nat
      BY UsersCount DEF One
    <2>3. One(r \in frame \cup {x}) = One(r \in frame) + One(r = x)
      BY DEF One
    <2>4. more[r] = records[r] + One(r = x) /\ One(r = x) \in Nat
      <3>1. CASE r = x
        BY <1>1, <3>1 DEF One
      <3>2. CASE r # x
        BY <1>1, <3>2 DEF One, RefCounts
      <3>3. QED
        BY <3>1, <3>2
    <2>5. QED
      BY <2>1, <2>2, <2>3, <2>4
  <1>5. QED
    BY <1>1, <1>4 DEF more, Counted

\* A new resource has the application's reference, and one on its memory.
Created(records, x) == AddRef([records EXCEPT ![x] = 1], Parent[x])

LEMMA CreateCounts ==
    ASSUME NEW app, app \subseteq Resources, NEW frame, NEW x \in Resources,
           NEW records \in RefCounts, Counted(records, app, frame),
           x \notin app, records[x] = 0, Parent[x] \in app \cup {NoParent}
    PROVE  /\ Created(records, x) \in RefCounts
           /\ Counted(Created(records, x), app \cup {x}, frame) /\ Created(records, x)[x] = 1
           /\ \A q \in Resources \ (app \cup {x}) : Created(records, x)[q] = records[q]
  <1> DEFINE parent == Parent[x]
             more   == Created(records, x)
  <1>1. x \in Nat /\ parent # x /\ 0 \notin Resources
    BY ResourcesAssumption, ResourcesAreBounded
  <1>2. /\ more \in RefCounts /\ more[x] = 1
        /\ parent \in Resources => more[parent] = records[parent] + 1
        /\ \A q \in Resources \ {x, parent} : more[q] = records[q]
    <2> DEFINE given == [records EXCEPT ![x] = 1]
    <2>1. /\ given \in RefCounts /\ given[x] = 1 /\ \A q \in Resources \ {x} : given[q] = records[q]
          /\ more = AddRef(given, parent)
      BY DEF RefCounts, Created
    <2> HIDE DEF more
    <2> HIDE DEF given, parent
    <2>2. CASE parent = NoParent
      <3>1. more = given
        BY <2>1, <2>2 DEF AddRef
      <3>2. parent \notin Resources
        BY <1>1, <2>2 DEF NoParent
      <3>3. QED
        BY <2>1, <3>1, <3>2
    <2>3. CASE parent # NoParent
      <3>1. more = [given EXCEPT ![parent] = @ + 1] /\ parent \in Resources
        <4>1. parent \in Resources
          BY <2>3 DEF parent
        <4>2. QED
          BY <2>1, <2>3, <4>1 DEF AddRef
      <3>2. more \in RefCounts /\ more[parent] = given[parent] + 1
        <4>1. given \in [Resources -> Int] /\ given[parent] + 1 \in Int
          BY <2>1, <3>1 DEF RefCounts
        <4>2. more = [given EXCEPT ![parent] = given[parent] + 1]
          BY <3>1
        <4>3. more \in [Resources -> Int]
          BY <4>1, <4>2
        <4>4. QED
          BY <3>1, <4>1, <4>2, <4>3 DEF RefCounts
      <3>3. \A q \in Resources \ {parent} : more[q] = given[q]
        BY <2>1, <3>1 DEF RefCounts
      <3>4. QED
        BY <1>1, <2>1, <3>1, <3>2, <3>3
    <2>4. QED
      BY <2>2, <2>3
  <1> HIDE DEF parent, more
  <1>3. \A r \in Resources :
          /\ records[r] = One(r \in app) + One(r \in frame) + Cardinality(Bound(r, records))
          /\ Cardinality(Bound(r, records)) \in Nat /\ IsFiniteSet(Bound(r, records))
          /\ One(r \in app) \in Nat /\ One(r \in frame) \in Nat
          /\ One(r \in app \cup {x}) \in Nat
    <2>1. \A r \in Resources :
            records[r] = One(r \in app) + One(r \in frame) + Cardinality(Bound(r, records))
      BY DEF Counted, Users
    <2>2. \A r \in Resources :
            Cardinality(Bound(r, records)) \in Nat /\ IsFiniteSet(Bound(r, records))
      BY UsersCount
    <2>3. \A r \in Resources : /\ One(r \in app) \in Nat /\ One(r \in frame) \in Nat
                               /\ One(r \in app \cup {x}) \in Nat
      BY DEF One
    <2>4. QED
      BY <2>1, <2>2, <2>3
  <1>4. parent \in Resources => records[parent] > 0
    <2>1. parent \in Resources => parent \in app
      BY <1>1 DEF parent, NoParent
    <2>2. parent \in app => One(parent \in app) = 1
      BY DEF One
    <2>3. QED
      BY <1>3, <2>1, <2>2
  <1>5. \A q \in Resources \ {x} : more[q] > 0 <=> records[q] > 0
    <2>1. ASSUME NEW q \in Resources \ {x}
          PROVE  more[q] > 0 <=> records[q] > 0
      <3>1. CASE q = parent
        <4>1. records[q] > 0 /\ more[q] = records[q] + 1 /\ records[q] \in Int
          BY <1>2, <1>4, <2>1, <3>1 DEF RefCounts
        <4>2. QED
          BY <4>1
      <3>2. CASE q # parent
        <4>1. more[q] = records[q]
          BY <1>2, <2>1, <3>2
        <4>2. QED
          BY <4>1
      <3>3. QED
        BY <3>1, <3>2
    <2>2. QED
      BY <2>1
  <1>6. more[x] > 0 /\ ~(records[x] > 0)
    BY <1>2
  <1>7. \A r \in Resources : r # parent => Bound(r, more) = Bound(r, records)
    BY <1>5, <1>6 DEF Bound, parent
  <1>8. parent \in Resources =>
          Cardinality(Bound(parent, more)) = Cardinality(Bound(parent, records)) + 1
    <2>1. ASSUME parent \in Resources
          PROVE  Bound(parent, more) = Bound(parent, records) \cup {x} /\ x \notin Bound(parent, records)
      <3>1. Parent[x] = parent
        BY DEF parent
      <3>2. x \in Bound(parent, more) /\ x \notin Bound(parent, records)
        BY <1>6, <3>1 DEF Bound
      <3>3. \A q \in Resources \ {x} : q \in Bound(parent, more) <=> q \in Bound(parent, records)
        BY <1>5 DEF Bound
      <3>4. Bound(parent, more) \subseteq Resources /\ Bound(parent, records) \subseteq Resources
        BY DEF Bound
      <3>5. QED
        BY <3>2, <3>3, <3>4
    <2>2. parent \in Resources => IsFiniteSet(Bound(parent, records))
      BY <1>3
    <2>3. QED
      BY <2>1, <2>2, FS_AddElement
  <1>9. ASSUME NEW r \in Resources
        PROVE  more[r] = Users(r, more, app \cup {x}, frame)
    <2>1. Users(r, more, app \cup {x}, frame) =
            One(r \in app \cup {x}) + One(r \in frame) + Cardinality(Bound(r, more))
      BY DEF Users
    <2>2. CASE r = x
      <3>1. /\ One(r \in app \cup {x}) = 1 /\ more[r] = 1 /\ records[r] = 0
            /\ Cardinality(Bound(r, more)) = Cardinality(Bound(r, records))
        BY <1>1, <1>2, <1>7, <2>2 DEF One
      <3>2. One(r \in frame) + Cardinality(Bound(r, records)) = 0
        BY <1>3, <3>1
      <3>3. QED
        BY <1>3, <2>1, <3>1, <3>2
    <2>3. CASE r = parent
      <3>1. /\ One(r \in app \cup {x}) = One(r \in app) /\ more[r] = records[r] + 1
            /\ Cardinality(Bound(r, more)) = Cardinality(Bound(r, records)) + 1
        BY <1>1, <1>2, <1>8, <2>3 DEF One
      <3>2. QED
        BY <1>3, <2>1, <3>1
    <2>4. CASE r # x /\ r # parent
      <3>1. /\ One(r \in app \cup {x}) = One(r \in app) /\ more[r] = records[r]
            /\ Cardinality(Bound(r, more)) = Cardinality(Bound(r, records))
        BY <1>2, <1>7, <2>4 DEF One
      <3>2. QED
        BY <1>3, <2>1, <3>1
    <2>5. QED
      BY <2>2, <2>3, <2>4
  <1>10. \A q \in Resources \ (app \cup {x}) : more[q] = records[q]
    BY <1>1, <1>2 DEF parent, NoParent
  <1>11. QED
    BY <1>2, <1>9, <1>10 DEF Counted, more

-----------------------------------------------------------------------------
(* Records: every step.                                                    *)

MarkedRefs == SubmittedRefs \cup {eFrameRef_ReadBeforeWrite}

\* What a resource has been used for does not become none.
LEMMA ComposeMarks ==
    ASSUME NEW refType \in FrameRefType, NEW marked \in MarkedRefs
    PROVE  ComposeFrameRefs(refType, marked) \in FrameRefType \ {eFrameRef_None}
  BY DEF MarkedRefs, SubmittedRefs, FrameRefType, ComposeFrameRefs, IncludesWrite,
         eFrameRef_None, eFrameRef_PartialWrite, eFrameRef_CompleteWrite, eFrameRef_Read,
         eFrameRef_ReadBeforeWrite, eFrameRef_WriteBeforeRead, eFrameRef_CompleteWriteAndDiscard

LEMMA PrepareTypes ==
    ASSUME ManagerTypes, NEW x \in Resources, PrepareNow(x) \/ NothingToPrepare
    PROVE  m_InitialContents' \in [Resources -> Contents] /\ m_PostponedResourceIDs' \subseteq Resources
  <1>1. Prepare_InitialState(x) \in Contents
    BY DEF Prepare_InitialState, Contents
  <1>2. QED
    BY <1>1 DEF ManagerTypes, PrepareNow, NothingToPrepare

LEMMA MarkRecords ==
    ASSUME ManagerTypes, NEW x \in Resources, NEW refType \in MarkedRefs,
           NEW records \in RefCounts, NEW app, Counted(records, app, Referenced), records[x] > 0,
           MarkResourceFrameReferenced(x, refType, records)
    PROVE  /\ m_ResourceRecords' \in RefCounts /\ Counted(m_ResourceRecords', app, Referenced')
           /\ m_FrameReferencedResources' \in [Resources -> FrameRefType]
           /\ m_InitialContents' \in [Resources -> Contents]
           /\ m_PostponedResourceIDs' \subseteq Resources /\ m_SkippedResourceIDs' \subseteq Resources
           /\ ~IsActiveCapturing => UNCHANGED <<frameVars, Referenced>>
           /\ IsActiveCapturing => Referenced' = Referenced \cup {x}
           /\ \A q \in Resources \ {x} : m_ResourceRecords'[q] = records[q]
  <1>1. CASE ~IsActiveCapturing
    BY <1>1 DEF MarkResourceFrameReferenced, ManagerTypes, frameVars, Referenced
  <1>2. CASE IsActiveCapturing
    <2>1. /\ SkipOrPostponeOrPrepare(x, refType)
          /\ m_FrameReferencedResources' =
                [m_FrameReferencedResources EXCEPT ![x] = ComposeFrameRefs(@, refType)]
          /\ m_ResourceRecords' = IF x \in Referenced THEN records ELSE AddRef(records, x)
      BY <1>2 DEF MarkResourceFrameReferenced
    <2>2. /\ m_InitialContents' \in [Resources -> Contents]
          /\ m_PostponedResourceIDs' \subseteq Resources /\ m_SkippedResourceIDs' \subseteq Resources
      <3>1. m_SkippedResourceIDs' = m_SkippedResourceIDs \ {x}
        BY <2>1 DEF SkipOrPostponeOrPrepare
      <3>2. \/ PrepareNow(x) \/ NothingToPrepare
            \/ /\ m_PostponedResourceIDs' = m_PostponedResourceIDs \cup {x}
               /\ m_InitialContents' = [m_InitialContents EXCEPT ![x] = "empty"]
        BY <2>1 DEF SkipOrPostponeOrPrepare
      <3>3. QED
        BY <3>1, <3>2, PrepareTypes DEF ManagerTypes, Contents
    <2>3. /\ m_FrameReferencedResources' \in [Resources -> FrameRefType]
          /\ m_FrameReferencedResources'[x] # eFrameRef_None
          /\ \A q \in Resources \ {x} :
                m_FrameReferencedResources'[q] = m_FrameReferencedResources[q]
      <3>1. /\ m_FrameReferencedResources \in [Resources -> FrameRefType]
            /\ ComposeFrameRefs(m_FrameReferencedResources[x], refType) \in FrameRefType \ {eFrameRef_None}
        BY ComposeMarks DEF ManagerTypes
      <3>2. QED
        BY <2>1, <3>1
    <2>4. Referenced' = Referenced \cup {x}
      BY <2>3 DEF Referenced
    <2>5. CASE x \in Referenced
      <3>1. m_ResourceRecords' = records /\ Referenced' = Referenced
        BY <2>1, <2>4, <2>5
      <3>2. QED
        BY <1>2, <2>2, <2>3, <2>4, <3>1
    <2>6. CASE x \notin Referenced
      <3>1. m_ResourceRecords' = AddRef(records, x)
        BY <2>1, <2>6
      <3>2. \A q \in Resources \ {x} : m_ResourceRecords'[q] = records[q]
        BY <3>1 DEF AddRef, RefCounts
      <3>3. m_ResourceRecords' \in RefCounts /\ Counted(m_ResourceRecords', app, Referenced \cup {x})
        BY <2>6, <3>1, AddRefCounts
      <3>4. QED
        BY <1>2, <2>2, <2>3, <2>4, <3>2, <3>3
    <2>7. QED
      BY <2>5, <2>6
  <1>3. QED
    BY <1>1, <1>2

LEMMA FrameStays ==
    ASSUME StagesFollow, RecordsInFile, UNCHANGED <<m_State, stage, DataWritten, file>>,
           ~IsActiveCapturing => UNCHANGED <<frameVars, Referenced>>
    PROVE  StagesFollow' /\ RecordsInFile'
  <1>1. CASE IsActiveCapturing
    <2>1. stage = "capturing" /\ m_State = "ActiveCapturing" /\ DataWritten = {}
      BY <1>1 DEF StagesFollow, IsActiveCapturing
    <2>2. QED
      BY <2>1 DEF StagesFollow, RecordsInFile
  <1>2. CASE ~IsActiveCapturing
    <2>1. /\ Referenced' = Referenced /\ m_PostponedResourceIDs' = m_PostponedResourceIDs
          /\ m_SkippedResourceIDs' = m_SkippedResourceIDs /\ m_InitialContents' = m_InitialContents
      BY <1>2 DEF frameVars
    <2>2. StagesFollow'
      BY <2>1 DEF StagesFollow
    <2>3. RecordsInFile'
      BY <2>1 DEF RecordsInFile
    <2>4. QED
      BY <2>2, <2>3
  <1>3. QED
    BY <1>1, <1>2

LEMMA CreateRecords ==
    ASSUME RecordsInv, NEW x \in Resources, Create(x)
    PROVE  RecordsInv'
  <1> DEFINE more == Created(m_ResourceRecords, x)
             app == m_CurrentResourceMap \cup {x}
  <1>1. /\ ManagerTypes /\ StagesFollow /\ FreshIsNew /\ RecordsInFile
        /\ Counted(m_ResourceRecords, m_CurrentResourceMap, Referenced)
    BY DEF RecordsInv
  <1>2. /\ m_CurrentResourceMap \subseteq Resources /\ m_ResourceRecords \in RefCounts
        /\ x \notin m_CurrentResourceMap \cup Referenced \cup atStart /\ m_ResourceRecords[x] = 0
        /\ Parent[x] \in m_CurrentResourceMap \cup {NoParent}
    BY <1>1 DEF ManagerTypes, FreshIsNew, Create
  <1>3. /\ more \in RefCounts /\ Counted(more, app, Referenced)
        /\ more[x] = 1 /\ \A q \in Resources \ app : more[q] = m_ResourceRecords[q]
    BY <1>1, <1>2, CreateCounts
  <1>4. /\ m_CurrentResourceMap' = app /\ fresh' = fresh \ {x}
        /\ m_DirtyResources' = m_DirtyResources \cup {x}
        /\ UNCHANGED <<m_State, stage, DataWritten, file, atStart, refAllResources, changed>>
    BY DEF Create, captureVars
  <1>5. \/ m_ResourceRecords' = more /\ UNCHANGED frameVars
        \/ MarkResourceFrameReferenced(x, eFrameRef_ReadBeforeWrite, more)
    BY DEF Create, Created
  <1> HIDE DEF more
  <1>6. /\ m_ResourceRecords' \in RefCounts /\ Counted(m_ResourceRecords', app, Referenced')
        /\ m_FrameReferencedResources' \in [Resources -> FrameRefType]
        /\ m_InitialContents' \in [Resources -> Contents]
        /\ m_PostponedResourceIDs' \subseteq Resources /\ m_SkippedResourceIDs' \subseteq Resources
        /\ ~IsActiveCapturing => UNCHANGED <<frameVars, Referenced>>
        /\ Referenced' \subseteq Referenced \cup {x}
        /\ \A q \in Resources \ {x} : m_ResourceRecords'[q] = more[q]
    <2>1. CASE m_ResourceRecords' = more /\ UNCHANGED frameVars
      <3>1. Referenced' = Referenced
        BY <2>1 DEF frameVars, Referenced
      <3>2. QED
        BY <1>1, <1>3, <2>1, <3>1 DEF frameVars, ManagerTypes
    <2>2. CASE MarkResourceFrameReferenced(x, eFrameRef_ReadBeforeWrite, more)
      <3>1. eFrameRef_ReadBeforeWrite \in MarkedRefs /\ more[x] > 0
        BY <1>3 DEF MarkedRefs
      <3> HIDE DEF app
      <3>2. QED
        BY <1>1, <1>3, <2>2, <3>1, MarkRecords DEF frameVars
    <2>3. QED
      BY <1>5, <2>1, <2>2
  <1>7. ManagerTypes'
    BY <1>1, <1>4, <1>6 DEF ManagerTypes
  <1>8. StagesFollow' /\ RecordsInFile'
    BY <1>1, <1>4, <1>6, FrameStays
  <1>9. FreshIsNew'
    <2>1. \A q \in fresh' : m_ResourceRecords'[q] = 0
      <3>1. \A q \in fresh' : q \in Resources \ app /\ q \in fresh /\ q # x
        BY <1>1, <1>4 DEF FreshIsNew, ManagerTypes
      <3>2. \A q \in fresh : m_ResourceRecords[q] = 0
        BY <1>1 DEF FreshIsNew
      <3>3. QED
        BY <1>3, <1>6, <3>1, <3>2
    <2>2. fresh' \cap (m_CurrentResourceMap' \cup Referenced' \cup atStart') = {}
      BY <1>1, <1>4, <1>6 DEF FreshIsNew
    <2>3. QED
      BY <2>1, <2>2 DEF FreshIsNew
  <1>10. QED
    BY <1>4, <1>6, <1>7, <1>8, <1>9 DEF RecordsInv

LEMMA SubmitRecords ==
    ASSUME RecordsInv, NEW x \in Resources, NEW refType \in SubmittedRefs, QueueSubmit(x, refType)
    PROVE  RecordsInv'
  <1>1. /\ ManagerTypes /\ StagesFollow /\ FreshIsNew /\ RecordsInFile
        /\ Counted(m_ResourceRecords, m_CurrentResourceMap, Referenced)
    BY DEF RecordsInv
  <1>2. /\ UNCHANGED <<m_CurrentResourceMap, m_DirtyResources, m_State, stage, DataWritten, file,
                       atStart, refAllResources, fresh>>
        /\ changed' \in {changed, changed \cup {x}}
        /\ MarkResourceFrameReferenced(x, refType, m_ResourceRecords)
    BY DEF QueueSubmit
  <1>3. x \in m_CurrentResourceMap
    BY ResourcesAreBounded DEF QueueSubmit, NoParent
  <1>4. m_ResourceRecords[x] > 0 /\ m_ResourceRecords \in RefCounts
    <2>1. m_ResourceRecords[x] =
            One(x \in m_CurrentResourceMap) + One(x \in Referenced) + Cardinality(Bound(x, m_ResourceRecords))
      BY <1>1 DEF Counted, Users
    <2>2. Cardinality(Bound(x, m_ResourceRecords)) \in Nat
      BY UsersCount
    <2>3. One(x \in m_CurrentResourceMap) = 1 /\ One(x \in Referenced) \in Nat
      BY <1>3 DEF One
    <2>4. m_ResourceRecords \in RefCounts
      BY <1>1 DEF ManagerTypes
    <2>5. QED
      BY <2>1, <2>2, <2>3, <2>4
  <1>5. /\ m_ResourceRecords' \in RefCounts
        /\ Counted(m_ResourceRecords', m_CurrentResourceMap, Referenced')
        /\ m_FrameReferencedResources' \in [Resources -> FrameRefType]
        /\ m_InitialContents' \in [Resources -> Contents]
        /\ m_PostponedResourceIDs' \subseteq Resources /\ m_SkippedResourceIDs' \subseteq Resources
        /\ ~IsActiveCapturing => UNCHANGED <<frameVars, Referenced>>
        /\ IsActiveCapturing => Referenced' = Referenced \cup {x}
        /\ \A q \in Resources \ {x} : m_ResourceRecords'[q] = m_ResourceRecords[q]
    <2>1. refType \in MarkedRefs
      BY DEF MarkedRefs
    <2>2. QED
      BY <1>1, <1>2, <1>4, <2>1, MarkRecords
  <1>6. ManagerTypes'
    BY <1>1, <1>2, <1>5 DEF ManagerTypes
  <1>7. StagesFollow' /\ RecordsInFile'
    BY <1>1, <1>2, <1>5, FrameStays
  <1>8. FreshIsNew'
    <2>1. x \notin fresh /\ Referenced' \subseteq Referenced \cup {x}
      BY <1>1, <1>3, <1>5 DEF FreshIsNew
    <2>2. \A q \in fresh' : m_ResourceRecords'[q] = 0
      BY <1>1, <1>2, <1>5, <2>1 DEF FreshIsNew, ManagerTypes
    <2>3. QED
      BY <1>1, <1>2, <2>1, <2>2 DEF FreshIsNew
  <1>9. QED
    BY <1>2, <1>5, <1>6, <1>7, <1>8 DEF RecordsInv

\* A record without references keeps none when others give theirs back.
LEMMA NoneLeft ==
    ASSUME NEW left, NEW records \in RefCounts, NEW app, NEW frame, GivenBack(left, records, app, frame),
           NEW r \in Resources, records[r] = 0
    PROVE  left[r] = 0
  <1>1. left[r] = Users(r, left, app, frame) /\ left[r] <= 0
    BY DEF GivenBack, Counted
  <1>2. Users(r, left, app, frame) \in Nat
    BY UsersCount
  <1>3. QED
    BY <1>1, <1>2

LEMMA DestroyRecords ==
    ASSUME RecordsInv, NEW x \in Resources, Destroy(x)
    PROVE  RecordsInv'
  <1>1. /\ ManagerTypes /\ StagesFollow /\ FreshIsNew /\ RecordsInFile
        /\ Counted(m_ResourceRecords, m_CurrentResourceMap, Referenced)
        /\ m_ResourceRecords \in RefCounts
    BY DEF RecordsInv, ManagerTypes
  <1>2. /\ m_CurrentResourceMap' = m_CurrentResourceMap \ {x} /\ x \in m_CurrentResourceMap
        /\ m_DirtyResources' = m_DirtyResources \ {x}
        /\ m_ResourceRecords' = Delete[x][m_ResourceRecords]
        /\ UNCHANGED <<m_State, stage, DataWritten, file, atStart, refAllResources, fresh, changed,
                       m_FrameReferencedResources, m_SkippedResourceIDs>>
        /\ PrepareNow(x) \/ NothingToPrepare
        /\ ~IsActiveCapturing => NothingToPrepare
    BY DEF Destroy, ReleaseCurrentResource, captureVars, worldVars
  <1>3. Referenced' = Referenced
    BY <1>2 DEF Referenced
  <1>4. GivenBack(m_ResourceRecords', m_ResourceRecords, m_CurrentResourceMap', Referenced')
    <2>1. CountedButFor(x, m_ResourceRecords, m_CurrentResourceMap \ {x}, Referenced)
      BY <1>1, <1>2, LetGo
    <2>2. QED
      BY <1>1, <1>2, <1>3, <2>1, DeleteGivesBack
  <1>5. ManagerTypes'
    <2>1. m_InitialContents' \in [Resources -> Contents] /\ m_PostponedResourceIDs' \subseteq Resources
      BY <1>1, <1>2, PrepareTypes
    <2>2. m_ResourceRecords' \in RefCounts
      BY <1>4 DEF GivenBack
    <2>3. QED
      BY <1>1, <1>2, <2>1, <2>2 DEF ManagerTypes
  <1>6. StagesFollow' /\ RecordsInFile'
    <2>1. ~IsActiveCapturing => UNCHANGED <<frameVars, Referenced>>
      BY <1>2, <1>3 DEF frameVars, NothingToPrepare
    <2>2. QED
      BY <1>1, <1>2, <2>1, FrameStays
  <1>7. FreshIsNew'
    <2>1. \A q \in fresh : m_ResourceRecords[q] = 0 /\ q \in Resources
      BY <1>1 DEF FreshIsNew, ManagerTypes
    <2>2. \A q \in fresh : m_ResourceRecords'[q] = 0
      BY <1>1, <1>4, <2>1, NoneLeft
    <2>3. QED
      BY <1>1, <1>2, <1>3, <2>2 DEF FreshIsNew
  <1>8. QED
    BY <1>4, <1>5, <1>6, <1>7 DEF RecordsInv, GivenBack

\* What a frame referred to is let go of, once.
LEMMA ClearGivesBack ==
    ASSUME ManagerTypes, FreshIsNew, Counted(m_ResourceRecords, m_CurrentResourceMap, Referenced),
           ClearReferencedResources
    PROVE  /\ m_ResourceRecords' \in RefCounts
           /\ Counted(m_ResourceRecords', m_CurrentResourceMap, {}) /\ Referenced' = {}
           /\ m_FrameReferencedResources' \in [Resources -> FrameRefType]
           /\ m_DirtyResources' = m_DirtyResources \cup
                 {r \in Referenced : IncludesWrite(m_FrameReferencedResources[r])}
           /\ m_DirtyResources' \subseteq Resources
           /\ \A r \in fresh : m_ResourceRecords'[r] = 0
  <1>1. m_ResourceRecords' = DeleteAll(m_ResourceRecords, Referenced)
    BY Zenon DEF ClearReferencedResources, DeleteAll
  <1>2. Referenced \subseteq Resources /\ m_ResourceRecords \in RefCounts
    BY DEF Referenced, ManagerTypes
  <1>3. GivenBack(m_ResourceRecords', m_ResourceRecords, m_CurrentResourceMap, Referenced \ Referenced)
    BY <1>1, <1>2, DeleteAllGivesBack
  <1>4. GivenBack(m_ResourceRecords', m_ResourceRecords, m_CurrentResourceMap, {})
    <2>1. Referenced \ Referenced = {}
      OBVIOUS
    <2>2. QED
      BY <1>3, <2>1
  <1>5. \A r \in fresh : m_ResourceRecords'[r] = 0
    <2>1. \A r \in fresh : m_ResourceRecords[r] = 0 /\ r \in Resources
      BY DEF FreshIsNew, ManagerTypes
    <2>2. QED
      BY <1>2, <1>4, <2>1, NoneLeft
  <1>6. /\ m_FrameReferencedResources' = [r \in Resources |-> eFrameRef_None]
        /\ m_DirtyResources' = m_DirtyResources \cup
              {r \in Referenced : IncludesWrite(m_FrameReferencedResources[r])}
    BY DEF ClearReferencedResources
  <1>7. Referenced' = {} /\ m_FrameReferencedResources' \in [Resources -> FrameRefType]
    BY <1>6 DEF Referenced, FrameRefType, eFrameRef_None
  <1>8. m_DirtyResources' \subseteq Resources
    BY <1>2, <1>6 DEF ManagerTypes
  <1>9. QED
    BY <1>4, <1>5, <1>6, <1>7, <1>8 DEF GivenBack

LEMMA StartRecords == ASSUME RecordsInv, StartFrameCapture PROVE RecordsInv'
  <1>1. /\ ManagerTypes /\ StagesFollow /\ FreshIsNew
        /\ Counted(m_ResourceRecords, m_CurrentResourceMap, Referenced)
    BY DEF RecordsInv
  <1>2. /\ stage = "idle" /\ stage' = "starting" /\ ClearReferencedResources
        /\ UNCHANGED <<m_CurrentResourceMap, m_InitialContents, m_PostponedResourceIDs,
                       m_SkippedResourceIDs, m_State, DataWritten, file, atStart,
                       refAllResources, fresh, changed>>
    BY DEF StartFrameCapture, worldVars
  <1>3. /\ m_ResourceRecords' \in RefCounts
        /\ Counted(m_ResourceRecords', m_CurrentResourceMap, {}) /\ Referenced' = {}
        /\ m_FrameReferencedResources' \in [Resources -> FrameRefType]
        /\ m_DirtyResources' \subseteq Resources
        /\ \A r \in fresh : m_ResourceRecords'[r] = 0
    BY <1>1, <1>2, ClearGivesBack
  <1>4. ManagerTypes'
    BY <1>1, <1>2, <1>3 DEF ManagerTypes, Stages
  <1>5. StagesFollow'
    BY <1>1, <1>2, <1>3 DEF StagesFollow
  <1>6. FreshIsNew'
    BY <1>1, <1>2, <1>3 DEF FreshIsNew
  <1>7. RecordsInFile'
    BY <1>2 DEF RecordsInFile
  <1>8. QED
    BY <1>2, <1>3, <1>4, <1>5, <1>6, <1>7 DEF RecordsInv

LEMMA LeaveRecords ==
    ASSUME RecordsInv, FinishFrameCapture \/ DiscardFrameCapture
    PROVE  RecordsInv'
  <1>1. /\ ManagerTypes /\ StagesFollow /\ FreshIsNew
        /\ Counted(m_ResourceRecords, m_CurrentResourceMap, Referenced)
    BY DEF RecordsInv
  <1>2. /\ stage' = "idle" /\ ClearReferencedResources /\ FreeInitialContents /\ DataWritten' = {}
        /\ UNCHANGED <<m_CurrentResourceMap, file, atStart, refAllResources, fresh, changed>>
    BY DEF FinishFrameCapture, DiscardFrameCapture, worldVars
  <1>3. m_State' # "ActiveCapturing"
    BY <1>1 DEF FinishFrameCapture, DiscardFrameCapture, StagesFollow
  <1>4. /\ m_ResourceRecords' \in RefCounts
        /\ Counted(m_ResourceRecords', m_CurrentResourceMap, {}) /\ Referenced' = {}
        /\ m_FrameReferencedResources' \in [Resources -> FrameRefType]
        /\ m_DirtyResources' \subseteq Resources
        /\ \A r \in fresh : m_ResourceRecords'[r] = 0
    BY <1>1, <1>2, ClearGivesBack
  <1>5. ManagerTypes'
    BY <1>1, <1>2, <1>4 DEF ManagerTypes, Stages, FreeInitialContents, Contents
  <1>6. StagesFollow'
    BY <1>2, <1>3, <1>4 DEF StagesFollow, FreeInitialContents
  <1>7. FreshIsNew'
    BY <1>1, <1>2, <1>4 DEF FreshIsNew
  <1>8. RecordsInFile'
    BY <1>2 DEF RecordsInFile
  <1>9. QED
    BY <1>2, <1>4, <1>5, <1>6, <1>7, <1>8 DEF RecordsInv

\* The steps that leave records and references alone.
LEMMA SameRecords ==
    ASSUME RecordsInv,
           UNCHANGED <<m_ResourceRecords, m_CurrentResourceMap, m_FrameReferencedResources, fresh>>
    PROVE  /\ Referenced' = Referenced /\ m_ResourceRecords' \in RefCounts
           /\ Counted(m_ResourceRecords', m_CurrentResourceMap', Referenced')
           /\ m_FrameReferencedResources' \in [Resources -> FrameRefType]
           /\ atStart' \in {atStart, m_CurrentResourceMap} => FreshIsNew'
  <1>1. Referenced' = Referenced
    BY DEF Referenced
  <1>2. atStart' \in {atStart, m_CurrentResourceMap} => FreshIsNew'
    BY <1>1 DEF RecordsInv, FreshIsNew
  <1>3. QED
    BY <1>1, <1>2 DEF RecordsInv, ManagerTypes

LEMMA PrepareRecords == ASSUME RecordsInv, PrepareInitialContents PROVE RecordsInv'
  <1>1. ManagerTypes /\ StagesFollow
    BY DEF RecordsInv
  <1>2. /\ stage = "starting" /\ stage' = "prepared"
        /\ m_SkippedResourceIDs' = m_SkippedResourceIDs \cup Skippable
        /\ m_PostponedResourceIDs' = m_PostponedResourceIDs \cup Postponable
        /\ m_InitialContents' = [r \in Resources |->
              CASE r \in Postponable -> "empty"
                [] r \in Preparable \ (Skippable \cup Postponable) -> "start"
                [] OTHER -> m_InitialContents[r]]
        /\ atStart' = m_CurrentResourceMap /\ changed' = {} /\ file' = EmptyFile
        /\ UNCHANGED <<managerVars, m_FrameReferencedResources, m_State, DataWritten,
                       refAllResources, fresh>>
    BY DEF PrepareInitialContents
  <1>3. UNCHANGED <<m_ResourceRecords, m_CurrentResourceMap, m_FrameReferencedResources,
                    m_DirtyResources>>
    BY <1>2 DEF managerVars
  <1>4. /\ Referenced' = Referenced /\ m_ResourceRecords' \in RefCounts
        /\ Counted(m_ResourceRecords', m_CurrentResourceMap', Referenced')
        /\ m_FrameReferencedResources' \in [Resources -> FrameRefType] /\ FreshIsNew'
    BY <1>2, <1>3, SameRecords
  <1>5. Skippable \subseteq Resources /\ Postponable \subseteq Resources
    BY <1>1 DEF Skippable, Postponable, Preparable, ManagerTypes
  <1>6. m_InitialContents' \in [Resources -> Contents]
    <2>1. ASSUME NEW r \in Resources
          PROVE  (CASE r \in Postponable -> "empty"
                    [] r \in Preparable \ (Skippable \cup Postponable) -> "start"
                    [] OTHER -> m_InitialContents[r]) \in Contents
      BY <1>1 DEF ManagerTypes, Contents
    <2>2. QED
      BY <1>2, <2>1
  <1>7. DOMAIN file' = {"chunks", "contents", "needed"}
    BY <1>2 DEF EmptyFile
  <1>8. m_SkippedResourceIDs' \subseteq Resources /\ m_PostponedResourceIDs' \subseteq Resources
    BY <1>1, <1>2, <1>5 DEF ManagerTypes
  <1>9. ManagerTypes'
    BY <1>1, <1>2, <1>3, <1>4, <1>6, <1>7, <1>8 DEF ManagerTypes, Stages
  <1>10. StagesFollow'
    BY <1>1, <1>2, <1>4 DEF StagesFollow
  <1>11. RecordsInFile'
    BY <1>2 DEF RecordsInFile
  <1>12. QED
    BY <1>4, <1>9, <1>10, <1>11 DEF RecordsInv

LEMMA BeginEndRecords ==
    ASSUME RecordsInv, BeginActiveCapture \/ EndFrameCapture
    PROVE  RecordsInv'
  <1>1. ManagerTypes /\ StagesFollow
    BY DEF RecordsInv
  <1>2. /\ \/ stage' = "capturing" /\ m_State' = "ActiveCapturing" /\ stage = "prepared"
           \/ stage' = "ended" /\ m_State' = "BackgroundCapturing" /\ stage = "capturing"
        /\ UNCHANGED <<managerVars, frameVars, DataWritten, file, atStart, worldVars>>
    BY DEF BeginActiveCapture, EndFrameCapture
  <1>3. UNCHANGED <<m_ResourceRecords, m_CurrentResourceMap, m_FrameReferencedResources,
                    m_DirtyResources, m_InitialContents, m_PostponedResourceIDs,
                    m_SkippedResourceIDs, fresh, refAllResources, changed>>
    BY <1>2 DEF managerVars, frameVars, worldVars
  <1>4. /\ Referenced' = Referenced /\ m_ResourceRecords' \in RefCounts
        /\ Counted(m_ResourceRecords', m_CurrentResourceMap', Referenced')
        /\ m_FrameReferencedResources' \in [Resources -> FrameRefType] /\ FreshIsNew'
    BY <1>2, <1>3, SameRecords
  <1>5. ManagerTypes'
    BY <1>1, <1>2, <1>3, <1>4 DEF ManagerTypes, Stages
  <1>6. StagesFollow'
    BY <1>1, <1>2, <1>4 DEF StagesFollow
  <1>7. RecordsInFile'
    BY <1>2 DEF RecordsInFile
  <1>8. QED
    BY <1>4, <1>5, <1>6, <1>7 DEF RecordsInv

\* Nothing was written to a file before, so all that is reached is inserted.
LEMMA ChunksRecords == ASSUME RecordsInv, InsertReferencedChunks PROVE RecordsInv'
  <1>1. /\ ManagerTypes /\ StagesFollow
        /\ Counted(m_ResourceRecords, m_CurrentResourceMap, Referenced)
    BY DEF RecordsInv
  <1> DEFINE reached == UNION {Lineage[r] : r \in {q \in Wanted : m_ResourceRecords[q] > 0}}
  <1>2. /\ stage = "ended" /\ stage' = "chunks"
        /\ file' = [file EXCEPT !.chunks = reached \ DataWritten]
        /\ UNCHANGED <<managerVars, frameVars, m_State, atStart, worldVars>>
    BY DEF InsertReferencedChunks
  <1>3. UNCHANGED <<m_ResourceRecords, m_CurrentResourceMap, m_FrameReferencedResources,
                    m_DirtyResources, m_InitialContents, m_PostponedResourceIDs,
                    m_SkippedResourceIDs, fresh, refAllResources, changed>>
    BY <1>2 DEF managerVars, frameVars, worldVars
  <1>4. /\ Referenced' = Referenced /\ m_ResourceRecords' \in RefCounts
        /\ Counted(m_ResourceRecords', m_CurrentResourceMap', Referenced')
        /\ m_FrameReferencedResources' \in [Resources -> FrameRefType] /\ FreshIsNew'
    BY <1>2, <1>3, SameRecords
  <1>5. \A r \in Referenced : Lineage[r] \subseteq reached
    <2>1. ASSUME NEW r \in Referenced
          PROVE  m_ResourceRecords[r] > 0 /\ r \in Wanted
      <3>1. r \in Resources
        BY DEF Referenced
      <3>2. m_ResourceRecords[r] =
              One(r \in m_CurrentResourceMap) + One(r \in Referenced) + Cardinality(Bound(r, m_ResourceRecords))
        BY <1>1, <3>1 DEF Counted, Users
      <3>3. Cardinality(Bound(r, m_ResourceRecords)) \in Nat
        BY UsersCount
      <3>4. One(r \in Referenced) = 1 /\ One(r \in m_CurrentResourceMap) \in Nat
        BY <2>1 DEF One
      <3>5. m_ResourceRecords[r] > 0
        BY <3>2, <3>3, <3>4
      <3>6. QED
        BY <2>1, <3>1, <3>5 DEF Wanted
    <2>2. QED
      BY <2>1
  <1> HIDE DEF reached
  <1>6. file'.chunks = reached
    BY <1>1, <1>2 DEF StagesFollow, ManagerTypes
  <1>7. ManagerTypes'
    <2>1. DOMAIN file' = {"chunks", "contents", "needed"}
      BY <1>1, <1>2 DEF ManagerTypes
    <2>2. QED
      BY <1>1, <1>2, <1>3, <1>4, <2>1 DEF ManagerTypes, Stages
  <1>8. StagesFollow'
    BY <1>1, <1>2, <1>4 DEF StagesFollow
  <1>9. RecordsInFile'
    BY <1>4, <1>5, <1>6 DEF RecordsInFile
  <1>10. QED
    BY <1>4, <1>7, <1>8, <1>9 DEF RecordsInv

LEMMA FileRecords ==
    ASSUME RecordsInv, InsertInitialContentsChunks \/ Serialise_InitialContentsNeeded
    PROVE  RecordsInv'
  <1>1. ManagerTypes /\ StagesFollow /\ RecordsInFile
    BY DEF RecordsInv
  <1>2. /\ stage \in {"chunks", "contents"} /\ stage' \in {"contents", "needed"}
        /\ UNCHANGED <<managerVars, m_FrameReferencedResources, m_State, atStart, worldVars>>
    BY DEF InsertInitialContentsChunks, Serialise_InitialContentsNeeded, frameVars
  <1>3. UNCHANGED <<m_ResourceRecords, m_CurrentResourceMap, m_FrameReferencedResources,
                    m_DirtyResources, fresh, refAllResources, changed>>
    BY <1>2 DEF managerVars, worldVars
  <1>4. /\ Referenced' = Referenced /\ m_ResourceRecords' \in RefCounts
        /\ Counted(m_ResourceRecords', m_CurrentResourceMap', Referenced')
        /\ m_FrameReferencedResources' \in [Resources -> FrameRefType] /\ FreshIsNew'
    BY <1>2, <1>3, SameRecords
  <1>5. DOMAIN file' = {"chunks", "contents", "needed"} /\ file'.chunks = file.chunks
    BY <1>1 DEF ManagerTypes, InsertInitialContentsChunks, Serialise_InitialContentsNeeded
  <1>6. /\ m_InitialContents' \in [Resources -> Contents]
        /\ m_PostponedResourceIDs' \subseteq Resources /\ m_SkippedResourceIDs' \subseteq Resources
    BY <1>1 DEF ManagerTypes, InsertInitialContentsChunks, Serialise_InitialContentsNeeded,
                frameVars, Contents
  <1>7. ManagerTypes'
    BY <1>1, <1>2, <1>3, <1>4, <1>5, <1>6 DEF ManagerTypes, Stages
  <1>8. StagesFollow'
    BY <1>1, <1>2 DEF StagesFollow
  <1>9. RecordsInFile'
    BY <1>1, <1>2, <1>4, <1>5 DEF RecordsInFile
  <1>10. QED
    BY <1>4, <1>7, <1>8, <1>9 DEF RecordsInv

LEMMA AgeRecords ==
    ASSUME RecordsInv, CleanBackgroundFrameReferences \/ Tick \/ UNCHANGED initialContentsVars
    PROVE  RecordsInv'
  <1>1. /\ UNCHANGED <<m_CurrentResourceMap, m_DirtyResources, m_ResourceRecords, frameVars,
                       m_State, stage, DataWritten, file, atStart, refAllResources, fresh, changed>>
    BY DEF CleanBackgroundFrameReferences, Tick, initialContentsVars, managerVars, captureVars,
           worldVars
  <1>2. UNCHANGED <<m_FrameReferencedResources, m_InitialContents, m_PostponedResourceIDs,
                    m_SkippedResourceIDs>>
    BY <1>1 DEF frameVars
  <1>3. /\ Referenced' = Referenced /\ m_ResourceRecords' \in RefCounts
        /\ Counted(m_ResourceRecords', m_CurrentResourceMap', Referenced') /\ FreshIsNew'
    BY <1>1, <1>2, SameRecords
  <1>4. StagesFollow' /\ RecordsInFile'
    BY <1>1, <1>3, FrameStays DEF RecordsInv
  <1>5. ManagerTypes'
    BY <1>1, <1>2 DEF RecordsInv, ManagerTypes
  <1>6. QED
    BY <1>3, <1>4, <1>5 DEF RecordsInv

LEMMA RecordsBegin == InitialContentsInit => RecordsInv
  <1> SUFFICES ASSUME InitialContentsInit PROVE RecordsInv
    OBVIOUS
  <1>1. Referenced = {}
    BY DEF InitialContentsInit, Referenced
  <1>2. ManagerTypes
    BY DEF InitialContentsInit, ManagerTypes, Stages, RefCounts, FrameRefType, eFrameRef_None,
           Contents, EmptyFile
  <1>3. StagesFollow /\ FreshIsNew /\ RecordsInFile
    BY <1>1 DEF InitialContentsInit, StagesFollow, FreshIsNew, RecordsInFile
  <1>4. Counted(m_ResourceRecords, m_CurrentResourceMap, Referenced)
    <2>1. ASSUME NEW r \in Resources
          PROVE  m_ResourceRecords[r] = Users(r, m_ResourceRecords, {}, {})
      <3>1. Bound(r, m_ResourceRecords) = {}
        BY DEF InitialContentsInit, Bound
      <3>2. Cardinality(Bound(r, m_ResourceRecords)) = 0
        BY <3>1, FS_EmptySet
      <3>3. QED
        BY <3>2 DEF InitialContentsInit, Users, One
    <2>2. QED
      BY <1>1, <2>1 DEF InitialContentsInit, Counted
  <1>5. QED
    BY <1>2, <1>3, <1>4 DEF RecordsInv

LEMMA RecordsPreserved ==
    RecordsInv /\ [InitialContentsNext]_initialContentsVars => RecordsInv'
  <1> SUFFICES ASSUME RecordsInv, [InitialContentsNext]_initialContentsVars PROVE RecordsInv'
    OBVIOUS
  <1>1. ASSUME NEW r \in Resources, Create(r) PROVE RecordsInv'
    BY <1>1, CreateRecords
  <1>2. ASSUME NEW r \in Resources, Destroy(r) PROVE RecordsInv'
    BY <1>2, DestroyRecords
  <1>3. ASSUME NEW r \in Resources, NEW refType \in SubmittedRefs, QueueSubmit(r, refType)
        PROVE  RecordsInv'
    BY <1>3, SubmitRecords
  <1>4. CASE CleanBackgroundFrameReferences \/ Tick \/ UNCHANGED initialContentsVars
    BY <1>4, AgeRecords
  <1>5. CASE StartFrameCapture
    BY <1>5, StartRecords
  <1>6. CASE PrepareInitialContents
    BY <1>6, PrepareRecords
  <1>7. CASE BeginActiveCapture \/ EndFrameCapture
    BY <1>7, BeginEndRecords
  <1>8. CASE DiscardFrameCapture \/ FinishFrameCapture
    BY <1>8, LeaveRecords
  <1>9. CASE InsertReferencedChunks
    BY <1>9, ChunksRecords
  <1>10. CASE InsertInitialContentsChunks \/ Serialise_InitialContentsNeeded
    BY <1>10, FileRecords
  <1>11. QED
    BY <1>1, <1>2, <1>3, <1>4, <1>5, <1>6, <1>7, <1>8, <1>9, <1>10 DEF InitialContentsNext

LEMMA RecordsAlways == InitialContentsSpec => []RecordsInv
  BY RecordsBegin, RecordsPreserved, PTL DEF InitialContentsSpec

LEMMA CountedRecords == RecordsInv => RecordsCounted
  <1> SUFFICES ASSUME RecordsInv PROVE RecordsCounted
    OBVIOUS
  <1>1. ASSUME NEW r, NEW s, NEW user
        PROVE  Cardinality({user : x \in {r} \cap s}) = One(r \in s)
    <2>1. CASE r \in s
      <3>1. {user : x \in {r} \cap s} = {user}
        BY <2>1
      <3>2. QED
        BY <2>1, <3>1, FS_Singleton DEF One
    <2>2. CASE r \notin s
      <3>1. {user : x \in {r} \cap s} = {}
        BY <2>2
      <3>2. QED
        BY <2>2, <3>1, FS_EmptySet DEF One
    <2>3. QED
      BY <2>1, <2>2
  <1>2. ASSUME NEW r \in Resources
        PROVE  m_ResourceRecords[r] =
                   Cardinality({"application" : x \in {r} \cap m_CurrentResourceMap})
                 + Cardinality({"frame" : x \in {r} \cap Referenced})
                 + Cardinality({q \in Resources : Parent[q] = r /\ m_ResourceRecords[q] > 0})
    <2>1. /\ Cardinality({"application" : x \in {r} \cap m_CurrentResourceMap}) =
               One(r \in m_CurrentResourceMap)
          /\ Cardinality({"frame" : x \in {r} \cap Referenced}) = One(r \in Referenced)
      BY <1>1
    <2>2. m_ResourceRecords[r] = One(r \in m_CurrentResourceMap) + One(r \in Referenced)
              + Cardinality({q \in Resources : Parent[q] = r /\ m_ResourceRecords[q] > 0})
      BY DEF RecordsInv, Counted, Users, Bound
    <2>3. QED
      BY <2>1, <2>2
  <1>3. QED
    BY <1>2 DEF RecordsCounted

\* A record lives as long as the application, a captured frame or a record
\* bound to it uses it, over any number of frames of any number of resources,
\* and is in the file of a frame that refers to it, whatever the application
\* destroys meanwhile and in whatever order: RecordsKept, of
\* ResourceRecord::Delete, MarkResourceFrameReferenced,
\* ClearReferencedResources and InsertReferencedChunks.
THEOREM RecordsStay == InitialContentsSpec => []RecordsKept
  <1>1. RecordsInv => RecordsKept
    <2>1. RecordsInv => RecordsInFile
      BY DEF RecordsInv
    <2>2. QED
      BY <2>1, CountedRecords DEF RecordsKept
  <1>2. QED
    BY <1>1, RecordsAlways, PTL

-----------------------------------------------------------------------------
(* Contents: what a step leaves of the promise to have them in time.       *)

LEMMA OthersInTime ==
    ASSUME NEW r, InTime(r),
           r \in m_SkippedResourceIDs' <=> r \in m_SkippedResourceIDs,
           r \in m_PostponedResourceIDs' <=> r \in m_PostponedResourceIDs,
           r \in changed' <=> r \in changed,
           r \in m_CurrentResourceMap' <=> r \in m_CurrentResourceMap,
           m_InitialContents'[r] = m_InitialContents[r],
           m_FrameReferencedResources'[r] = m_FrameReferencedResources[r]
    PROVE  InTime(r)'
  BY DEF InTime

\* What is where it was, and was not written, can be read.
LEMMA ReadInTime ==
    ASSUME CurrentIsWhole, NEW r \in m_CurrentResourceMap, r \notin changed
    PROVE  Prepare_InitialState(r) = "start"
  BY DEF CurrentIsWhole, Prepare_InitialState

LEMMA PreparedInTime ==
    ASSUME ManagerTypes, CurrentIsWhole, NEW r \in Resources, r \in m_CurrentResourceMap,
           r \notin changed, PrepareNow(r), r \notin m_SkippedResourceIDs'
    PROVE  InTime(r)'
  <1>1. Prepare_InitialState(r) = "start"
    BY ReadInTime
  <1>2. m_InitialContents'[r] = "start" /\ r \notin m_PostponedResourceIDs'
    BY <1>1 DEF PrepareNow, ManagerTypes
  <1>3. QED
    BY <1>2 DEF InTime

LEMMA CompleteStays ==
    ASSUME NEW refType \in FrameRefType, NEW marked \in MarkedRefs
    PROVE  /\ IsCompleteWriteFrameRef(refType) =>
                  IsCompleteWriteFrameRef(ComposeFrameRefs(refType, marked))
           /\ refType = eFrameRef_None => ComposeFrameRefs(refType, marked) = marked
  BY DEF MarkedRefs, SubmittedRefs, FrameRefType, ComposeFrameRefs, IncludesWrite,
         IsCompleteWriteFrameRef, eFrameRef_None, eFrameRef_PartialWrite, eFrameRef_CompleteWrite,
         eFrameRef_Read, eFrameRef_ReadBeforeWrite, eFrameRef_WriteBeforeRead,
         eFrameRef_CompleteWriteAndDiscard

\* A submission that uses a resource of the start of the frame finds its
\* contents, or has them fetched before it runs.
LEMMA SubmittedInTime ==
    ASSUME ManagerTypes, CurrentIsWhole, IsActiveCapturing, NEW r \in Resources,
           NEW refType \in SubmittedRefs, QueueSubmit(r, refType), InTime(r)
    PROVE  InTime(r)'
  <1>1. /\ SkipOrPostponeOrPrepare(r, refType)
        /\ m_FrameReferencedResources' =
              [m_FrameReferencedResources EXCEPT ![r] = ComposeFrameRefs(@, refType)]
        /\ m_CurrentResourceMap' = m_CurrentResourceMap
        /\ changed' = IF IsDirtyFrameRef(refType) THEN changed \cup {r} ELSE changed
    BY DEF QueueSubmit, MarkResourceFrameReferenced
  <1>2. r \in m_CurrentResourceMap
    BY ResourcesAreBounded DEF QueueSubmit, NoParent
  <1>3. /\ m_FrameReferencedResources[r] \in FrameRefType /\ refType \in MarkedRefs
        /\ m_FrameReferencedResources'[r] = ComposeFrameRefs(m_FrameReferencedResources[r], refType)
    BY <1>1 DEF ManagerTypes, MarkedRefs
  <1>4. r \notin m_SkippedResourceIDs'
    BY <1>1 DEF SkipOrPostponeOrPrepare
  <1>5. CASE r \in m_SkippedResourceIDs /\ r \notin m_PostponedResourceIDs \cup changed
             /\ m_FrameReferencedResources[r] = eFrameRef_None
    <2>1. m_FrameReferencedResources'[r] = refType
      BY <1>3, <1>5, CompleteStays
    <2>2. CASE IsCompleteWriteFrameRef(refType) /\ NothingToPrepare
      BY <1>4, <1>5, <2>1, <2>2 DEF NothingToPrepare, InTime
    <2>3. CASE /\ ~IsDirtyFrameRef(refType)
               /\ m_PostponedResourceIDs' = m_PostponedResourceIDs \cup {r}
               /\ m_InitialContents' = [m_InitialContents EXCEPT ![r] = "empty"]
      <3>1. m_InitialContents'[r] = "empty" /\ r \notin changed'
        BY <1>1, <1>5, <2>3 DEF ManagerTypes
      <3>2. QED
        BY <1>1, <1>2, <1>4, <2>3, <3>1 DEF InTime
    <2>4. CASE PrepareNow(r)
      BY <1>2, <1>4, <1>5, <2>4, PreparedInTime
    <2>5. QED
      BY <1>1, <1>5, <2>2, <2>3, <2>4 DEF SkipOrPostponeOrPrepare
  <1>6. CASE r \in m_PostponedResourceIDs /\ r \notin m_SkippedResourceIDs \cup changed
             /\ m_InitialContents[r] = "empty"
    <2>1. CASE IsDirtyFrameRef(refType)
      <3>1. PrepareNow(r)
        BY <1>1, <1>6, <2>1 DEF SkipOrPostponeOrPrepare
      <3>2. QED
        BY <1>2, <1>4, <1>6, <3>1, PreparedInTime
    <2>2. CASE ~IsDirtyFrameRef(refType)
      <3>1. NothingToPrepare /\ changed' = changed
        BY <1>1, <1>6, <2>2 DEF SkipOrPostponeOrPrepare
      <3>2. QED
        BY <1>1, <1>2, <1>4, <1>6, <3>1 DEF NothingToPrepare, InTime
    <2>3. QED
      BY <2>1, <2>2
  <1>7. CASE r \notin m_SkippedResourceIDs \cup m_PostponedResourceIDs
             /\ (m_InitialContents[r] = "start" \/ IsCompleteWriteFrameRef(m_FrameReferencedResources[r]))
    <2>1. NothingToPrepare
      BY <1>1, <1>7 DEF SkipOrPostponeOrPrepare
    <2>2. IsCompleteWriteFrameRef(m_FrameReferencedResources[r]) =>
              IsCompleteWriteFrameRef(m_FrameReferencedResources'[r])
      BY <1>3, CompleteStays
    <2>3. QED
      BY <1>4, <1>7, <2>1, <2>2 DEF NothingToPrepare, InTime
  <1>8. QED
    BY <1>2, <1>5, <1>6, <1>7 DEF InTime

\* A resource that is destroyed takes its contents along, unless somebody may
\* ask for them.
LEMMA DestroyedInTime ==
    ASSUME ManagerTypes, StagesFollow, CurrentIsWhole, stage \in {"prepared", "capturing"},
           NEW r \in Resources, Destroy(r), InTime(r)
    PROVE  InTime(r)'
  <1>1. /\ UNCHANGED <<m_FrameReferencedResources, m_SkippedResourceIDs, changed>>
        /\ m_CurrentResourceMap' = m_CurrentResourceMap \ {r} /\ r \in m_CurrentResourceMap
        /\ IF IsActiveCapturing /\ r \in m_PostponedResourceIDs
           THEN PrepareNow(r) ELSE NothingToPrepare
    BY DEF Destroy, ReleaseCurrentResource, worldVars
  <1>2. CASE r \in m_PostponedResourceIDs
    <2>1. r \notin m_SkippedResourceIDs \cup changed
      BY <1>1, <1>2 DEF InTime
    <2>2. CASE IsActiveCapturing
      BY <1>1, <1>2, <2>1, <2>2, PreparedInTime
    <2>3. CASE ~IsActiveCapturing
      <3>1. m_FrameReferencedResources'[r] = eFrameRef_None
        BY <1>1, <2>3 DEF StagesFollow, IsActiveCapturing, Referenced
      <3>2. QED
        BY <1>1, <3>1 DEF InTime
    <2>4. QED
      BY <2>2, <2>3
  <1>3. CASE r \notin m_PostponedResourceIDs
    BY <1>1, <1>3 DEF NothingToPrepare, InTime
  <1>4. QED
    BY <1>2, <1>3

\* With the hazards excluded the application waits until the file is written.
LEMMA NobodyWhileWriting ==
    ASSUME Hazards = {}, ManagerTypes, ApplicationRuns
    PROVE  stage \in {"idle", "starting", "prepared", "capturing"}
  BY DEF ApplicationRuns, ManagerTypes, Stages

LEMMA CreateContents ==
    ASSUME Hazards = {}, RecordsInv, ContentsInv, NEW x \in Resources, Create(x)
    PROVE  ContentsInv'
  <1>1. ManagerTypes /\ StagesFollow /\ FreshIsNew
    BY DEF RecordsInv
  <1>2. stage \in {"idle", "starting", "prepared", "capturing"} /\ stage' = stage
    BY <1>1, NobodyWhileWriting DEF Create, captureVars
  <1>3. /\ m_CurrentResourceMap' = m_CurrentResourceMap \cup {x}
        /\ m_DirtyResources' = m_DirtyResources \cup {x}
        /\ Parent[x] \in m_CurrentResourceMap \cup {NoParent}
        /\ x \in fresh /\ atStart' = atStart /\ changed' = changed
    BY DEF Create, captureVars
  <1>4. CurrentIsWhole'
    <2>1. CurrentIsWhole
      BY DEF ContentsInv
    <2>2. m_CurrentResourceMap' \subseteq m_DirtyResources'
      BY <1>3, <2>1 DEF CurrentIsWhole
    <2>3. ASSUME NEW r \in m_CurrentResourceMap'
          PROVE  {r, Parent[r]} \ {NoParent} \subseteq m_CurrentResourceMap'
      BY <1>3, <2>1, <2>3 DEF CurrentIsWhole
    <2>4. QED
      BY <2>2, <2>3 DEF CurrentIsWhole
  <1>5. ASSUME NEW r \in atStart, InTime(r)
        PROVE  InTime(r)'
    <2>1. r # x /\ r \in Resources
      BY <1>1, <1>3 DEF FreshIsNew, ManagerTypes
    <2>2. \/ UNCHANGED frameVars
          \/ /\ SkipOrPostponeOrPrepare(x, eFrameRef_ReadBeforeWrite)
             /\ m_FrameReferencedResources' = [m_FrameReferencedResources EXCEPT ![x] =
                    ComposeFrameRefs(@, eFrameRef_ReadBeforeWrite)]
      BY DEF Create, MarkResourceFrameReferenced
    <2>3. CASE UNCHANGED frameVars
      BY <1>3, <1>5, <2>1, <2>3, OthersInTime DEF frameVars
    <2>4. CASE /\ SkipOrPostponeOrPrepare(x, eFrameRef_ReadBeforeWrite)
               /\ m_FrameReferencedResources' = [m_FrameReferencedResources EXCEPT ![x] =
                      ComposeFrameRefs(@, eFrameRef_ReadBeforeWrite)]
      <3>1. m_FrameReferencedResources'[r] = m_FrameReferencedResources[r]
        BY <1>1, <2>1, <2>4 DEF ManagerTypes
      <3>2. /\ r \in m_SkippedResourceIDs' <=> r \in m_SkippedResourceIDs
            /\ r \in m_PostponedResourceIDs' <=> r \in m_PostponedResourceIDs
            /\ m_InitialContents'[r] = m_InitialContents[r]
        BY <1>1, <2>1, <2>4 DEF SkipOrPostponeOrPrepare, PrepareNow, NothingToPrepare, ManagerTypes
      <3>3. QED
        BY <1>3, <1>5, <2>1, <3>1, <3>2, OthersInTime
    <2>5. QED
      BY <2>2, <2>3, <2>4
  <1>6. ContentsInTime'
    BY <1>2, <1>3, <1>5 DEF ContentsInTime, ContentsInv
  <1>7. ContentsInFile' /\ StartContentsKept'
    BY <1>2 DEF ContentsInFile, StartContentsKept
  <1>8. QED
    BY <1>4, <1>6, <1>7 DEF ContentsInv

LEMMA SubmitContents ==
    ASSUME Hazards = {}, RecordsInv, ContentsInv, NEW x \in Resources,
           NEW refType \in SubmittedRefs, QueueSubmit(x, refType)
    PROVE  ContentsInv'
  <1>1. ManagerTypes /\ StagesFollow /\ CurrentIsWhole
    BY DEF RecordsInv, ContentsInv
  <1>2. stage \in {"idle", "starting", "capturing"} /\ stage' = stage
    BY <1>1, NobodyWhileWriting DEF QueueSubmit
  <1>3. /\ UNCHANGED <<m_CurrentResourceMap, m_DirtyResources, atStart>>
        /\ changed' \in {changed, changed \cup {x}}
    BY DEF QueueSubmit
  <1>4. CurrentIsWhole'
    BY <1>1, <1>3 DEF CurrentIsWhole
  <1>5. ASSUME stage = "capturing", NEW r \in atStart, InTime(r)
        PROVE  InTime(r)'
    <2>1. r \in Resources /\ IsActiveCapturing
      BY <1>1, <1>5 DEF ManagerTypes, StagesFollow, IsActiveCapturing
    <2>2. CASE r = x
      BY <1>1, <1>5, <2>1, <2>2, SubmittedInTime
    <2>3. CASE r # x
      <3>1. /\ SkipOrPostponeOrPrepare(x, refType)
            /\ m_FrameReferencedResources' =
                  [m_FrameReferencedResources EXCEPT ![x] = ComposeFrameRefs(@, refType)]
        BY <2>1 DEF QueueSubmit, MarkResourceFrameReferenced
      <3>2. m_FrameReferencedResources'[r] = m_FrameReferencedResources[r]
        BY <1>1, <2>1, <2>3, <3>1 DEF ManagerTypes
      <3>3. /\ r \in m_SkippedResourceIDs' <=> r \in m_SkippedResourceIDs
            /\ r \in m_PostponedResourceIDs' <=> r \in m_PostponedResourceIDs
            /\ m_InitialContents'[r] = m_InitialContents[r]
        BY <1>1, <2>1, <2>3, <3>1 DEF SkipOrPostponeOrPrepare, PrepareNow, NothingToPrepare, ManagerTypes
      <3>4. r \in changed' <=> r \in changed
        BY <1>3, <2>3
      <3>5. QED
        BY <1>3, <1>5, <3>2, <3>3, <3>4, OthersInTime
    <2>4. QED
      BY <2>2, <2>3
  <1>6. ContentsInTime'
    BY <1>2, <1>3, <1>5 DEF ContentsInTime, ContentsInv
  <1>7. ContentsInFile' /\ StartContentsKept'
    BY <1>2 DEF ContentsInFile, StartContentsKept
  <1>8. QED
    BY <1>4, <1>6, <1>7 DEF ContentsInv

LEMMA DestroyContents ==
    ASSUME Hazards = {}, RecordsInv, ContentsInv, NEW x \in Resources, Destroy(x)
    PROVE  ContentsInv'
  <1>1. ManagerTypes /\ StagesFollow /\ CurrentIsWhole
    BY DEF RecordsInv, ContentsInv
  <1>2. stage \in {"idle", "starting", "prepared", "capturing"} /\ stage' = stage
    BY <1>1, NobodyWhileWriting DEF Destroy, captureVars
  <1>3. /\ m_CurrentResourceMap' = m_CurrentResourceMap \ {x}
        /\ m_DirtyResources' = m_DirtyResources \ {x}
        /\ \A q \in m_CurrentResourceMap : Parent[q] # x
        /\ UNCHANGED <<m_FrameReferencedResources, m_SkippedResourceIDs, changed, atStart>>
        /\ PrepareNow(x) \/ NothingToPrepare
    BY DEF Destroy, ReleaseCurrentResource, captureVars, worldVars
  <1>4. CurrentIsWhole'
    <2>1. m_CurrentResourceMap' \subseteq m_DirtyResources'
      BY <1>1, <1>3 DEF CurrentIsWhole
    <2>2. ASSUME NEW r \in m_CurrentResourceMap'
          PROVE  {r, Parent[r]} \ {NoParent} \subseteq m_CurrentResourceMap'
      <3>1. r \in m_CurrentResourceMap /\ r # x /\ Parent[r] # x
        BY <1>3, <2>2
      <3>2. {r, Parent[r]} \ {NoParent} \subseteq m_CurrentResourceMap
        BY <1>1, <3>1 DEF CurrentIsWhole
      <3>3. QED
        BY <1>3, <3>1, <3>2
    <2>3. QED
      BY <2>1, <2>2 DEF CurrentIsWhole
  <1>5. ASSUME stage \in {"prepared", "capturing"}, NEW r \in atStart, InTime(r)
        PROVE  InTime(r)'
    <2>1. r \in Resources
      BY <1>1, <1>5 DEF ManagerTypes
    <2>2. CASE r = x
      BY <1>1, <1>5, <2>1, <2>2, DestroyedInTime
    <2>3. CASE r # x
      <3>1. /\ r \in m_PostponedResourceIDs' <=> r \in m_PostponedResourceIDs
            /\ m_InitialContents'[r] = m_InitialContents[r]
        BY <1>1, <1>3, <2>1, <2>3 DEF PrepareNow, NothingToPrepare, ManagerTypes
      <3>2. r \in m_CurrentResourceMap' <=> r \in m_CurrentResourceMap
        BY <1>3, <2>3
      <3>3. QED
        BY <1>3, <1>5, <3>1, <3>2, OthersInTime
    <2>4. QED
      BY <2>2, <2>3
  <1>6. ContentsInTime'
    BY <1>2, <1>3, <1>5 DEF ContentsInTime, ContentsInv
  <1>7. ContentsInFile' /\ StartContentsKept'
    BY <1>2 DEF ContentsInFile, StartContentsKept
  <1>8. QED
    BY <1>4, <1>6, <1>7 DEF ContentsInv

LEMMA ClearContents ==
    ASSUME RecordsInv, ContentsInv, StartFrameCapture \/ FinishFrameCapture \/ DiscardFrameCapture
    PROVE  ContentsInv'
  <1>1. /\ stage' \in {"idle", "starting"} /\ ClearReferencedResources
        /\ m_CurrentResourceMap' = m_CurrentResourceMap
    BY DEF StartFrameCapture, FinishFrameCapture, DiscardFrameCapture
  <1>2. m_DirtyResources \subseteq m_DirtyResources'
    BY <1>1 DEF ClearReferencedResources
  <1>3. CurrentIsWhole'
    BY <1>1, <1>2 DEF ContentsInv, CurrentIsWhole
  <1>4. ContentsInTime' /\ ContentsInFile' /\ StartContentsKept'
    BY <1>1 DEF ContentsInTime, ContentsInFile, StartContentsKept
  <1>5. QED
    BY <1>3, <1>4 DEF ContentsInv

\* What exists when a frame begins is dirty and has a record, so it is looked
\* at, and fetched, postponed or skipped.
LEMMA PrepareContents ==
    ASSUME RecordsInv, ContentsInv, PrepareInitialContents
    PROVE  ContentsInv'
  <1>1. /\ ManagerTypes /\ StagesFollow /\ CurrentIsWhole
        /\ Counted(m_ResourceRecords, m_CurrentResourceMap, Referenced)
    BY DEF RecordsInv, ContentsInv
  <1>2. /\ stage = "starting" /\ stage' = "prepared"
        /\ m_SkippedResourceIDs' = m_SkippedResourceIDs \cup Skippable
        /\ m_PostponedResourceIDs' = m_PostponedResourceIDs \cup Postponable
        /\ m_InitialContents' = [r \in Resources |->
              CASE r \in Postponable -> "empty"
                [] r \in Preparable \ (Skippable \cup Postponable) -> "start"
                [] OTHER -> m_InitialContents[r]]
        /\ atStart' = m_CurrentResourceMap /\ changed' = {}
        /\ UNCHANGED <<m_CurrentResourceMap, m_DirtyResources, m_FrameReferencedResources>>
    BY DEF PrepareInitialContents, managerVars
  <1>3. CurrentIsWhole'
    BY <1>1, <1>2 DEF CurrentIsWhole
  <1>4. ASSUME NEW r \in m_CurrentResourceMap
        PROVE  InTime(r)'
    <2>1. r \in Preparable /\ r \in Resources
      <3>1. r \in Resources /\ r \in m_DirtyResources
        BY <1>1, <1>4 DEF ManagerTypes, CurrentIsWhole
      <3>2. m_ResourceRecords[r] =
              One(r \in m_CurrentResourceMap) + One(r \in Referenced) + Cardinality(Bound(r, m_ResourceRecords))
        BY <1>1, <3>1 DEF Counted, Users
      <3>3. Cardinality(Bound(r, m_ResourceRecords)) \in Nat
        BY UsersCount
      <3>4. One(r \in m_CurrentResourceMap) = 1 /\ One(r \in Referenced) \in Nat
        BY <1>4 DEF One
      <3>5. m_ResourceRecords[r] > 0
        BY <3>2, <3>3, <3>4
      <3>6. QED
        BY <1>4, <3>1, <3>5 DEF Preparable
    <2>2. /\ m_FrameReferencedResources'[r] = eFrameRef_None
          /\ m_SkippedResourceIDs' = Skippable /\ m_PostponedResourceIDs' = Postponable
      BY <1>1, <1>2, <2>1 DEF StagesFollow, Referenced
    <2>3. Skippable \cap Postponable = {}
      BY DEF Postponable
    <2>4. CASE r \in Skippable
      BY <1>2, <2>2, <2>3, <2>4 DEF InTime
    <2>5. CASE r \in Postponable
      <3>1. m_InitialContents'[r] = "empty"
        BY <1>2, <2>1, <2>5
      <3>2. QED
        BY <1>2, <1>4, <2>2, <2>3, <2>5, <3>1 DEF InTime
    <2>6. CASE r \notin Skippable /\ r \notin Postponable
      <3>1. m_InitialContents'[r] = "start"
        BY <1>2, <2>1, <2>6
      <3>2. QED
        BY <2>2, <2>6, <3>1 DEF InTime
    <2>7. QED
      BY <2>4, <2>5, <2>6
  <1>5. ContentsInTime'
    BY <1>2, <1>4 DEF ContentsInTime
  <1>6. ContentsInFile' /\ StartContentsKept'
    BY <1>2 DEF ContentsInFile, StartContentsKept
  <1>7. QED
    BY <1>3, <1>5, <1>6 DEF ContentsInv

LEMMA StageContents ==
    ASSUME ContentsInv, BeginActiveCapture \/ EndFrameCapture \/ InsertReferencedChunks
    PROVE  ContentsInv'
  <1>1. /\ stage \in {"prepared", "capturing", "ended"} /\ stage' \in {"capturing", "ended", "chunks"}
        /\ UNCHANGED <<managerVars, frameVars, atStart, worldVars>>
    BY DEF BeginActiveCapture, EndFrameCapture, InsertReferencedChunks
  <1>2. /\ UNCHANGED <<m_CurrentResourceMap, m_DirtyResources, m_FrameReferencedResources,
                       m_InitialContents, m_PostponedResourceIDs, m_SkippedResourceIDs, changed>>
    BY <1>1 DEF managerVars, frameVars, worldVars
  <1>3. CurrentIsWhole'
    BY <1>2 DEF ContentsInv, CurrentIsWhole
  <1>4. \A r : InTime(r) => InTime(r)'
    BY <1>2 DEF InTime
  <1>5. ContentsInTime'
    BY <1>1, <1>4 DEF ContentsInv, ContentsInTime
  <1>6. ContentsInFile' /\ StartContentsKept'
    BY <1>1 DEF ContentsInFile, StartContentsKept
  <1>7. QED
    BY <1>3, <1>5, <1>6 DEF ContentsInv

LEMMA InsertContents ==
    ASSUME RecordsInv, ContentsInv, InsertInitialContentsChunks
    PROVE  ContentsInv'
  <1>1. /\ ManagerTypes /\ CurrentIsWhole /\ ContentsInTime
        /\ Counted(m_ResourceRecords, m_CurrentResourceMap, Referenced)
    BY DEF RecordsInv, ContentsInv
  <1>2. /\ stage = "chunks" /\ stage' = "contents"
        /\ file' = [file EXCEPT !.contents = [r \in Resources |->
              IF r \notin Serialised THEN "none"
              ELSE IF r \in m_PostponedResourceIDs THEN Prepare_InitialState(r)
              ELSE m_InitialContents[r]]]
        /\ m_InitialContents' = [r \in Resources |->
              IF r \in Serialised THEN "empty" ELSE m_InitialContents[r]]
        /\ UNCHANGED <<m_CurrentResourceMap, m_DirtyResources, m_FrameReferencedResources, atStart>>
    BY DEF InsertInitialContentsChunks, managerVars
  <1>3. CurrentIsWhole'
    BY <1>1, <1>2 DEF CurrentIsWhole
  <1>4. ASSUME NEW r \in Resources, LeftToReplay(r)
        PROVE  file'.contents[r] = "start" /\ m_InitialContents'[r] # "none"
    <2>1. r \in atStart /\ r \in Referenced /\ InTime(r)
          /\ ~IsCompleteWriteFrameRef(m_FrameReferencedResources[r])
      BY <1>1, <1>2, <1>4 DEF LeftToReplay, ContentsInTime
    <2>2. m_FrameReferencedResources[r] # eFrameRef_None /\ r \in Wanted
      BY <2>1 DEF Referenced, Wanted
    <2>3. m_ResourceRecords[r] > 0
      <3>1. m_ResourceRecords[r] =
              One(r \in m_CurrentResourceMap) + One(r \in Referenced) + Cardinality(Bound(r, m_ResourceRecords))
        BY <1>1 DEF Counted, Users
      <3>2. Cardinality(Bound(r, m_ResourceRecords)) \in Nat
        BY UsersCount
      <3>3. One(r \in Referenced) = 1 /\ One(r \in m_CurrentResourceMap) \in Nat
        BY <2>1 DEF One
      <3>4. QED
        BY <3>1, <3>2, <3>3
    <2>4. \/ /\ r \in m_PostponedResourceIDs /\ m_InitialContents[r] = "empty"
             /\ r \in m_CurrentResourceMap /\ r \notin changed
          \/ r \notin m_PostponedResourceIDs /\ m_InitialContents[r] = "start"
      BY <2>1, <2>2 DEF InTime
    <2>5. r \in Serialised
      BY <2>2, <2>3, <2>4 DEF Serialised
    <2>6. r \in m_PostponedResourceIDs => Prepare_InitialState(r) = "start"
      BY <1>1, <2>4, ReadInTime
    <2>7. file'.contents[r] = "start"
      BY <1>1, <1>2, <2>4, <2>5, <2>6 DEF ManagerTypes
    <2>8. QED
      BY <1>2, <2>5, <2>7
  <1>5. \A r : LeftToReplay(r)' <=> LeftToReplay(r)
    BY <1>2 DEF LeftToReplay, Referenced
  <1>6. ContentsInFile'
    BY <1>4, <1>5 DEF ContentsInFile
  <1>7. ContentsInTime' /\ StartContentsKept'
    BY <1>2 DEF ContentsInTime, StartContentsKept
  <1>8. QED
    BY <1>3, <1>6, <1>7 DEF ContentsInv

LEMMA NeededContents ==
    ASSUME RecordsInv, ContentsInv, Serialise_InitialContentsNeeded
    PROVE  ContentsInv'
  <1>1. ManagerTypes /\ CurrentIsWhole /\ ContentsInFile
    BY DEF RecordsInv, ContentsInv
  <1>2. /\ stage = "contents" /\ stage' = "needed"
        /\ file' = [file EXCEPT !.needed =
              {r \in Referenced : IsDirtyFrameRef(m_FrameReferencedResources[r])} \cup
              {r \in Wanted : m_InitialContents[r] # "none"}]
        /\ UNCHANGED <<m_CurrentResourceMap, m_DirtyResources, m_FrameReferencedResources, atStart>>
    BY DEF Serialise_InitialContentsNeeded, managerVars, frameVars
  <1>3. CurrentIsWhole'
    BY <1>1, <1>2 DEF CurrentIsWhole
  <1>4. ASSUME NEW r \in Resources, LeftToReplay(r)
        PROVE  file'.contents[r] = "start" /\ r \in file'.needed
    <2>1. file.contents[r] = "start" /\ m_InitialContents[r] # "none"
      BY <1>1, <1>2, <1>4 DEF ContentsInFile
    <2>2. r \in Wanted
      BY <1>4 DEF LeftToReplay, Wanted
    <2>3. /\ file'.contents = file.contents
          /\ file'.needed = {q \in Referenced : IsDirtyFrameRef(m_FrameReferencedResources[q])} \cup
                            {q \in Wanted : m_InitialContents[q] # "none"}
      BY <1>1, <1>2 DEF ManagerTypes
    <2>4. QED
      BY <2>1, <2>2, <2>3
  <1>5. \A r : LeftToReplay(r)' <=> LeftToReplay(r)
    BY <1>2 DEF LeftToReplay, Referenced
  <1>6. StartContentsKept'
    BY <1>4, <1>5 DEF StartContentsKept
  <1>7. ContentsInTime' /\ ContentsInFile'
    BY <1>2 DEF ContentsInTime, ContentsInFile
  <1>8. QED
    BY <1>3, <1>6, <1>7 DEF ContentsInv

LEMMA AgeContents ==
    ASSUME ContentsInv, CleanBackgroundFrameReferences \/ Tick \/ UNCHANGED initialContentsVars
    PROVE  ContentsInv'
  <1>1. /\ UNCHANGED <<m_CurrentResourceMap, m_DirtyResources, frameVars, stage, file, atStart, changed>>
    BY DEF CleanBackgroundFrameReferences, Tick, initialContentsVars, managerVars, captureVars,
           worldVars
  <1>2. UNCHANGED <<m_FrameReferencedResources, m_InitialContents, m_PostponedResourceIDs,
                    m_SkippedResourceIDs>>
    BY <1>1 DEF frameVars
  <1>3. \A r : InTime(r)' <=> InTime(r)
    BY <1>1, <1>2 DEF InTime
  <1>4. \A r : LeftToReplay(r)' <=> LeftToReplay(r)
    BY <1>1, <1>2 DEF LeftToReplay, Referenced
  <1>5. CurrentIsWhole' /\ ContentsInTime'
    BY <1>1, <1>3 DEF ContentsInv, CurrentIsWhole, ContentsInTime
  <1>6. ContentsInFile' /\ StartContentsKept'
    BY <1>1, <1>2, <1>4 DEF ContentsInv, ContentsInFile, StartContentsKept
  <1>7. QED
    BY <1>5, <1>6 DEF ContentsInv

LEMMA ContentsPreserved ==
    ASSUME Hazards = {}
    PROVE  RecordsInv /\ ContentsInv /\ [InitialContentsNext]_initialContentsVars => ContentsInv'
  <1> SUFFICES ASSUME RecordsInv, ContentsInv, [InitialContentsNext]_initialContentsVars
               PROVE  ContentsInv'
    OBVIOUS
  <1>1. ASSUME NEW r \in Resources, Create(r) PROVE ContentsInv'
    BY <1>1, CreateContents
  <1>2. ASSUME NEW r \in Resources, Destroy(r) PROVE ContentsInv'
    BY <1>2, DestroyContents
  <1>3. ASSUME NEW r \in Resources, NEW refType \in SubmittedRefs, QueueSubmit(r, refType)
        PROVE  ContentsInv'
    BY <1>3, SubmitContents
  <1>4. CASE CleanBackgroundFrameReferences \/ Tick \/ UNCHANGED initialContentsVars
    BY <1>4, AgeContents
  <1>5. CASE StartFrameCapture \/ DiscardFrameCapture \/ FinishFrameCapture
    BY <1>5, ClearContents
  <1>6. CASE PrepareInitialContents
    BY <1>6, PrepareContents
  <1>7. CASE BeginActiveCapture \/ EndFrameCapture \/ InsertReferencedChunks
    BY <1>7, StageContents
  <1>8. CASE InsertInitialContentsChunks
    BY <1>8, InsertContents
  <1>9. CASE Serialise_InitialContentsNeeded
    BY <1>9, NeededContents
  <1>10. QED
    BY <1>1, <1>2, <1>3, <1>4, <1>5, <1>6, <1>7, <1>8, <1>9 DEF InitialContentsNext

LEMMA ContentsBegin == InitialContentsInit => ContentsInv
  BY DEF InitialContentsInit, ContentsInv, CurrentIsWhole, ContentsInTime, ContentsInFile,
         StartContentsKept

-----------------------------------------------------------------------------
(* Times: what is taken to have been skipped for long.                     *)

LEMMA WriteTimes ==
    ASSUME SkippedSince, NEW x \in Resources, NEW refType \in MarkedRefs,
           m_ResourceRefTimes' = UpdateLastWriteTime(x, refType),
           kept' = IF Keeps(refType) THEN [kept EXCEPT ![x] = 0] ELSE kept
    PROVE  SkippedSince'
  <1>1. /\ m_ResourceRefTimes \in [Resources -> ResourceRefTimes \cup {NotListed}]
        /\ kept \in [Resources -> 0 .. 2] /\ kept[x] >= m_ResourceRefTimes[x].skip
        /\ \A r \in Resources : kept[r] >= m_ResourceRefTimes[r].skip
    BY DEF SkippedSince, PERSISTENT_RESOURCE_AGE
  <1>2. CASE ~IsDirtyFrameRef(refType)
    <2>1. m_ResourceRefTimes' = m_ResourceRefTimes /\ kept' = kept
      BY <1>2 DEF UpdateLastWriteTime, Keeps
    <2>2. QED
      BY <2>1 DEF SkippedSince
  <1>3. CASE IsDirtyFrameRef(refType)
    <2> DEFINE skip == IF refType # eFrameRef_CompleteWriteAndDiscard THEN Never
                       ELSE IF m_ResourceRefTimes[x].skip = Never THEN 0 ELSE m_ResourceRefTimes[x].skip
               time == IF refType # eFrameRef_CompleteWriteAndDiscard THEN 0 ELSE kept[x]
    <2>1. m_ResourceRefTimes' = [m_ResourceRefTimes EXCEPT ![x] = [write |-> 0, skip |-> skip]]
      BY <1>3 DEF UpdateLastWriteTime
    <2>2. kept' = [kept EXCEPT ![x] = time]
      BY <1>1, <1>3 DEF Keeps
    <2>3. m_ResourceRefTimes[x].skip \in -1 .. 2
      BY <1>1 DEF ResourceRefTimes, NotListed, Never, SKIP_RESOURCE_AGE
    <2>4. kept[x] \in 0 .. 2
      BY <1>1
    <2>5. skip \in -1 .. 2 /\ time \in 0 .. 2 /\ time >= skip
      BY <1>1, <2>3, <2>4 DEF Never
    <2> HIDE DEF skip, time
    <2>6. [write |-> 0, skip |-> skip] \in ResourceRefTimes
      BY <2>5 DEF ResourceRefTimes, PERSISTENT_RESOURCE_AGE, SKIP_RESOURCE_AGE
    <2>7. m_ResourceRefTimes' \in [Resources -> ResourceRefTimes \cup {NotListed}]
      BY <1>1, <2>1, <2>6
    <2>8. kept' \in [Resources -> 0 .. 2]
      BY <1>1, <2>2, <2>5
    <2>9. ASSUME NEW r \in Resources
          PROVE  kept'[r] >= m_ResourceRefTimes'[r].skip
      <3>1. CASE r = x
        <4>1. kept'[r] = time /\ m_ResourceRefTimes'[r] = [write |-> 0, skip |-> skip]
          BY <1>1, <2>1, <2>2, <3>1
        <4>2. QED
          BY <2>5, <4>1
      <3>2. CASE r # x
        <4>1. kept'[r] = kept[r] /\ m_ResourceRefTimes'[r] = m_ResourceRefTimes[r]
          BY <1>1, <2>1, <2>2, <3>2
        <4>2. QED
          BY <1>1, <4>1
      <3>3. QED
        BY <3>1, <3>2
    <2>10. QED
      BY <2>7, <2>8, <2>9 DEF SkippedSince, PERSISTENT_RESOURCE_AGE
  <1>4. QED
    BY <1>2, <1>3

\* Times that are forgotten, or of which only the write changes.
LEMMA ForgottenTimes ==
    ASSUME SkippedSince, kept' = kept, NEW times,
           m_ResourceRefTimes' = [r \in Resources |-> times[r]],
           \A r \in Resources : \/ times[r] \in {NotListed, m_ResourceRefTimes[r]}
                                \/ /\ m_ResourceRefTimes[r] # NotListed
                                   /\ times[r] = [m_ResourceRefTimes[r] EXCEPT !.write = 0]
    PROVE  SkippedSince'
  <1>1. ASSUME NEW r \in Resources
        PROVE  /\ m_ResourceRefTimes'[r] \in ResourceRefTimes \cup {NotListed}
               /\ kept[r] >= m_ResourceRefTimes'[r].skip
    <2>1. /\ m_ResourceRefTimes'[r] = times[r] /\ kept[r] \in 0 .. 2
          /\ m_ResourceRefTimes[r] \in ResourceRefTimes \cup {NotListed}
          /\ kept[r] >= m_ResourceRefTimes[r].skip
      BY DEF SkippedSince, PERSISTENT_RESOURCE_AGE
    <2>2. CASE times[r] = NotListed
      <3>1. NotListed.skip = -1
        BY DEF NotListed, Never
      <3>2. QED
        BY <2>1, <2>2, <3>1
    <2>3. CASE times[r] = m_ResourceRefTimes[r]
      BY <2>1, <2>3
    <2>4. CASE /\ m_ResourceRefTimes[r] # NotListed
               /\ times[r] = [m_ResourceRefTimes[r] EXCEPT !.write = 0]
      <3>1. m_ResourceRefTimes[r] \in ResourceRefTimes
        BY <2>1, <2>4
      <3>2. times[r] \in ResourceRefTimes /\ times[r].skip = m_ResourceRefTimes[r].skip
        BY <2>4, <3>1 DEF ResourceRefTimes, PERSISTENT_RESOURCE_AGE
      <3>3. QED
        BY <2>1, <3>2
    <2>5. QED
      BY <2>2, <2>3, <2>4
  <1>2. QED
    BY <1>1 DEF SkippedSince

LEMMA TickTimes == ASSUME SkippedSince, Tick PROVE SkippedSince'
  <1>1. /\ m_ResourceRefTimes' = [r \in Resources |-> Aged(m_ResourceRefTimes[r])]
        /\ kept' = [r \in Resources |-> Older(kept[r])]
    BY DEF Tick
  <1>2. ASSUME NEW r \in Resources
        PROVE  /\ Aged(m_ResourceRefTimes[r]) \in ResourceRefTimes \cup {NotListed}
               /\ Older(kept[r]) \in 0 .. 2 /\ Older(kept[r]) >= Aged(m_ResourceRefTimes[r]).skip
    <2>1. /\ kept[r] \in 0 .. 2
          /\ m_ResourceRefTimes[r] \in ResourceRefTimes \cup {NotListed}
          /\ kept[r] >= m_ResourceRefTimes[r].skip
      BY DEF SkippedSince, PERSISTENT_RESOURCE_AGE
    <2>2. Older(kept[r]) \in 0 .. 2
      BY <2>1 DEF Older, PERSISTENT_RESOURCE_AGE
    <2>3. CASE m_ResourceRefTimes[r] = NotListed
      <3>1. Aged(m_ResourceRefTimes[r]) = NotListed /\ NotListed.skip = -1
        BY <2>3 DEF Aged, NotListed, Never
      <3>2. QED
        BY <2>2, <3>1
    <2>4. CASE m_ResourceRefTimes[r] # NotListed
      <3> DEFINE times == m_ResourceRefTimes[r]
                 skip  == IF times.skip = Never THEN Never ELSE Older(times.skip)
      <3>1. times.write \in 0 .. 2 /\ times.skip \in -1 .. 2
        BY <2>1, <2>4 DEF ResourceRefTimes, PERSISTENT_RESOURCE_AGE, SKIP_RESOURCE_AGE
      <3>2. Aged(times) = [write |-> Older(times.write), skip |-> skip]
        BY <2>4 DEF Aged
      <3>3. kept[r] >= times.skip
        BY <2>1
      <3> HIDE DEF times
      <3>4. Older(times.write) \in 0 .. 2 /\ skip \in -1 .. 2 /\ Older(kept[r]) >= skip
        BY <2>1, <3>1, <3>3 DEF Older, Never, PERSISTENT_RESOURCE_AGE
      <3> HIDE DEF skip
      <3>5. [write |-> Older(times.write), skip |-> skip] \in ResourceRefTimes
        BY <3>4 DEF ResourceRefTimes, PERSISTENT_RESOURCE_AGE, SKIP_RESOURCE_AGE
      <3>6. QED
        BY <2>2, <3>2, <3>4, <3>5 DEF times
    <2>5. QED
      BY <2>3, <2>4
  <1>3. QED
    BY <1>1, <1>2 DEF SkippedSince, PERSISTENT_RESOURCE_AGE

LEMMA TimesPreserved ==
    SkippedSince /\ [InitialContentsNext]_initialContentsVars => SkippedSince'
  <1> SUFFICES ASSUME SkippedSince, [InitialContentsNext]_initialContentsVars PROVE SkippedSince'
    OBVIOUS
  <1>1. CASE UNCHANGED <<m_ResourceRefTimes, kept>>
    BY <1>1 DEF SkippedSince
  <1>2. ASSUME NEW r \in Resources, Create(r) PROVE SkippedSince'
    <2>1. CASE Parent[r] = NoParent
      BY <1>1, <1>2, <2>1 DEF Create
    <2>2. CASE Parent[r] # NoParent
      <3>1. /\ m_ResourceRefTimes' = UpdateLastWriteTime(r, eFrameRef_ReadBeforeWrite)
            /\ kept' = [kept EXCEPT ![r] = 0]
        BY <1>2, <2>2 DEF Create, MarkResourceFrameReferenced
      <3>2. Keeps(eFrameRef_ReadBeforeWrite) /\ eFrameRef_ReadBeforeWrite \in MarkedRefs
        BY DEF Keeps, IsDirtyFrameRef, MarkedRefs, eFrameRef_ReadBeforeWrite, eFrameRef_None,
               eFrameRef_Read, eFrameRef_CompleteWriteAndDiscard
      <3>3. QED
        BY <3>1, <3>2, WriteTimes
    <2>3. QED
      BY <2>1, <2>2
  <1>3. ASSUME NEW r \in Resources, NEW refType \in SubmittedRefs, QueueSubmit(r, refType)
        PROVE  SkippedSince'
    <2>1. /\ m_ResourceRefTimes' = UpdateLastWriteTime(r, refType)
          /\ kept' = IF Keeps(refType) THEN [kept EXCEPT ![r] = 0] ELSE kept
      BY <1>3 DEF QueueSubmit, MarkResourceFrameReferenced
    <2>2. refType \in MarkedRefs
      BY DEF MarkedRefs
    <2>3. QED
      BY <2>1, <2>2, WriteTimes
  <1>4. ASSUME NEW x \in Resources, Destroy(x) PROVE SkippedSince'
    <2> DEFINE times == [r \in Resources |->
                  IF r \in LowerBound(x) THEN NotListed ELSE m_ResourceRefTimes[r]]
    <2>1. /\ m_ResourceRefTimes' = [r \in Resources |-> times[r]] /\ kept' = kept
          /\ \A r \in Resources : times[r] \in {NotListed, m_ResourceRefTimes[r]}
      BY <1>4 DEF Destroy, ReleaseCurrentResource, worldVars
    <2> HIDE DEF times
    <2>2. QED
      BY <2>1, ForgottenTimes
  <1>5. CASE CleanBackgroundFrameReferences
    <2> DEFINE times == [r \in Resources |->
                  IF /\ m_ResourceRefTimes[r].write > PERSISTENT_RESOURCE_AGE
                     /\ m_ResourceRefTimes[r].skip = Never
                  THEN NotListed ELSE m_ResourceRefTimes[r]]
    <2>1. /\ m_ResourceRefTimes' = [r \in Resources |-> times[r]] /\ kept' = kept
          /\ \A r \in Resources : times[r] \in {NotListed, m_ResourceRefTimes[r]}
      BY <1>5 DEF CleanBackgroundFrameReferences, worldVars
    <2> HIDE DEF times
    <2>2. QED
      BY <2>1, ForgottenTimes
  <1>6. CASE Tick
    BY <1>6, TickTimes
  <1>7. CASE FinishFrameCapture
    <2> DEFINE times == [r \in Resources |->
                  IF r \in old \/ m_ResourceRefTimes[r] = NotListed THEN m_ResourceRefTimes[r]
                  ELSE [m_ResourceRefTimes[r] EXCEPT !.write = 0]]
    <2>1. /\ m_ResourceRefTimes' = [r \in Resources |-> times[r]] /\ kept' = kept
          /\ \A r \in Resources : \/ times[r] \in {NotListed, m_ResourceRefTimes[r]}
                                  \/ /\ m_ResourceRefTimes[r] # NotListed
                                     /\ times[r] = [m_ResourceRefTimes[r] EXCEPT !.write = 0]
      BY <1>7 DEF FinishFrameCapture, ResetLastWriteTimes, worldVars
    <2> HIDE DEF times
    <2>2. QED
      BY <2>1, ForgottenTimes
  <1>8. CASE \/ StartFrameCapture \/ PrepareInitialContents \/ BeginActiveCapture
             \/ EndFrameCapture \/ DiscardFrameCapture \/ InsertReferencedChunks
             \/ InsertInitialContentsChunks \/ Serialise_InitialContentsNeeded
             \/ UNCHANGED initialContentsVars
    <2>1. UNCHANGED <<m_ResourceRefTimes, kept>>
      BY <1>8 DEF StartFrameCapture, PrepareInitialContents, BeginActiveCapture, EndFrameCapture,
                  DiscardFrameCapture, InsertReferencedChunks, InsertInitialContentsChunks,
                  Serialise_InitialContentsNeeded, initialContentsVars, managerVars, worldVars
    <2>2. QED
      BY <1>1, <2>1
  <1>9. QED
    BY <1>2, <1>3, <1>4, <1>5, <1>6, <1>7, <1>8 DEF InitialContentsNext

LEMMA TimesBegin == InitialContentsInit => SkippedSince
  <1> SUFFICES ASSUME InitialContentsInit PROVE SkippedSince
    OBVIOUS
  <1>1. NotListed.skip = -1
    BY DEF NotListed, Never
  <1>2. QED
    BY <1>1 DEF InitialContentsInit, SkippedSince, PERSISTENT_RESOURCE_AGE

LEMMA SkippedLongAgo == RecordsInv /\ SkippedSince => SkippedWasOnlyDiscarded
  <1> SUFFICES ASSUME RecordsInv, SkippedSince, NEW r \in m_CurrentResourceMap, HasSkippableAge(r)
               PROVE  kept[r] >= SKIP_RESOURCE_AGE
    BY DEF SkippedWasOnlyDiscarded
  <1>1. r \in Resources
    BY DEF RecordsInv, ManagerTypes
  <1>2. kept[r] \in Int /\ kept[r] >= m_ResourceRefTimes[r].skip
    BY <1>1 DEF SkippedSince, PERSISTENT_RESOURCE_AGE
  <1>3. m_ResourceRefTimes[r].skip \in Int
    BY <1>1 DEF SkippedSince, ResourceRefTimes, NotListed, Never, SKIP_RESOURCE_AGE
  <1>4. m_ResourceRefTimes[r].skip >= 1
    BY DEF HasSkippableAge, SKIP_RESOURCE_AGE
  <1>5. QED
    BY <1>2, <1>3, <1>4 DEF SKIP_RESOURCE_AGE

\* What the code takes to have been overwritten and discarded for long was
\* (resource_manager.h:790): SkippedWasOnlyDiscarded, of UpdateLastWriteTime,
\* CleanBackgroundFrameReferences, ResetLastWriteTimes and
\* ReleaseCurrentResource, which may erase the times of another resource,
\* whatever the application does.
THEOREM SkippedIsNotMissed == InitialContentsSpec => []SkippedWasOnlyDiscarded
  <1>1. QED
    BY SkippedLongAgo, RecordsAlways, TimesBegin, TimesPreserved, PTL DEF InitialContentsSpec

\* The file of a captured frame holds what every resource that the frame reads
\* or writes in part held when it began, for any resources, memory shared by
\* any images, and submissions of any order, although most contents are
\* fetched late or not at all: ContentsKept, of PrepareInitialContents,
\* SkipOrPostponeOrPrepare_InitialState, ReleaseCurrentResource and
\* InsertInitialContentsChunks.  It needs an application that waits while the
\* file is written and frees memory after the images in it: without either the
\* property is violated.
THEOREM ContentsStay ==
    ASSUME Hazards = {}
    PROVE  InitialContentsSpec => []ContentsKept
  <1>1. InitialContentsSpec => []ContentsInv
    BY RecordsBegin, RecordsPreserved, ContentsBegin, ContentsPreserved, PTL DEF InitialContentsSpec
  <1>2. ContentsInv /\ SkippedWasOnlyDiscarded => ContentsKept
    BY DEF ContentsInv, ContentsKept
  <1>3. QED
    BY <1>1, <1>2, SkippedIsNotMissed, PTL

-----------------------------------------------------------------------------
(* Types of what the proofs above did not need.                            *)

LineageBody(f, r) == {r} \cup (IF Parent[r] = NoParent THEN {} ELSE f[Parent[r]])

IsLineage(f) == f = [r \in Resources |-> LineageBody(f, r)]

\* The recursion ends, as parents have smaller ids.
LEMMA LineageIs == \A r \in Resources : Lineage[r] = LineageBody(Lineage, r)
  <1>1. PICK N \in Nat : \A r \in Resources : r <= N
    BY ResourcesAreBounded
  <1> DEFINE UpTo(f, n) == \A r \in Resources : r <= n => f[r] = LineageBody(f, r)
             Defined == {n \in Nat : \E f : f = [r \in Resources |-> f[r]] /\ UpTo(f, n)}
  <1>2. 0 \in Defined
    <2>1. \A r \in Resources : ~(r <= 0)
      BY ResourcesAreBounded
    <2>2. UpTo([r \in Resources |-> 0], 0)
      BY <2>1
    <2>3. [r \in Resources |-> 0] = [r \in Resources |-> [q \in Resources |-> 0][r]]
      OBVIOUS
    <2> HIDE DEF UpTo
    <2>4. QED
      BY <2>2, <2>3
  <1>3. ASSUME NEW n \in Nat, n \in Defined
        PROVE  n + 1 \in Defined
    <2>1. PICK f : UpTo(f, n)
      BY <1>3
    <2> DEFINE g == [r \in Resources |-> LineageBody(f, r)]
    <2>2. ASSUME NEW r \in Resources, r <= n + 1
          PROVE  LineageBody(g, r) = LineageBody(f, r)
      <3>1. Parent[r] # NoParent => g[Parent[r]] = f[Parent[r]]
        <4>1. Parent[r] # NoParent => Parent[r] \in Resources /\ Parent[r] < r
          BY ResourcesAssumption
        <4>2. Parent[r] # NoParent => Parent[r] \in Nat /\ r \in Nat
          BY <4>1, ResourcesAreBounded
        <4>3. Parent[r] # NoParent => Parent[r] <= n
          BY <2>2, <4>1, <4>2
        <4>4. QED
          BY <2>1, <4>1, <4>3
      <3> HIDE DEF g
      <3>2. QED
        BY <3>1 DEF LineageBody
    <2>3. UpTo(g, n + 1)
      BY <2>2
    <2>4. g = [r \in Resources |-> g[r]]
      OBVIOUS
    <2> HIDE DEF g, UpTo
    <2>5. QED
      BY <2>3, <2>4
  <1>4. N \in Defined
    <2> HIDE DEF Defined
    <2>1. QED
      BY <1>1, <1>2, <1>3, CountingUp
  <1>5. \E f : IsLineage(f)
    <2>1. PICK f : f = [r \in Resources |-> f[r]] /\ UpTo(f, N)
      BY <1>4
    <2>2. \A r \in Resources : f[r] = LineageBody(f, r)
      BY <1>1, <2>1
    <2>3. IsLineage(f)
      BY <2>1, <2>2 DEF IsLineage
    <2>4. QED
      BY <2>3
  <1>6. Lineage = CHOOSE f : IsLineage(f)
    BY Zenon DEF Lineage, IsLineage, LineageBody
  <1>7. IsLineage(Lineage)
    BY <1>5, <1>6
  <1>8. QED
    BY <1>7 DEF IsLineage

\* The least one that would not be has a parent that is less.
LEMMA LineageType == \A r \in Resources : Lineage[r] \subseteq Resources
  <1> DEFINE T == {r \in Resources : ~(Lineage[r] \subseteq Resources)}
  <1>1. ASSUME T # {} PROVE FALSE
    <2>1. T \subseteq Nat
      BY ResourcesAreBounded
    <2>2. PICK r \in T : \A q \in T : r <= q
      BY <1>1, <2>1, LeastNumber
    <2>3. r \in Resources /\ r \in Nat
      BY <2>1, <2>2
    <2>4. Parent[r] # NoParent => Parent[r] \in Resources /\ Parent[r] < r /\ Parent[r] \in Nat
      BY <2>3, ResourcesAssumption, ResourcesAreBounded
    <2>5. Parent[r] # NoParent => Lineage[Parent[r]] \subseteq Resources
      BY <2>2, <2>3, <2>4
    <2>6. Lineage[r] = {r} \cup (IF Parent[r] = NoParent THEN {} ELSE Lineage[Parent[r]])
      BY <2>3, LineageIs DEF LineageBody
    <2>7. QED
      BY <2>2, <2>3, <2>5, <2>6
  <1>2. QED
    BY <1>1

FileTypes ==
    /\ m_State \in {"BackgroundCapturing", "ActiveCapturing"}
    /\ DataWritten \subseteq Resources /\ old \subseteq Resources
    /\ file \in [chunks : SUBSET Resources, contents : [Resources -> Contents], needed : SUBSET Resources]

LEMMA FileTypesBegin == InitialContentsInit => FileTypes
  BY DEF InitialContentsInit, FileTypes, EmptyFile, Contents

LEMMA FileTypesPreserved ==
    RecordsInv /\ FileTypes /\ [InitialContentsNext]_initialContentsVars => FileTypes'
  <1> SUFFICES ASSUME RecordsInv, FileTypes, [InitialContentsNext]_initialContentsVars PROVE FileTypes'
    OBVIOUS
  <1>1. ManagerTypes /\ Referenced \subseteq Resources /\ Wanted \subseteq Resources
    BY DEF RecordsInv, Referenced, Wanted
  <1>2. CASE UNCHANGED <<m_State, DataWritten, old, file>>
    BY <1>2 DEF FileTypes
  <1>3. ASSUME NEW r \in Resources, Create(r) \/ Destroy(r) PROVE FileTypes'
    BY <1>2, <1>3 DEF Create, Destroy, captureVars
  <1>4. ASSUME NEW r \in Resources, NEW refType \in SubmittedRefs, QueueSubmit(r, refType)
        PROVE  FileTypes'
    <2>1. UNCHANGED <<m_State, DataWritten, file>> /\ old' \subseteq old
      BY <1>4 DEF QueueSubmit
    <2>2. QED
      BY <2>1 DEF FileTypes
  <1>5. CASE CleanBackgroundFrameReferences \/ Tick \/ UNCHANGED initialContentsVars
    BY <1>2, <1>5 DEF CleanBackgroundFrameReferences, Tick, initialContentsVars, captureVars
  <1>6. CASE StartFrameCapture
    <2>1. UNCHANGED <<m_State, DataWritten, file>> /\ old' \subseteq Resources
      BY <1>6 DEF StartFrameCapture
    <2>2. QED
      BY <2>1 DEF FileTypes
  <1>7. CASE PrepareInitialContents
    <2>1. UNCHANGED <<m_State, DataWritten, old>> /\ file' = EmptyFile
      BY <1>7 DEF PrepareInitialContents
    <2>2. QED
      BY <2>1 DEF FileTypes, EmptyFile, Contents
  <1>8. CASE BeginActiveCapture \/ EndFrameCapture
    BY <1>8 DEF BeginActiveCapture, EndFrameCapture, FileTypes
  <1>9. CASE FinishFrameCapture
    BY <1>9 DEF FinishFrameCapture, FileTypes
  <1>10. CASE DiscardFrameCapture
    BY <1>10 DEF DiscardFrameCapture, FileTypes
  <1>11. CASE InsertReferencedChunks
    <2> DEFINE reached == UNION {Lineage[r] : r \in {q \in Wanted : m_ResourceRecords[q] > 0}}
    <2>1. reached \subseteq Resources
      BY <1>1, LineageType
    <2>2. /\ file' = [file EXCEPT !.chunks = reached \ DataWritten]
          /\ DataWritten' = DataWritten \cup reached /\ UNCHANGED <<m_State, old>>
      BY <1>11 DEF InsertReferencedChunks
    <2> HIDE DEF reached
    <2>3. QED
      BY <2>1, <2>2 DEF FileTypes
  <1>12. CASE InsertInitialContentsChunks
    <2> DEFINE held(r) == IF r \notin Serialised THEN "none"
                          ELSE IF r \in m_PostponedResourceIDs THEN Prepare_InitialState(r)
                          ELSE m_InitialContents[r]
    <2>1. \A r \in Resources : held(r) \in Contents
      BY <1>1 DEF ManagerTypes, Contents, Prepare_InitialState
    <2>2. /\ file' = [file EXCEPT !.contents = [r \in Resources |-> held(r)]]
          /\ UNCHANGED <<m_State, old, DataWritten>>
      BY <1>12 DEF InsertInitialContentsChunks
    <2> HIDE DEF held
    <2>3. QED
      BY <2>1, <2>2 DEF FileTypes
  <1>13. CASE Serialise_InitialContentsNeeded
    <2> DEFINE needed == {r \in Referenced : IsDirtyFrameRef(m_FrameReferencedResources[r])} \cup
                         {r \in Wanted : m_InitialContents[r] # "none"}
    <2>1. needed \subseteq Resources
      BY <1>1
    <2>2. file' = [file EXCEPT !.needed = needed] /\ UNCHANGED <<m_State, old, DataWritten>>
      BY <1>13 DEF Serialise_InitialContentsNeeded
    <2> HIDE DEF needed
    <2>3. QED
      BY <2>1, <2>2 DEF FileTypes
  <1>14. QED
    BY <1>3, <1>4, <1>5, <1>6, <1>7, <1>8, <1>9, <1>10, <1>11, <1>12, <1>13 DEF InitialContentsNext

\* Types of the resource manager, whatever is created, submitted, destroyed and
\* captured: references are never counted below zero, and a file has records of
\* resources only, those reached from others included.
THEOREM InitialContentsTypeCorrect == InitialContentsSpec => []InitialContentsTypeOK
  <1>1. RecordsInv /\ FileTypes /\ SkippedSince => InitialContentsTypeOK
    <2>1. SUFFICES ASSUME RecordsInv, FileTypes, SkippedSince PROVE InitialContentsTypeOK
      OBVIOUS
    <2>2. ManagerTypes
      BY <2>1 DEF RecordsInv
    <2>3. m_ResourceRecords \in [Resources -> Nat]
      <3>1. ASSUME NEW r \in Resources PROVE m_ResourceRecords[r] \in Nat
        <4>1. m_ResourceRecords[r] = One(r \in m_CurrentResourceMap) + One(r \in Referenced)
                                       + Cardinality(Bound(r, m_ResourceRecords))
          BY <2>1 DEF RecordsInv, Counted, Users
        <4>2. /\ Cardinality(Bound(r, m_ResourceRecords)) \in Nat
              /\ One(r \in Referenced) \in Nat /\ One(r \in m_CurrentResourceMap) \in Nat
          BY UsersCount DEF One
        <4>3. QED
          BY <4>1, <4>2
      <3>2. QED
        BY <2>2, <3>1 DEF ManagerTypes, RefCounts
    <2>4. {m_CurrentResourceMap, m_DirtyResources, m_PostponedResourceIDs, m_SkippedResourceIDs,
           DataWritten, old, fresh, atStart, changed} \subseteq SUBSET Resources
      BY <2>1, <2>2 DEF ManagerTypes, FileTypes
    <2>5. QED
      BY <2>1, <2>2, <2>3, <2>4 DEF ManagerTypes, FileTypes, SkippedSince, Stages, InitialContentsTypeOK
  <1>2. InitialContentsSpec => []FileTypes
    BY RecordsAlways, FileTypesBegin, FileTypesPreserved, PTL DEF InitialContentsSpec
  <1>3. InitialContentsSpec => []SkippedSince
    BY TimesBegin, TimesPreserved, PTL DEF InitialContentsSpec
  <1>4. QED
    BY <1>1, <1>2, <1>3, RecordsAlways, PTL
================================================================================
