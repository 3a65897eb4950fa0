-------------------------------- MODULE RDCFile -------------------------------
(* RDCFile (serialise/rdcfile.cpp): a capture file, that is a file header and *)
(* sections, the frame capture first, and the table of the sections that an   *)
(* object in memory keeps while it adds and replaces them in place.           *)
(*                                                                            *)
(* A file is a sequence of cells: one for the file header, some for a section *)
(* header, of which the first has the name and the length of the data, and    *)
(* one for each byte of data.  Offsets count from 0.  A section is written in *)
(* three steps, because whoever writes it may stop in between: WriteSection,  *)
(* the data, and the callbacks of the stream writer when it is deleted.       *)
(* Below the stream writer is a ByteSink: the data arrives in its order, or a *)
(* part of it and the writer may or may not have noticed.                     *)
EXTENDS Integers, SequencesExt, FiniteSets

CONSTANTS
    Paths, TempPath,   \* the files, and the one in the temporary folder
    Names,             \* sections other than the frame capture
    HeaderSize,        \* cells of a section header, of each name
    TextHeaderSize,    \* ... of one that was appended by hand
    SectionLengths,    \* bytes of a section
    MaxSections,       \* bound on the sections written
    MaxTexts,          \* bound on the sections appended by hand
    MaxSectionFailures \* bound on the writes that fail, or in which the process ends

FrameCapture == "FrameCapture"
NoSection    == "none"

ASSUME NamesAssumption == {FrameCapture, NoSection} \cap Names = {} /\ TempPath \in Paths
ASSUME HeaderSizesAssumption ==
    /\ HeaderSize \in [Names \cup {FrameCapture} -> Nat \ {0}] /\ TextHeaderSize \in Nat \ {0}
    /\ \A n \in DOMAIN HeaderSize : TextHeaderSize <= HeaderSize[n]
    /\ SectionLengths \subseteq Nat
ASSUME SectionBoundsAssumption == {MaxSections, MaxTexts, MaxSectionFailures} \subseteq Nat

VARIABLES
    disk,                  \* the cells of each file
    m_Filename, fileError, \* of the object that is open; RDCFile::m_Error
    m_Sections, m_SectionLocations,
    m_CurrentWritingProps, \* name of the section that is written
    closing,               \* what the callbacks of its writer have captured, and the length it has
    sections, texts,       \* number of sections written, and appended by hand
    sectionFailures,
    contents,              \* of each file: the last write of each of its sections
    intact                 \* files that no write failed in

objectVars == <<m_Filename, fileError, m_Sections, m_SectionLocations, m_CurrentWritingProps, closing>>
sectionVars == <<disk, objectVars, sections, texts, sectionFailures, contents, intact>>

Ok     == "Succeeded"
Failed == "Failed"

Cell(kind, name, write, n) == [kind |-> kind, name |-> name, write |-> write, n |-> n]
FileHeader == Cell("file", NoSection, 0, 0)
Junk       == Cell("junk", NoSection, 0, 0)

SizeOf(kind, name) == IF kind = "text" THEN TextHeaderSize ELSE HeaderSize[name]
\* A section header, binary or in text, and the data of a write.
Header(kind, name, length) ==
    [i \in 1 .. SizeOf(kind, name) |->
        IF i = 1 THEN Cell(kind, name, 0, length) ELSE Cell("rest", name, 0, i)]
DataCells(write, length) == [i \in 1 .. length |-> Cell("data", NoSection, write, i)]

-------------------------------------------------------------------------------
(* Files.                                                                     *)

\* Cells from an offset on; reading more than there is reads nothing at all.
Read(cells, offset, length) ==
    IF offset + length <= Len(cells) THEN SubSeq(cells, offset + 1, offset + length)
    ELSE [i \in 1 .. length |-> Junk]

Overwrite(cells, offset, new) ==
    [i \in 1 .. (IF Len(cells) > offset + Len(new) THEN Len(cells) ELSE offset + Len(new)) |->
        IF i \in offset + 1 .. offset + Len(new) THEN new[i - offset]
        ELSE IF i <= Len(cells) THEN cells[i] ELSE Junk]

\* ftruncateat, which may also make the file longer.
TruncateAt(cells, length) == [i \in 1 .. length |-> IF i <= Len(cells) THEN cells[i] ELSE Junk]

\* The loop of Init over the sections: the table of a file, or why there is none.
\* A last section that is cut off goes unnoticed when it is longer than the window
\* of the reader ("lenient"), because SkipBytes then only seeks.
Parsed(cells, lenient) ==
    LET table[offset \in 0 .. Len(cells)] ==
          LET header == cells[offset + 1]
              data   == offset + SizeOf(header.kind, header.name)
              rest   == table[data + header.n]
          IN  IF offset = Len(cells) THEN [error |-> Ok, sections |-> <<>>, locations |-> <<>>]
              ELSE IF header.kind \notin {"binary", "text"} \/ data > Len(cells)
                   THEN [error |-> Failed, sections |-> <<>>, locations |-> <<>>]
              ELSE LET here == [headerOffset |-> offset, dataOffset |-> data, diskLength |-> header.n]
                   IN  IF data + header.n > Len(cells)
                       THEN [error     |-> IF lenient THEN Ok ELSE Failed,
                             sections  |-> <<header.name>>, locations |-> <<here>>]
                       ELSE [error     |-> rest.error,
                             sections  |-> <<header.name>> \o rest.sections,
                             locations |-> <<here>> \o rest.locations]
        all == table[1]
    IN  IF FrameCapture \in ToSet(all.sections) THEN all ELSE [all EXCEPT !.error = Failed]

-------------------------------------------------------------------------------
(* The object.                                                                *)

\* A write, or the process, fails: from then on nothing is promised of the file.
Fail ==
    /\ sectionFailures < MaxSectionFailures /\ sectionFailures' = sectionFailures + 1
    /\ intact' = intact \ {m_Filename}

openFile == disk[m_Filename]

NoClosing == [headerOffset |-> 0, dataOffset |-> 0, oldLength |-> 0, length |-> -1, write |-> 0,
              good |-> TRUE]

NoWrites == [name \in {} |-> 0]

\* A capture is created, in the first of the files.
SectionsInit ==
    /\ m_Filename \in Paths \ {TempPath}
    /\ disk = [p \in Paths |-> IF p = m_Filename THEN <<FileHeader>> ELSE <<>>]
    /\ fileError = Ok /\ m_Sections = <<>> /\ m_SectionLocations = <<>>
    /\ m_CurrentWritingProps = NoSection /\ closing = NoClosing
    /\ sections = 0 /\ texts = 0 /\ sectionFailures = 0
    /\ contents = [p \in Paths |-> NoWrites]
    /\ intact = {m_Filename}

With(writes, name, write, length) ==
    [n \in DOMAIN writes \cup {name} |->
        IF n = name THEN [write |-> write, length |-> length] ELSE writes[n]]
Without(writes, name) == Restrict(writes, DOMAIN writes \ {name})

\* Somebody opens a file: for the first time, again, or after a crash; nothing is
\* left of an object that was writing.
Open(path, lenient) ==
    /\ disk[path] # <<>>
    /\ \/ m_CurrentWritingProps = NoSection /\ UNCHANGED <<sectionFailures, intact>>
       \/ m_CurrentWritingProps # NoSection /\ Fail
    /\ LET table == Parsed(disk[path], lenient) IN
         /\ fileError' = table.error
         /\ m_Sections' = table.sections /\ m_SectionLocations' = table.locations
    /\ m_Filename' = path /\ m_CurrentWritingProps' = NoSection /\ closing' = NoClosing
    /\ UNCHANGED <<disk, sections, texts, contents>>

\* "ASCII allows for easy appending by hand/script": to a file that nobody has open,
\* and that is opened then.
AppendByHand(path, name, length) ==
    /\ texts < MaxTexts /\ texts' = texts + 1
    /\ path \in intact /\ m_CurrentWritingProps = NoSection /\ length > 0
    /\ contents[path] # NoWrites /\ name \notin DOMAIN contents[path]
    /\ LET write == MaxSections + texts'
           cells == disk[path] \o Header("text", name, length) \o DataCells(write, length)
           table == Parsed(cells, FALSE)
       IN /\ disk' = [disk EXCEPT ![path] = cells]
          /\ contents' = [contents EXCEPT ![path] = With(@, name, write, length)]
          /\ m_Filename' = path /\ fileError' = table.error
          /\ m_Sections' = table.sections /\ m_SectionLocations' = table.locations
    /\ UNCHANGED <<m_CurrentWritingProps, closing, sections, sectionFailures, intact>>

CopyFileTo(path) ==
    /\ m_CurrentWritingProps = NoSection /\ path \notin {m_Filename, TempPath}
    /\ disk' = [disk EXCEPT ![path] = openFile] /\ m_Filename' = path
    /\ contents' = [contents EXCEPT ![path] = contents[m_Filename]]
    /\ intact' = IF m_Filename \in intact THEN intact \cup {path} ELSE intact \ {path}
    /\ UNCHANGED <<fileError, m_Sections, m_SectionLocations, m_CurrentWritingProps, closing, sections,
                   texts, sectionFailures>>

-------------------------------------------------------------------------------
(* WriteSection.                                                              *)

SectionIndex(name) == SelectInSeq(m_Sections, LAMBDA s : s = name)

\* The first section must be the frame capture, and they are written one at a time.
MayWrite(name) ==
    /\ fileError = Ok /\ m_CurrentWritingProps = NoSection /\ sections < MaxSections
    /\ m_Sections = <<>> => name = FrameCapture

\* Cells and the header of a section after them are written from an offset on.
BeginSection(offset, cells, name, oldLength) ==
    LET new == cells \o Header("binary", name, 0) IN
    /\ disk' = [disk EXCEPT ![m_Filename] = Overwrite(@, offset, new)]
    /\ m_CurrentWritingProps' = name
    /\ closing' = [NoClosing EXCEPT !.headerOffset = offset + Len(cells),
                                    !.dataOffset = offset + Len(new), !.oldLength = oldLength]

\* When the header cannot be written nothing can be written with this object any
\* more; nobody looks whether what is moved in front of it was.
StartSection(offset, cells, name, oldLength) ==
    \/ /\ BeginSection(offset, cells, name, oldLength)
       /\ UNCHANGED <<fileError, sectionFailures, intact>>
    \/ /\ Fail /\ UNCHANGED fileError
       /\ \E n \in 0 .. Len(cells) - 1 :
            BeginSection(offset, SubSeq(cells, 1, n), name, oldLength)
    \/ /\ Fail /\ fileError' = Failed
       /\ \E n \in 0 .. Len(cells) + HeaderSize[name] - 1 :
            disk' = [disk EXCEPT ![m_Filename] =
                       Overwrite(@, offset, SubSeq(cells \o Header("binary", name, 0), 1, n))]
       /\ UNCHANGED <<m_CurrentWritingProps, closing>>

AppendSection(name) ==
    /\ MayWrite(name) /\ SectionIndex(name) = 0
    /\ StartSection(Len(openFile), <<>>, name, 0)
    /\ UNCHANGED <<m_Filename, m_Sections, m_SectionLocations, sections, texts, contents>>

\* The frame capture is the only section: it is overwritten.
OverwriteFrameCapture ==
    /\ MayWrite(FrameCapture) /\ SectionIndex(FrameCapture) # 0 /\ Len(m_Sections) = 1
    /\ StartSection(m_SectionLocations[1].headerOffset, <<>>, FrameCapture,
                    m_SectionLocations[1].diskLength)
    /\ m_Sections' = <<>> /\ m_SectionLocations' = <<>>
    /\ contents' = [contents EXCEPT ![m_Filename] = NoWrites]
    /\ UNCHANGED <<m_Filename, sections, texts>>

\* There are others: Create makes the temporary file the one of the object, and
\* leaves it open for reading, so that the header of the section cannot be written.
RewriteFrameCapture ==
    /\ MayWrite(FrameCapture) /\ SectionIndex(FrameCapture) # 0 /\ Len(m_Sections) > 1
    /\ disk' = [disk EXCEPT ![TempPath] = <<FileHeader>>]
    /\ m_Filename' = TempPath /\ fileError' = Failed
    /\ m_Sections' = <<>> /\ m_SectionLocations' = <<>>
    /\ contents' = [contents EXCEPT ![TempPath] = NoWrites]
    /\ intact' = intact \ {TempPath}
    /\ UNCHANGED <<m_CurrentWritingProps, closing, sections, texts, sectionFailures>>

SectionSize(loc) == loc.dataOffset - loc.headerOffset + loc.diskLength

\* As MovedUp, with the offsets left as they were.
NotMoved(locations, index, start) == locations

\* The locations from an index on, when the sections follow each other from an offset on.
MovedUp(locations, index, start) ==
    LET offset[i \in index .. Len(locations)] ==
          IF i = index THEN start ELSE offset[i - 1] + SectionSize(locations[i - 1])
    IN  [i \in DOMAIN locations |->
            IF i < index THEN locations[i]
            ELSE [headerOffset |-> offset[i], diskLength |-> locations[i].diskLength,
                  dataOffset   |-> offset[i] + locations[i].dataOffset - locations[i].headerOffset]]

\* What is read of the sections at some locations, headers and data.
CellsOf(cells, locations) ==
    LET upTo[n \in 0 .. Len(locations)] ==
          IF n = 0 THEN <<>>
          ELSE upTo[n - 1] \o Read(cells, locations[n].headerOffset, SectionSize(locations[n]))
    IN  upTo[Len(locations)]

\* Another section that exists: those after it move up, and it is written after them.
ReplaceSection(name) ==
    /\ MayWrite(name) /\ name # FrameCapture /\ SectionIndex(name) # 0
    /\ LET index == SectionIndex(name)
           old   == m_SectionLocations[index]
           kept  == RemoveAt(m_SectionLocations, index)
           moved == CellsOf(openFile, SubSeq(kept, index, Len(kept)))
       IN /\ StartSection(old.headerOffset, moved, name, old.diskLength)
          /\ m_Sections' = RemoveAt(m_Sections, index)
          /\ m_SectionLocations' = MovedUp(kept, index, old.headerOffset)
    /\ contents' = [contents EXCEPT ![m_Filename] = Without(@, name)]
    /\ UNCHANGED <<m_Filename, sections, texts>>

\* The data of the section.  When not all of it arrives, the stream writer counts
\* what it is given after the error only, or never learns of it.
WriteSectionData(length) ==
    /\ m_CurrentWritingProps # NoSection /\ closing.length = -1
    /\ sections' = sections + 1
    /\ \/ /\ disk' = [disk EXCEPT ![m_Filename] =
                        Overwrite(@, closing.dataOffset, DataCells(sections', length))]
          /\ closing' = [closing EXCEPT !.length = length, !.write = sections']
          /\ UNCHANGED <<sectionFailures, intact>>
       \/ /\ Fail
          /\ \E n \in 0 .. length - 1 :
               disk' = [disk EXCEPT ![m_Filename] =
                          Overwrite(@, closing.dataOffset, DataCells(sections', n))]
          /\ closing' \in {[closing EXCEPT !.length = n, !.good = FALSE] : n \in 0 .. length}
    /\ UNCHANGED <<m_Filename, fileError, m_Sections, m_SectionLocations, m_CurrentWritingProps, texts,
                   contents>>

\* As Truncated, without the truncation.
Untruncated(cells) == cells

\* What an old and longer section left at the end of the file goes.
Truncated(cells) ==
    IF closing.oldLength > closing.length
    THEN TruncateAt(cells, closing.dataOffset + closing.length) ELSE cells

\* The callbacks: the section joins the table and its length the header.
CloseSection ==
    /\ closing.length >= 0
    /\ LET name   == m_CurrentWritingProps
           length == closing.length
       IN /\ m_Sections' = Append(m_Sections, name)
          /\ m_SectionLocations' =
               Append(m_SectionLocations, [headerOffset |-> closing.headerOffset,
                                           dataOffset   |-> closing.dataOffset, diskLength |-> length])
          /\ \/ /\ disk' = [disk EXCEPT ![m_Filename] =
                              Truncated(Overwrite(@, closing.headerOffset, Header("binary", name, length)))]
                /\ contents' = IF ~closing.good THEN contents
                               ELSE [contents EXCEPT ![m_Filename] =
                                       With(@, name, closing.write, length)]
                /\ UNCHANGED <<fileError, sectionFailures, intact>>
             \/ /\ Fail /\ fileError' = Failed
                /\ disk' = [disk EXCEPT ![m_Filename] = Truncated(@)]
                /\ UNCHANGED contents
    /\ m_CurrentWritingProps' = NoSection /\ closing' = NoClosing
    /\ UNCHANGED <<m_Filename, sections, texts>>

-------------------------------------------------------------------------------
SectionsNext ==
    \/ \E path \in Paths :
         \/ \E lenient \in BOOLEAN : Open(path, lenient)
         \/ CopyFileTo(path)
         \/ \E name \in Names, length \in SectionLengths : AppendByHand(path, name, length)
    \/ \E name \in Names \cup {FrameCapture} : AppendSection(name) \/ ReplaceSection(name)
    \/ OverwriteFrameCapture \/ RewriteFrameCapture
    \/ \E length \in SectionLengths : WriteSectionData(length)
    \/ CloseSection

SectionsSpec == SectionsInit /\ [][SectionsNext]_sectionVars

-------------------------------------------------------------------------------
(* Properties.                                                                *)

\* The file has this write of a section at a location.
Has(cells, loc, w) ==
    loc.diskLength = w.length /\ Read(cells, loc.dataOffset, w.length) = DataCells(w.write, w.length)

Busy(path) == m_CurrentWritingProps # NoSection /\ m_Filename = path

\* A file in which no write failed has a table that can be read from it, with the
\* last write of every section and nothing else; an object that has it open has the
\* same table.
TableOnDisk ==
    \A path \in intact : ~Busy(path) /\ contents[path] # NoWrites =>
        LET table == Parsed(disk[path], FALSE) IN
        /\ table.error = Ok /\ table.sections[1] = FrameCapture
        /\ IsInjective(table.sections) /\ ToSet(table.sections) = DOMAIN contents[path]
        /\ \A i \in DOMAIN table.sections :
             Has(disk[path], table.locations[i], contents[path][table.sections[i]])
        /\ m_Filename = path /\ fileError = Ok =>
             m_Sections = table.sections /\ m_SectionLocations = table.locations

\* "leave the frame capture (which should dominate file size) on disk where it is"
\* (rdcfile.cpp:1102): whatever is added or replaced after it, wherever that fails or
\* is interrupted, the frame capture stays at the front of the file as it was written.
FrameCaptureStays ==
    \A path \in Paths : FrameCapture \in DOMAIN contents[path] =>
        LET w == contents[path][FrameCapture]
            section == Header("binary", FrameCapture, w.length) \o DataCells(w.write, w.length)
        IN  Read(disk[path], 1, Len(section)) = section

\* What was written last is what the next one who opens the file finds.
SectionsOnDisk == TableOnDisk /\ FrameCaptureStays
===============================================================================
