------------------------- MODULE LineBreakpointsMapper -------------------------
(***************************************************************************)
(* Where a line of a source file ended up in the text a shader was         *)
(* compiled from (class RenderDocLineBreakpointsMapper of the JetBrains    *)
(* service).  That text is made of sections of several files, each after a *)
(* line //#line <number> "<path>"; the path may be left out, and the lines *)
(* of a file are numbered from one.                                        *)
(***************************************************************************)
EXTENDS Integers, Sequences

CONSTANT NoPath

\* A line of the text is a marker or anything else, which has no number.
Lines(Paths) == [marker : {TRUE}, line : Nat \ {0}, path : Paths \cup {NoPath}]
                \cup [marker : {FALSE}]

Marker(line, path) == [marker |-> TRUE, line |-> line, path |-> path]
Code == [marker |-> FALSE]

-----------------------------------------------------------------------------
(* The sections of a text, named by the index of their marker.             *)

Sections(text) == {i \in DOMAIN text : text[i].marker}

\* The index after the last line of section i.
SectionEnd(text, i) ==
    CHOOSE j \in i + 1 .. Len(text) + 1 :
        /\ j \in DOMAIN text => text[j].marker
        /\ \A k \in i + 1 .. j - 1 : ~text[k].marker

\* The path of section i is the last that was given.
HasPath(text, i) == \E j \in Sections(text) : j <= i /\ text[j].path # NoPath

SectionPath(text, i) ==
    text[CHOOSE j \in Sections(text) :
            /\ j <= i /\ text[j].path # NoPath
            /\ \A k \in Sections(text) : k <= i /\ text[k].path # NoPath => k <= j].path

\* The last line of the source file in section i.
SourceEnd(text, i) == text[i].line + SectionEnd(text, i) - i - 2

\* try_register_sources_usages_in_file: the sections that are kept in the set of
\* usages of path, which is ordered by their ends and has each end once.
Usages(text, path) ==
    LET usages == {i \in Sections(text) : HasPath(text, i) /\ SectionPath(text, i) = path}
    IN  IF Len(text) = 0 \/ 1 \notin Sections(text) THEN {}
        ELSE {i \in usages : \A j \in usages : j < i => SourceEnd(text, j) # SourceEnd(text, i)}

\* lower_bound in that set.
Found(text, path, line) ==
    {i \in Usages(text, path) :
        /\ line <= SourceEnd(text, i)
        /\ \A j \in Usages(text, path) :
              line <= SourceEnd(text, j) => SourceEnd(text, i) <= SourceEnd(text, j)}

map_source_line(text, path, line) ==
    {i + line - text[i].line + 1 : i \in {i \in Found(text, path, line) : text[i].line <= line}}

-----------------------------------------------------------------------------
(* What the markers mean: line k is a line of a source file.               *)

ComesFrom(text, k, path, line) ==
    \E i \in Sections(text) :
        /\ i < k /\ k < SectionEnd(text, i)
        /\ HasPath(text, i) /\ SectionPath(text, i) = path
        /\ line = text[i].line + k - i - 1

\* No section is empty, and none repeats lines of another, as one would of a
\* file that is included twice.
NothingTwice(text) ==
    /\ \A i \in Sections(text) : SectionEnd(text, i) > i + 1
    /\ \A i, j \in Sections(text) :
          /\ i # j
          /\ HasPath(text, i) /\ HasPath(text, j) /\ SectionPath(text, i) = SectionPath(text, j)
          => SourceEnd(text, i) < text[j].line \/ SourceEnd(text, j) < text[i].line
===============================================================================
