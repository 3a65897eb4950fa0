----------------------------- MODULE MCDebugSession ----------------------------
(* A frame of four draw calls: one with a loop that calls a function of an    *)
(* included file, one without a trace, one without source, and the first      *)
(* again.                                                                     *)
EXTENDS DebugSession

In(line, col, stack) == [loc |-> <<line, col>>, stack |-> stack]

Looped == [source |-> TRUE,
           text   |-> <<Marker(1, "main"), Code, Code, Marker(5, "include"), Code, Code,
                        Marker(3, "main"), Code>>,
           trace  |-> <<In(0, 0, <<"main">>), In(2, 1, <<"main">>), In(3, 1, <<"main">>),
                        In(5, 1, <<"main", "f">>), In(6, 1, <<"main", "f">>), In(3, 1, <<"main">>),
                        In(3, 1, <<"main">>), In(0, 0, <<"main">>), In(8, 1, <<"main">>),
                        In(3, 1, <<"main">>), In(5, 1, <<"main", "f">>), In(3, 1, <<"main">>),
                        In(3, 2, <<"main">>), In(8, 1, <<"main">>)>>]

Disassembled == [source |-> FALSE, text |-> <<>>,
                 trace  |-> <<In(1, 0, <<"main">>), In(4, 0, <<"main", "f">>), In(2, 0, <<"main">>)>>]

MCDebugFrames == {<<Looped, NoTrace, Disassembled, Looped>>, <<NoTrace>>}
MCSourceBreakpoints == {[path |-> "main", line |-> 2], [path |-> "main", line |-> 3],
                        [path |-> "include", line |-> 5], [path |-> "other", line |-> 1]}
===============================================================================
