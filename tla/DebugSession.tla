------------------------------ MODULE DebugSession -----------------------------
(***************************************************************************)
(* Shader debugging in the JetBrains service: a session of one draw call,  *)
(* or of all draw calls of a frame one after another                       *)
(* (RenderDocDebugSession), and the steps through the trace of a draw call *)
(* (RenderDocDrawCallDebugSession).  Between the draw calls a session of a *)
(* frame is in the tree of actions.  The front end sends one command after *)
(* another, and ends the session when its state becomes null.              *)
(***************************************************************************)
EXTENDS LineBreakpointsMapper, SequencesExt

CONSTANTS
    DebugFrames,       \* the frames to debug, each a sequence of draw calls
    SourceBreakpoints, \* lines of source files, for breakpoints
    NoTrace            \* a draw call that cannot be debugged, or has no pixel

\* Where the trace has no line of the source.
NoLoc == <<0, 0>>
Locs  == Nat \X Nat

\* A draw call has the text of its shader, if there is source information, and a
\* trace: of each instruction the line and column, and the functions called.
Draws == [source : BOOLEAN, text : Seq(Lines(STRING)),
          trace  : Seq([loc : Locs, stack : Seq(STRING)])]
HasTrace(draw) == draw # NoTrace
Depth(draw, k) == Len(draw.trace[k].stack)
Returns(draw, k) == k > 1 /\ Depth(draw, k) < Depth(draw, k - 1)

\* A session of a draw call, as far as its trace was stepped through.
Sessions == [draw : Draws, pos : Nat, calltrace : Seq([size : Nat, loc : Locs]),
             callstackSize : Nat, breakpoints : SUBSET (Int \X Int)]

ASSUME SessionsAssumption ==
    /\ DebugFrames \subseteq Seq(Draws \cup {NoTrace})
    /\ SourceBreakpoints \subseteq [path : STRING, line : Nat \ {0}]
    /\ NoTrace \notin Draws \cup Sessions

\* do_source_step gives up at an instruction without a line in a function that
\* was called, or where such a function returns to.  No file is included twice, and
\* a text with markers starts with one.  Lines of a disassembly count from one, and
\* neighbours in it have different ones.  An instruction calls one function, none
\* calls itself, and no two share a line and column.
TextAssumption(text) ==
    NothingTwice(text) /\ (Sections(text) # {} => 1 \in Sections(text))

TraceAssumption(draw, k) ==
    LET loc(i) == draw.trace[i].loc IN
    /\ Depth(draw, k) > 0 /\ (k > 1 => Depth(draw, k) <= Depth(draw, k - 1) + 1)
    /\ draw.source /\ loc(k) = NoLoc => Depth(draw, k) = 1 /\ ~Returns(draw, k)
    /\ draw.source =>
          \A i \in 1 .. k - 1 :
             /\ loc(i) = loc(k)
             /\ \A j \in i .. k : Depth(draw, j) >= Min({Depth(draw, i), Depth(draw, k)})
             => Depth(draw, i) = Depth(draw, k)
    /\ ~draw.source => loc(k) # IF k = 1 THEN NoLoc ELSE loc(k - 1)

ASSUME DebugAssumption ==
    \A frame \in DebugFrames : \A d \in DOMAIN frame :
        HasTrace(frame[d]) =>
            /\ TextAssumption(frame[d].text) /\ (frame[d].source <=> frame[d].text # <<>>)
            /\ \A k \in DOMAIN frame[d].trace : TraceAssumption(frame[d], k)

VARIABLES
    debugFrame, isDrawCallDebug,
    currentAction,       \* the index of a draw call of the frame, or 0
    drawCallSession,     \* the trace debugged, as far as it was stepped through, or NoTrace
    sourceBreakpoints,
    sessionState,        \* what the front end shows, or NotStarted, or Null
    shownSession,        \* the draw call session that the front end has
    lineBreakpoints      \* the breakpoints it has set in the lines of the text

debugVars == <<debugFrame, isDrawCallDebug, currentAction, drawCallSession, sourceBreakpoints,
               sessionState, shownSession, lineBreakpoints>>

NotStarted == [state |-> "not started"]
Null       == [state |-> "null"]

\* A stack, with step index -1 in the tree.
Stack(d, k) == [state |-> "stack", drawCallId |-> d, stepIndex |-> k]
InTree(state) == state.state = "stack" /\ state.stepIndex = -1

DebugInit ==
    /\ debugFrame \in DebugFrames
    /\ isDrawCallDebug \in BOOLEAN
    /\ currentAction = 0 /\ drawCallSession = NoTrace
    /\ sourceBreakpoints \in IF isDrawCallDebug THEN {{}} ELSE SUBSET SourceBreakpoints
    /\ sessionState = NotStarted /\ shownSession = 0 /\ lineBreakpoints = {}

-----------------------------------------------------------------------------
(* Steps in a trace.  A draw call session s is at instruction s.pos, at 0  *)
(* before the first, and beyond the last when it has finished.             *)

NewSession(draw) == [draw |-> draw, pos |-> 0, calltrace |-> <<>>, callstackSize |-> 0,
                     breakpoints |-> {}]

can_perform_step(s) == s.pos <= Len(s.draw.trace)

\* current_instruction stays the last one at the end.
Loc(s) == IF s.pos = 0 \/ s.draw.trace = <<>> THEN NoLoc
          ELSE s.draw.trace[IF can_perform_step(s) THEN s.pos ELSE Len(s.draw.trace)].loc

\* There is one file of source, and -1 stands for the disassembly.
RenderDocBreakpoint(draw, loc) == <<IF draw.source THEN 0 ELSE -1, loc[1]>>

AtBreakpoint(s) == RenderDocBreakpoint(s.draw, Loc(s)) \in s.breakpoints

CallLine(s) == IF s.calltrace = <<>> THEN NoLoc ELSE Last(s.calltrace).loc

\* The last of the calls that is no deeper than size.
Innermost(calls, size) == Max({0} \cup {n \in DOMAIN calls : calls[n].size <= size})

\* The calls to where a step gets, with what they were made at.
CalltraceKept(s, size) ==
    IF size > s.callstackSize THEN Append(s.calltrace, [size |-> size, loc |-> Loc(s)])
    ELSE s.calltrace

Calltrace(s, size) ==
    IF size > s.callstackSize THEN Append(s.calltrace, [size |-> size, loc |-> Loc(s)])
    ELSE SubSeq(s.calltrace, 1, Innermost(s.calltrace, size))

do_instruction_step(s) ==
    IF s.pos >= Len(s.draw.trace)
    THEN [s EXCEPT !.pos = Len(s.draw.trace) + 1, !.calltrace = <<>>, !.callstackSize = 0]
    ELSE LET size == Depth(s.draw, s.pos + 1) IN
         [s EXCEPT !.pos = @ + 1, !.callstackSize = size, !.calltrace = Calltrace(s, size)]

\* The result of a step, and of the commands.
Done(s, ok) == [session |-> s, ok |-> ok]

\* What a loop came to.
Outcome(loop) == Done(loop.session, loop.ok)

\* An iteration of do_source_step gets to t: of what it compares with, the line it
\* started from and the line that the function it is in was called at.
Compared(loop, t) ==
    IF can_perform_step(t) /\ Loc(t) = loop.last THEN [loop EXCEPT !.session = t]
    ELSE IF can_perform_step(t) /\ Loc(t) = loop.call
    THEN [loop EXCEPT !.session = t, !.last = loop.call, !.call = CallLine(t)]
    ELSE [loop EXCEPT !.session = t, !.ok = can_perform_step(t) /\ Loc(t) # NoLoc, !.over = TRUE]

SourceIteration(loop) ==
    IF loop.over THEN loop ELSE Compared(loop, do_instruction_step(loop.session))

\* Each iteration of a loop takes an instruction or more.
Iterations(s) == Len(s.draw.trace) + 1

do_source_step(s) ==
    LET after[n \in 0 .. Iterations(s)] ==
            IF n = 0
            THEN [session |-> s, last |-> Loc(s), call |-> CallLine(s), ok |-> FALSE, over |-> FALSE]
            ELSE SourceIteration(after[n - 1])
    IN  Outcome(after[Iterations(s)])

do_step(s) ==
    IF s.draw.source THEN do_source_step(s)
    ELSE LET t == do_instruction_step(s) IN Done(t, can_perform_step(t) /\ Loc(t) # Loc(s))

\* When the loop of a command ends that began at old.
Stops(command, s, old) ==
    \/ command = "step_into"
    \/ AtBreakpoint(s)
    \/ command = "step_over" /\ Depth(s.draw, s.pos) <= old.callstackSize
    \/ /\ command = "step_out"
       /\ ~s.draw.source \/ ~IsPrefix(s.draw.trace[old.pos].stack, s.draw.trace[s.pos].stack)

AfterStep(command, old, step) ==
    [session |-> step.session, ok |-> step.ok,
     over    |-> ~step.ok \/ Stops(command, step.session, old)]

StepIteration(command, old, loop) ==
    IF loop.over THEN loop ELSE AfterStep(command, old, do_step(loop.session))

StepsUntil(command, s) ==
    LET after[n \in 0 .. Iterations(s)] ==
            IF n = 0 THEN [session |-> s, ok |-> FALSE, over |-> FALSE]
            ELSE StepIteration(command, s, after[n - 1])
    IN  Outcome(after[Iterations(s)])

\* step_into, step_over, step_out and resume of the draw call session.
DrawCall(command, s) ==
    IF \/ s = NoTrace
       \/ command = "resume" /\ s.breakpoints = {}
       \/ command = "step_out" /\ ~can_perform_step(s)
    THEN Done(s, FALSE)
    ELSE StepsUntil(command, s)

-----------------------------------------------------------------------------
(* The draw calls of a frame.                                              *)

\* Disassembly has no text that sources are mapped to.
map_breakpoints_from_sources(draw, breakpoints) ==
    {<<0, k>> : k \in UNION {map_source_line(draw.text, b.path, b.line) : b \in breakpoints}}

\* start_debug_vertex and start_debug_pixel, with the breakpoints so far.
StartDebug(d) ==
    IF debugFrame[d] = NoTrace THEN NoTrace
    ELSE [NewSession(debugFrame[d]) EXCEPT
              !.breakpoints = map_breakpoints_from_sources(debugFrame[d], sourceBreakpoints)]

\* Where a command takes the session: a result with the action it is at.
At(action, result) == [action |-> action, session |-> result.session, ok |-> result.ok]

step_to_next_draw_call(action) ==
    IF action = 0 \/ action = Len(debugFrame) THEN At(0, Done(NoTrace, FALSE))
    ELSE At(action + 1, Done(StartDebug(action + 1), TRUE))

ResumeIteration(loop) ==
    LET resumed == DrawCall("resume", loop.at.session)
        next    == step_to_next_draw_call(loop.at.action)
    IN  IF loop.over THEN loop
        ELSE IF resumed.ok THEN [at |-> At(loop.at.action, resumed), over |-> TRUE]
        ELSE [at |-> next, over |-> ~next.ok]

resume_to_next_not_null_stack(action, s) ==
    LET after[n \in 0 .. Len(debugFrame) + 1] ==
            IF n = 0 THEN [at |-> At(action, Done(s, FALSE)), over |-> FALSE]
            ELSE ResumeIteration(after[n - 1])
    IN  after[Len(debugFrame) + 1].at

Debugging == sessionState.state = "stack"

\* The front end is sent a draw call session with the first stack in it.
SendsFirstOnly(stack) == stack # Null /\ ~Debugging

SendsDrawCall(stack) ==
    stack # Null /\ (Debugging => sessionState.drawCallId # stack.drawCallId)

\* A command leaves the session at "to".
update_session_state(to, stack) ==
    /\ currentAction' = to.action /\ drawCallSession' = to.session
    /\ sessionState' = stack
    /\ shownSession' = IF ~SendsDrawCall(stack) THEN shownSession
                       ELSE IF to.session = NoTrace THEN 0
                       ELSE to.action
    /\ lineBreakpoints' = IF to.action = currentAction THEN lineBreakpoints ELSE {}
    /\ UNCHANGED <<debugFrame, isDrawCallDebug, sourceBreakpoints>>

\* The session stops in the draw call, or with null.
ShowResult(to) == update_session_state(to, IF to.ok THEN Stack(to.action, to.session.pos) ELSE Null)
ShowTree(to)   == update_session_state(to, Stack(to.action, -1))

-----------------------------------------------------------------------------
(* Commands.                                                               *)

\* debug_vertex and debug_pixel.
StartDrawCall ==
    /\ sessionState = NotStarted /\ isDrawCallDebug
    /\ \E d \in DOMAIN debugFrame :
          LET s == IF debugFrame[d] = NoTrace THEN NoTrace ELSE NewSession(debugFrame[d])
          IN  ShowResult(At(IF s = NoTrace THEN 0 ELSE d, DrawCall("step_into", s)))

\* try_debug_vertex and try_debug_pixel.
StartFrame ==
    /\ sessionState = NotStarted /\ ~isDrawCallDebug
    /\ LET debuggable == {d \in DOMAIN debugFrame : debugFrame[d] # NoTrace}
           first      == Min(debuggable)
       IN  ShowResult(IF debuggable = {} THEN At(0, Done(NoTrace, FALSE))
                      ELSE resume_to_next_not_null_stack(first, StartDebug(first)))

\* step_to_next_not_null_stack.
StepIn(command) ==
    /\ Debugging
    /\ LET inDraw == IF InTree(sessionState) /\ command = "step_over" THEN "resume" ELSE command
           result == At(currentAction, DrawCall(inDraw, drawCallSession))
           next   == step_to_next_draw_call(currentAction)
       IN  IF result.ok \/ isDrawCallDebug THEN ShowResult(result)
           ELSE IF ~InTree(sessionState) THEN ShowTree(result)
           ELSE IF next.ok THEN ShowTree(next)
           ELSE ShowResult(next)

StepInto == StepIn("step_into")
StepOver == StepIn("step_over")

\* From the tree it ends the session.
StepOut ==
    /\ Debugging
    /\ LET result == At(currentAction, DrawCall("step_out", drawCallSession)) IN
       IF InTree(sessionState) THEN ShowResult(At(currentAction, Done(drawCallSession, FALSE)))
       ELSE IF result.ok \/ isDrawCallDebug THEN ShowResult(result)
       ELSE ShowTree(result)

Resume ==
    /\ Debugging
    /\ ShowResult(IF isDrawCallDebug THEN At(currentAction, DrawCall("resume", drawCallSession))
                  ELSE resume_to_next_not_null_stack(currentAction, drawCallSession))

-----------------------------------------------------------------------------
(* Breakpoints.  Those of one kind on a line are not told from those of    *)
(* the other when one is removed; here there is only one of them.          *)

Mapped(b) == map_breakpoints_from_sources(drawCallSession.draw, {b})

SharesLine(b) == drawCallSession # NoTrace /\ Mapped(b) \cap lineBreakpoints # {}

SetBreakpoints(sources, lines, breakpoints) ==
    /\ Debugging
    /\ sourceBreakpoints' = sources /\ lineBreakpoints' = lines
    /\ drawCallSession' = IF drawCallSession = NoTrace THEN NoTrace
                          ELSE [drawCallSession EXCEPT !.breakpoints = breakpoints]
    /\ UNCHANGED <<debugFrame, isDrawCallDebug, currentAction, sessionState, shownSession>>

AddSourceBreakpoint(b) ==
    /\ ~SharesLine(b)
    /\ SetBreakpoints(sourceBreakpoints \cup {b}, lineBreakpoints,
                      drawCallSession.breakpoints \cup Mapped(b))

RemoveSourceBreakpoint(b) ==
    /\ ~SharesLine(b)
    /\ SetBreakpoints(sourceBreakpoints \ {b}, lineBreakpoints,
                      drawCallSession.breakpoints \ Mapped(b))

\* A line of the text, or of the disassembly.
AddLineBreakpoint(bp) ==
    /\ bp \notin drawCallSession.breakpoints
    /\ SetBreakpoints(sourceBreakpoints, lineBreakpoints \cup {bp},
                      drawCallSession.breakpoints \cup {bp})

RemoveLineBreakpoint(bp) ==
    /\ bp \in lineBreakpoints
    /\ SetBreakpoints(sourceBreakpoints, lineBreakpoints \ {bp},
                      drawCallSession.breakpoints \ {bp})

\* The lines that the trace executes.
TraceLines(draw) ==
    LET locs == {draw.trace[k].loc : k \in DOMAIN draw.trace}
    IN  {RenderDocBreakpoint(draw, loc) : loc \in locs \ {NoLoc}}

DebugNext ==
    \/ StartDrawCall \/ StartFrame
    \/ StepInto \/ StepOver \/ StepOut \/ Resume
    \/ \E b \in SourceBreakpoints : AddSourceBreakpoint(b) \/ RemoveSourceBreakpoint(b)
    \/ /\ drawCallSession # NoTrace
       /\ \E bp \in TraceLines(drawCallSession.draw) :
             AddLineBreakpoint(bp) \/ RemoveLineBreakpoint(bp)

DebugSpec == DebugInit /\ [][DebugNext]_debugVars

-----------------------------------------------------------------------------
(* Properties.                                                             *)

Pos(s) == IF s = NoTrace THEN 0 ELSE s.pos

\* The trace gets to another line or column with instruction k, and not because a
\* function returns to the middle of it.
Enters(draw, k) ==
    LET loc(i) == IF i = 0 THEN NoLoc ELSE draw.trace[i].loc
        call   == Max({0} \cup {i \in 1 .. k - 1 : Depth(draw, i) < Depth(draw, k - 1)})
    IN  draw.source => /\ loc(k) # NoLoc /\ loc(k) # loc(k - 1)
                       /\ Returns(draw, k) => loc(k) # loc(call)

\* The session is where the front end shows it, where the trace gets to another line
\* or column if there is source, and the front end has the trace and the text of that
\* draw call: it is sent them only with the first state in it (do_source_step,
\* step_to_next_not_null_stack, update_session_state).
FrontEndSeesPosition ==
    Debugging =>
        /\ sessionState.drawCallId = currentAction
        /\ ~InTree(sessionState) =>
              /\ drawCallSession # NoTrace
              /\ sessionState.stepIndex = drawCallSession.pos
              /\ drawCallSession.pos \in DOMAIN drawCallSession.draw.trace
              /\ Enters(drawCallSession.draw, drawCallSession.pos)
        /\ drawCallSession # NoTrace => shownSession = currentAction

DebugTypeOK ==
    /\ currentAction \in 0 .. Len(debugFrame)
    /\ drawCallSession # NoTrace =>
          /\ drawCallSession.draw = debugFrame[currentAction]
          /\ drawCallSession.pos \in 0 .. Len(drawCallSession.draw.trace) + 1
    /\ sourceBreakpoints \subseteq SourceBreakpoints
    /\ sessionState \in {NotStarted, Null} \cup {Stack(d, -1) : d \in DOMAIN debugFrame}
           \cup UNION {{Stack(d, k) : k \in DOMAIN debugFrame[d].trace} :
                       d \in {d \in DOMAIN debugFrame : HasTrace(debugFrame[d])}}
    /\ shownSession \in 0 .. Len(debugFrame)

\* Breakpoints of the user that instruction k is at, if lines are those in the text.
HasBreakpoint(draw, k, sources, lines) ==
    LET line == draw.trace[k].loc[1] IN
    IF draw.source
    THEN <<0, line>> \in lines \/ \E b \in sources : ComesFrom(draw.text, line, b.path, b.line)
    ELSE <<-1, line>> \in lines

\* Instruction k of draw call d is between where the session was and where it gets.
Passed(d, k) ==
    LET after  == IF d = currentAction \/ isDrawCallDebug THEN k > Pos(drawCallSession)
                  ELSE d > currentAction
        before == IF d = currentAction' THEN k < Pos(drawCallSession')
                  ELSE ~isDrawCallDebug /\ (currentAction' = 0 \/ d < currentAction')
    IN  after /\ before

\* No command passes a breakpoint, on the way through functions, to the end of the
\* draw call or through the next ones; step_into passes no line, and step_over none
\* that is not in a function called from where it was.  What resume finds is a
\* breakpoint (do_source_step, the loops of the commands, step_to_next_draw_call).
CommandsStopInTime ==
    [][/\ \A d \in {d \in DOMAIN debugFrame : HasTrace(debugFrame[d])} :
          LET draw  == debugFrame[d]
              lines == IF d = currentAction THEN lineBreakpoints ELSE {}
          IN  \A k \in DOMAIN draw.trace :
                 Passed(d, k) /\ Enters(draw, k) =>
                     /\ ~HasBreakpoint(draw, k, sourceBreakpoints, lines)
                     /\ ~StepInto
                     /\ StepOver /\ ~InTree(sessionState)
                        => Depth(draw, k) > drawCallSession.callstackSize
       /\ Resume /\ Debugging' =>
              HasBreakpoint(drawCallSession.draw, drawCallSession.pos,
                            sourceBreakpoints, lineBreakpoints)'
      ]_debugVars
===============================================================================
