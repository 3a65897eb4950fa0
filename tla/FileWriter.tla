------------------------------ MODULE FileWriter ------------------------------
(* FileWriter (serialise/streamio.cpp): writes to a file on a thread of its   *)
(* own.  The producer, whoever owns the StreamWriter above it, fills blocks   *)
(* and hands full ones to the thread; the thread writes them and hands them   *)
(* back.  Both keep lists of blocks of their own, and two lists under a spin  *)
(* lock to exchange them.  A writer without a thread writes at once.          *)
(*                                                                            *)
(* A byte is its position in the stream.  A spin lock is held for a few       *)
(* assignments that nothing interrupts, so a critical section is one step;    *)
(* what a thread does to its own lists before or after it belongs to a step   *)
(* with it.  fwrite and fflush may fail, and fwrite after a part.             *)
EXTENDS Integers, SequencesExt

CONSTANTS NumBlocks,   \* blocks of a writer with a thread
          BlockSize,   \* bytes of a block
          Lengths,     \* sizes of the writes
          MaxBytes,    \* bound on the bytes written
          MaxFlushes,  \* bound on the flushes asked for
          MaxFailures  \* bound on the failures of the file system

ASSUME SizesAssumption == {NumBlocks, BlockSize} \subseteq Nat \ {0} /\ Lengths \subseteq Nat \ {0}
ASSUME WriterBoundsAssumption == {MaxBytes, MaxFlushes, MaxFailures} \subseteq Nat

VARIABLES
    m_Thread,                 \* there is a thread
    m_ThreadRunning, m_ThreadKill,
    m_ProducerOwned,          \* the last is the one written to
    m_ConsumerOwned,
    m_PendingForConsumer, m_CompletedFromConsumer, m_Error,   \* under m_Lock
    call, producerPC,         \* what the producer was asked for, and where it is
    left, pending, ret,       \* locals of WriteThreaded: the rest of the data, full blocks, the result
    consumerPC, work, completed, error,                       \* locals of ThreadEntry
    file,                     \* the bytes in the file
    submitted,                \* number of bytes given to Write
    confirmed, lost,          \* bytes at the last successful Flush; some fwrite failed
    flushes, failures

listVars     == <<m_ProducerOwned, m_ConsumerOwned, m_PendingForConsumer, m_CompletedFromConsumer>>
flagVars     == <<m_Thread, m_ThreadRunning, m_ThreadKill>>
callVars     == <<call, producerPC>>
writeVars    == <<left, pending, ret>>
consumerVars == <<consumerPC, work, completed, error>>
diskVars     == <<file, lost, failures>>
countVars    == <<submitted, confirmed, flushes>>
writerVars   == <<listVars, m_Error, flagVars, callVars, writeVars, consumerVars, diskVars, countVars>>

Succeeded    == "Succeeded"
FileIOFailed == "FileIOFailed"
Results      == {Succeeded, FileIOFailed}

\* rdcpair<byte *, uint64_t>, with the bytes up to the offset.
EmptyBlock(base) == [base |-> base, data |-> <<>>]
NoBlock          == EmptyBlock(0)
Room(block)      == BlockSize - Len(block.data)

\* MakeDefault, or MakeThreaded, which returns with the thread started.
WriterInit ==
    /\ m_Thread \in BOOLEAN /\ m_ThreadKill = 0
    /\ m_ThreadRunning = IF m_Thread THEN 1 ELSE 0
    /\ m_ProducerOwned = IF m_Thread THEN [b \in 1 .. NumBlocks |-> EmptyBlock(b)] ELSE <<>>
    /\ m_ConsumerOwned = <<>> /\ m_PendingForConsumer = <<>> /\ m_CompletedFromConsumer = <<>>
    /\ m_Error = Succeeded
    /\ call = "none" /\ producerPC = "idle" /\ left = <<>> /\ pending = <<>> /\ ret = Succeeded
    /\ consumerPC = IF m_Thread THEN "loop" ELSE "ended"
    /\ work = NoBlock /\ completed = <<>> /\ error = Succeeded
    /\ file = <<>> /\ submitted = 0 /\ confirmed = 0 /\ lost = FALSE
    /\ flushes = 0 /\ failures = 0

-------------------------------------------------------------------------------
(* The file.                                                                  *)

\* fwrite of these bytes, with its result: all of them, or a part and an error.
Fwrite(data, result) ==
    \/ /\ result = Succeeded /\ file' = file \o data
       /\ UNCHANGED <<lost, failures>>
    \/ /\ result = FileIOFailed /\ failures < MaxFailures /\ failures' = failures + 1
       /\ lost' = TRUE
       /\ \E n \in 0 .. Len(data) - 1 : file' = file \o SubSeq(data, 1, n)

-------------------------------------------------------------------------------
(* The producer.  A call that fails takes the stream writer into its error    *)
(* state, which deletes the file writer (HandleError): "call" then turns into *)
(* "Delete".                                                                  *)

Idle == producerPC = "idle"

Data(length) == [i \in 1 .. length |-> submitted + i]

Submit(length) ==
    /\ Idle /\ submitted + length <= MaxBytes
    /\ submitted' = submitted + length

\* ~FileWriter: a writer with a thread flushes first.
BeginDelete ==
    /\ call' = "Delete"
    /\ producerPC' = IF m_Thread THEN "flush" ELSE "join"

Return(result) ==
    \/ result = Succeeded /\ call' = "none" /\ producerPC' = "idle"
    \/ result # Succeeded /\ BeginDelete

\* Write without a thread.
WriteUnthreaded(length) ==
    /\ ~m_Thread /\ Submit(length)
    /\ \E result \in Results : Fwrite(Data(length), result) /\ Return(result)
    /\ UNCHANGED <<listVars, m_Error, flagVars, writeVars, consumerVars, confirmed, flushes>>

Fits(length) == m_ProducerOwned # <<>> /\ length <= Room(Last(m_ProducerOwned))

\* The block with the data, as the last one of the producer.
Filled(data) == [Last(m_ProducerOwned) EXCEPT !.data = @ \o data]

\* The write fits into the block: it may fill it, and leaves it there.
WriteIntoBlock(length) ==
    /\ m_Thread /\ Submit(length) /\ Fits(length)
    /\ m_ProducerOwned' = Append(Front(m_ProducerOwned), Filled(Data(length)))
    /\ UNCHANGED <<m_ConsumerOwned, m_PendingForConsumer, m_CompletedFromConsumer, m_Error, flagVars,
                   callVars, writeVars, consumerVars, diskVars, confirmed, flushes>>

BeginWrite(length) ==
    /\ m_Thread /\ Submit(length) /\ ~Fits(length)
    /\ call' = "Write" /\ producerPC' = "fill"
    /\ left' = Data(length) /\ ret' = Succeeded
    /\ UNCHANGED <<listVars, m_Error, flagVars, pending, consumerVars, diskVars, confirmed, flushes>>

\* What fits of the data goes into the block, and a full block to "pending".
FillBlock ==
    /\ producerPC = "fill" /\ left # <<>> /\ m_ProducerOwned # <<>>
    /\ LET writeSize == IF Len(left) < Room(Last(m_ProducerOwned)) THEN Len(left)
                        ELSE Room(Last(m_ProducerOwned))
           curBlock  == Filled(SubSeq(left, 1, writeSize))
       IN /\ left' = SubSeq(left, writeSize + 1, Len(left))
          /\ \/ /\ Room(curBlock) = 0
                /\ m_ProducerOwned' = Front(m_ProducerOwned) /\ pending' = Append(pending, curBlock)
             \/ /\ Room(curBlock) > 0
                /\ m_ProducerOwned' = Append(Front(m_ProducerOwned), curBlock) /\ UNCHANGED pending
    /\ UNCHANGED <<m_ConsumerOwned, m_PendingForConsumer, m_CompletedFromConsumer, m_Error, flagVars,
                   callVars, ret, consumerVars, diskVars, countVars>>

\* As TakeCompleted, with the blocks behind the one that is written to.
TakeCompletedBehind ==
    /\ m_ProducerOwned' = m_ProducerOwned \o m_CompletedFromConsumer
    /\ m_CompletedFromConsumer' = <<>>

\* Blocks that came back go in front of the one that is written to.
TakeCompleted ==
    /\ m_ProducerOwned' = m_CompletedFromConsumer \o m_ProducerOwned
    /\ m_CompletedFromConsumer' = <<>>

\* There are no more blocks or no more data: exchange blocks, and again.
ExchangeBlocks ==
    /\ producerPC = "fill" /\ (left = <<>> \/ m_ProducerOwned = <<>>)
    /\ m_PendingForConsumer' = m_PendingForConsumer \o pending /\ pending' = <<>>
    /\ TakeCompleted
    /\ ret' = IF ret = Succeeded THEN m_Error ELSE ret
    /\ \/ left # <<>> /\ UNCHANGED callVars
       \/ left = <<>> /\ Return(ret')
    /\ UNCHANGED <<m_ConsumerOwned, m_Error, flagVars, left, consumerVars, diskVars, countVars>>

BeginFlush ==
    /\ Idle /\ flushes < MaxFlushes /\ flushes' = flushes + 1
    /\ call' = "Flush" /\ producerPC' = "flush"
    /\ UNCHANGED <<listVars, m_Error, flagVars, writeVars, consumerVars, diskVars, submitted, confirmed>>

\* delete m_File.
Delete ==
    /\ Idle /\ BeginDelete
    /\ UNCHANGED <<listVars, m_Error, flagVars, writeVars, consumerVars, diskVars, countVars>>

\* As BlockInUse, for a block without data too.
BlockAtHand == m_ProducerOwned # <<>>

\* The block that is written to has data.
BlockInUse == m_ProducerOwned # <<>> /\ Last(m_ProducerOwned).data # <<>>

\* Flush hands over the block in use.
FlushBlock ==
    /\ producerPC = "flush" /\ producerPC' = "poll"
    /\ \/ /\ BlockInUse
          /\ m_PendingForConsumer' = Append(m_PendingForConsumer, Last(m_ProducerOwned))
          /\ m_ProducerOwned' = Front(m_ProducerOwned)
       \/ /\ ~BlockInUse
          /\ UNCHANGED <<m_PendingForConsumer, m_ProducerOwned>>
    /\ UNCHANGED <<m_ConsumerOwned, m_CompletedFromConsumer, m_Error, flagVars, call, writeVars,
                   consumerVars, diskVars, countVars>>

\* As FlushPoll, content with the first blocks that are back.
FlushPollOnce ==
    /\ producerPC = "poll" /\ m_ThreadRunning = 1
    /\ TakeCompleted
    /\ producerPC' = IF m_ProducerOwned' # <<>> THEN "fflush" ELSE "poll"
    /\ UNCHANGED <<m_ConsumerOwned, m_PendingForConsumer, m_Error, flagVars, call, writeVars,
                   consumerVars, diskVars, countVars>>

\* ... and waits until all the blocks are back.
FlushPoll ==
    /\ producerPC = "poll" /\ m_ThreadRunning = 1
    /\ TakeCompleted
    /\ producerPC' = IF Len(m_ProducerOwned') = NumBlocks THEN "fflush" ELSE "poll"
    /\ UNCHANGED <<m_ConsumerOwned, m_PendingForConsumer, m_Error, flagVars, call, writeVars,
                   consumerVars, diskVars, countVars>>

FlushNoThread ==
    /\ producerPC = "poll" /\ m_ThreadRunning = 0 /\ producerPC' = "fflush"
    /\ UNCHANGED <<listVars, m_Error, flagVars, call, writeVars, consumerVars, diskVars, countVars>>

\* fflush, and the error of whoever failed first.  The destructor ignores it.
FlushFile ==
    /\ producerPC = "fflush"
    /\ \/ UNCHANGED <<m_Error, failures>>
       \/ /\ failures < MaxFailures /\ failures' = failures + 1
          /\ m_Error' = FileIOFailed
    /\ \/ call = "Flush" /\ Return(m_Error')
       \/ call = "Delete" /\ producerPC' = "kill" /\ UNCHANGED call
    /\ confirmed' = IF call = "Flush" /\ m_Error' = Succeeded THEN submitted ELSE confirmed
    /\ UNCHANGED <<listVars, flagVars, writeVars, consumerVars, file, lost, submitted, flushes>>

KillThread ==
    /\ producerPC = "kill" /\ producerPC' = "join" /\ m_ThreadKill' = 1
    /\ UNCHANGED <<listVars, m_Error, m_Thread, m_ThreadRunning, call, writeVars, consumerVars,
                   diskVars, countVars>>

\* A writer without a thread has nothing to wait for.
JoinThread ==
    /\ producerPC = "join" /\ consumerPC = "ended" /\ producerPC' = "deleted" /\ m_Thread' = FALSE
    /\ UNCHANGED <<listVars, m_Error, m_ThreadRunning, m_ThreadKill, call, writeVars, consumerVars,
                   diskVars, countVars>>

\* What the producer does in a call, without being asked for more.
ProducerStep ==
    \/ FillBlock \/ ExchangeBlocks
    \/ FlushBlock \/ FlushPoll \/ FlushNoThread \/ FlushFile \/ KillThread \/ JoinThread

-------------------------------------------------------------------------------
(* The thread.                                                                *)

ThreadContinues ==
    /\ consumerPC = "loop" /\ m_ThreadKill = 0 /\ consumerPC' = "exchange"
    /\ UNCHANGED <<listVars, m_Error, flagVars, callVars, writeVars, work, completed, error, diskVars,
                   countVars>>

ThreadEnds ==
    /\ consumerPC = "loop" /\ m_ThreadKill = 1 /\ consumerPC' = "ended" /\ m_ThreadRunning' = 0
    /\ UNCHANGED <<listVars, m_Error, m_Thread, m_ThreadKill, callVars, writeVars, work, completed,
                   error, diskVars, countVars>>

\* Takes the new blocks, gives back those that are done, with the error if one
\* of them failed, and takes the next one to work on.
ThreadExchange ==
    /\ consumerPC = "exchange"
    /\ m_CompletedFromConsumer' = m_CompletedFromConsumer \o completed /\ completed' = <<>>
    /\ m_PendingForConsumer' = <<>>
    /\ m_Error' = IF m_Error = Succeeded THEN error ELSE m_Error
    /\ LET owned == m_ConsumerOwned \o m_PendingForConsumer IN
         \/ /\ owned = <<>> /\ m_ConsumerOwned' = <<>>
            /\ consumerPC' = "loop" /\ UNCHANGED work
         \/ /\ owned # <<>> /\ m_ConsumerOwned' = Tail(owned) /\ work' = Head(owned)
            /\ consumerPC' = IF Head(owned).data = <<>> THEN "loop" ELSE "write"
    /\ UNCHANGED <<m_ProducerOwned, flagVars, callVars, writeVars, error, diskVars, countVars>>

ThreadWrite ==
    /\ consumerPC = "write" /\ consumerPC' = "loop"
    /\ \E result \in Results :
         /\ Fwrite(work.data, result)
         /\ error' = IF error = Succeeded THEN result ELSE error
    /\ completed' = Append(completed, EmptyBlock(work.base)) /\ work' = NoBlock
    /\ UNCHANGED <<listVars, m_Error, flagVars, callVars, writeVars, countVars>>

ConsumerStep == ThreadContinues \/ ThreadEnds \/ ThreadExchange \/ ThreadWrite

-------------------------------------------------------------------------------
WriterNext ==
    \/ \E length \in Lengths : WriteUnthreaded(length) \/ WriteIntoBlock(length) \/ BeginWrite(length)
    \/ BeginFlush \/ Delete
    \/ ProducerStep \/ ConsumerStep

WriterSpec == WriterInit /\ [][WriterNext]_writerVars

\* Both threads are scheduled and get the lock: it is held for a few
\* assignments, and whoever waits for the other sleeps in between.
WriterFairness == WF_writerVars(ProducerStep) /\ WF_writerVars(ConsumerStep)

-------------------------------------------------------------------------------
(* Properties.                                                                *)

\* All the blocks, from the one that is written to back to the one that was
\* written first.
AtWork   == IF work = NoBlock THEN <<>> ELSE <<work>>
OnTheWay == AtWork \o m_ConsumerOwned \o m_PendingForConsumer \o pending
AllBlocks == m_ProducerOwned \o OnTheWay \o completed \o m_CompletedFromConsumer

DataOf(blocks) ==
    LET upTo[n \in 0 .. Len(blocks)] == IF n = 0 THEN <<>> ELSE upTo[n - 1] \o blocks[n].data
    IN  upTo[Len(blocks)]

\* "These blocks are in at most one of the arrays" (streamio.h:309), and in one of
\* them or on the way between two.  Only the block the producer writes to and those
\* on the way have data, the latter always have (a thread that takes an empty one
\* would never return it), and together with the file they have every byte, in its
\* order.
BlocksKept ==
    /\ m_Thread => /\ Len(AllBlocks) = NumBlocks
                   /\ {AllBlocks[i].base : i \in DOMAIN AllBlocks} = 1 .. NumBlocks
    /\ \A i \in DOMAIN AllBlocks : Len(AllBlocks[i].data) \in 0 .. BlockSize
    /\ \A i \in DOMAIN m_ProducerOwned :
         m_ProducerOwned[i].data # <<>> => i = Len(m_ProducerOwned)
    /\ \A block \in ToSet(m_ConsumerOwned \o m_PendingForConsumer \o pending) : block.data # <<>>
    /\ ~lost => file \o DataOf(OnTheWay \o m_ProducerOwned) \o left
                  = [i \in 1 .. submitted |-> i]

Sink == INSTANCE ByteSink WITH accepted <- submitted, stored <- file,
                               closed <- producerPC = "deleted"

\* Through all the lists the writer is a sink: bytes arrive in their order, a
\* flush that succeeds has them in the file, and so has the destructor, as long as
\* nothing fails; a write that failed on the thread makes every later flush fail.
SinkSpec == Sink!Spec

\* Nobody waits for ever: for blocks, for all of them, or for the thread.
CallsReturn == call # "none" ~> (call = "none" \/ producerPC = "deleted")
===============================================================================
