---------------------------- MODULE EventStream ----------------------------
(***************************************************************************)
(* From the chain to a daemon of the node (pkg/events).  The processor of  *)
(* noded follows the chain block by block and pushes the events that       *)
(* concern this node to a redis stream; a consumer in another daemon reads *)
(* the stream as a group of its own and hands the events to a handler.     *)
(*                                                                         *)
(* Every block carries one event here.  The chain is taken to be final:    *)
(* blocks are not replaced.  Redis lives as long as the node is up.        *)
(***************************************************************************)
EXTENDS Integers, Sequences, FiniteSets

CONSTANTS MaxBlocks,   \* bound on the blocks of the chain
          MaxStream,   \* maxStreamLen: a longer stream may be trimmed
          MaxEventRestarts, \* bound on the restarts of noded and of the consumer
          EventFaults, \* what may fail: "rpc", "push", "archive", "file", "ack"
          MaxEventFaults

ASSUME EventAssumption == MaxStream \in Nat

VARIABLES blocks,     \* number of the latest block
          walker,     \* the processor: what it does, up to which head, next block
          lastBlock,       \* FileState.last, 0 if unknown
          stateFile,       \* the state file
          origin,     \* first block whose events are followed
          stream,     \* the redis stream: numbers of the blocks of its events
          trimmed,    \* how many entries were dropped from its start
          groupNext,       \* first entry not read by the group
          unacked,    \* entries read and not acknowledged
          batch,      \* entries the consumer still has to hand over
          handing,       \* the entry it handed over and did not acknowledge yet
          handled,    \* blocks whose event the handler received
          latest,     \* the one it received last
          lossy,      \* an event was dropped by a failure or by trimming
          eventRestarts, eventFaults

walkerVars == <<walker, lastBlock, stateFile, origin>>
groupVars == <<groupNext, unacked, batch, handing, handled, latest>>
eventVars == <<blocks, walkerVars, stream, trimmed, groupVars, lossy,
               eventRestarts, eventFaults>>

NoFile == -1
Empty == -2     \* truncated, not written

Waiting == [at |-> "wait", head |-> 0, block |-> 0]

EventInit ==
    /\ blocks = 1
    /\ walker = Waiting
    /\ lastBlock = 0 /\ stateFile = NoFile /\ origin = 0
    /\ stream = <<>> /\ trimmed = 0
    /\ groupNext = 1 /\ unacked = {} /\ batch = {} /\ handing = 0
    /\ handled = {} /\ latest = 0
    /\ lossy = FALSE /\ eventRestarts = 0 /\ eventFaults = 0

EventFails(what) ==
    /\ what \in EventFaults
    /\ eventFaults < MaxEventFaults
    /\ eventFaults' = eventFaults + 1

NewBlock ==
    /\ blocks < MaxBlocks
    /\ blocks' = blocks + 1
    /\ UNCHANGED <<walkerVars, stream, trimmed, groupVars, lossy, eventRestarts, eventFaults>>
-----------------------------------------------------------------------------
(***************************************************************************)
(* The processor.                                                          *)
(***************************************************************************)
\* FileState.Get: the number in memory, in the file, or the block before the
\* latest.  It panics on a file without content, and noded with it.
StateGet ==
    IF lastBlock # 0 THEN lastBlock ELSE IF stateFile # NoFile THEN stateFile ELSE blocks - 1

\* a head arrives: eventsTo goes over the blocks after the last one processed.
\* Heads rise along a subscription; the first one is that of the chain node
\* connected to, which may lag.  A head announced again stands for a later
\* block without events.
NewHead ==
    /\ walker.at = "wait"
    /\ lastBlock # 0 \/ stateFile # Empty
    /\ \E head \in 1 .. blocks :
         /\ head > walker.head \/ (head = blocks /\ lastBlock # blocks)
         /\ walker' = [at |-> "blocks", head |-> head, block |-> StateGet + 1]
    /\ origin' = IF lastBlock = 0 /\ stateFile = NoFile THEN blocks - 1 ELSE origin
    /\ UNCHANGED <<blocks, lastBlock, stateFile, stream, trimmed, groupVars, lossy,
                   eventRestarts, eventFaults>>

\* the subscription fails
Resubscribe ==
    /\ walker.at = "wait" /\ walker.head # 0
    /\ EventFails("rpc")
    /\ walker' = Waiting
    /\ UNCHANGED <<blocks, lastBlock, stateFile, origin, stream, trimmed, groupVars, lossy,
                   eventRestarts>>

\* mutant: a failure to read a block does not end eventsTo
MutBlockError ==
    /\ walker.at = "blocks"
    /\ walker.block <= walker.head
    /\ EventFails("rpc")
    /\ walker' = [walker EXCEPT !.block = @ + 1]
    /\ UNCHANGED <<blocks, lastBlock, stateFile, origin, stream, trimmed, groupVars, lossy,
                   eventRestarts>>

\* the block cannot be read: eventsTo returns, the head is not committed
BlockError ==
    /\ walker.at = "blocks"
    /\ walker.block <= walker.head
    /\ EventFails("rpc")
    /\ walker' = [Waiting EXCEPT !.head = walker.head]
    /\ UNCHANGED <<blocks, lastBlock, stateFile, origin, stream, trimmed, groupVars, lossy,
                   eventRestarts>>

\* the event of the block is pushed; an error to push it is only logged, and a
\* block that is not in the archive any more is skipped
PushBlock ==
    /\ walker.at = "blocks"
    /\ walker.block <= walker.head
    /\ walker' = [walker EXCEPT !.block = @ + 1]
    /\ \/ /\ stream' = Append(stream, walker.block)
          /\ UNCHANGED <<lossy, eventFaults>>
       \/ /\ EventFails("push") \/ EventFails("archive")
          /\ lossy' = TRUE
          /\ UNCHANGED stream
    /\ UNCHANGED <<blocks, lastBlock, stateFile, origin, trimmed, groupVars, eventRestarts>>

\* FileState.Set: memory first, then the file is truncated and written
SetMemory ==
    /\ walker.at = "blocks"
    /\ walker.block > walker.head
    /\ walker' = [walker EXCEPT !.at = "truncate"]
    /\ lastBlock' = walker.head
    /\ UNCHANGED <<blocks, stateFile, origin, stream, trimmed, groupVars, lossy,
                   eventRestarts, eventFaults>>

TruncateFile ==
    /\ walker.at = "truncate"
    /\ walker' = [walker EXCEPT !.at = "write"]
    /\ stateFile' = Empty
    /\ UNCHANGED <<blocks, lastBlock, origin, stream, trimmed, groupVars, lossy,
                   eventRestarts, eventFaults>>

\* an error ends the subscription; the processor subscribes again
WriteFile ==
    /\ walker.at = "write"
    /\ \/ /\ stateFile' = lastBlock
          /\ walker' = [Waiting EXCEPT !.head = walker.head]
          /\ UNCHANGED eventFaults
       \/ /\ EventFails("file")
          /\ walker' = Waiting
          /\ UNCHANGED stateFile
    /\ UNCHANGED <<blocks, lastBlock, origin, stream, trimmed, groupVars, lossy,
                   eventRestarts>>

NodedRestart ==
    /\ eventRestarts < MaxEventRestarts
    /\ eventRestarts' = eventRestarts + 1
    /\ walker' = Waiting
    /\ lastBlock' = 0
    /\ UNCHANGED <<blocks, stateFile, origin, stream, trimmed, groupVars, lossy, eventFaults>>
-----------------------------------------------------------------------------
(***************************************************************************)
(* The stream and the consumer.                                            *)
(***************************************************************************)
\* XADD MAXLEN drops the oldest entries, read or not
Trim ==
    /\ Len(stream) - trimmed > MaxStream
    /\ trimmed' = trimmed + 1
    /\ lossy' = (lossy \/ trimmed' >= groupNext \/ trimmed' \in unacked)
    /\ groupNext' = IF trimmed' >= groupNext THEN trimmed' + 1 ELSE groupNext
    /\ unacked' = unacked \ {trimmed'}
    /\ UNCHANGED <<blocks, walkerVars, stream, batch, handing, handled, latest,
                   eventRestarts, eventFaults>>

\* pop: first what was read and not acknowledged, then one new entry
Pop ==
    /\ batch = {} /\ handing = 0
    /\ \/ /\ unacked # {}
          /\ batch' = unacked
          /\ UNCHANGED <<groupNext, unacked>>
       \/ /\ unacked = {}
          /\ groupNext <= Len(stream)
          /\ batch' = {groupNext}
          /\ unacked' = {groupNext}
          /\ groupNext' = groupNext + 1
    /\ UNCHANGED <<blocks, walkerVars, stream, trimmed, handing, handled, latest, lossy,
                   eventRestarts, eventFaults>>

\* the handler receives from the channel, in the order of the stream
HandOver ==
    /\ handing = 0
    /\ handing' \in {e \in batch : \A f \in batch : e <= f}
    /\ batch' = batch \ {handing'}
    /\ handled' = handled \cup {stream[handing']}
    /\ latest' = stream[handing']
    /\ UNCHANGED <<blocks, walkerVars, stream, trimmed, groupNext, unacked, lossy,
                   eventRestarts, eventFaults>>

\* mutant: acknowledges to another group
MutAck ==
    /\ handing # 0
    /\ handing' = 0
    /\ UNCHANGED <<blocks, walkerVars, stream, trimmed, groupNext, unacked, batch, handled, latest,
                   lossy, eventRestarts, eventFaults>>

\* an error to acknowledge is only logged
Ack ==
    /\ handing # 0
    /\ handing' = 0
    /\ \/ unacked' = unacked \ {handing} /\ UNCHANGED eventFaults
       \/ EventFails("ack") /\ UNCHANGED unacked
    /\ UNCHANGED <<blocks, walkerVars, stream, trimmed, groupNext, batch, handled, latest, lossy,
                   eventRestarts>>

ConsumerRestart ==
    /\ eventRestarts < MaxEventRestarts
    /\ eventRestarts' = eventRestarts + 1
    /\ batch' = {} /\ handing' = 0
    /\ UNCHANGED <<blocks, walkerVars, stream, trimmed, groupNext, unacked, handled, latest, lossy,
                   eventFaults>>
-----------------------------------------------------------------------------
EventNext ==
    \/ NewBlock \/ Trim
    \/ NewHead \/ Resubscribe \/ BlockError \/ PushBlock \/ SetMemory \/ TruncateFile \/ WriteFile
    \/ NodedRestart
    \/ Pop \/ HandOver \/ Ack \/ ConsumerRestart

EventFairness ==
    /\ WF_eventVars(NewHead) /\ WF_eventVars(PushBlock)
    /\ WF_eventVars(SetMemory \/ TruncateFile \/ WriteFile)
    /\ WF_eventVars(Pop \/ HandOver \/ Ack)

EventSpec == EventInit /\ [][EventNext]_eventVars /\ EventFairness
-----------------------------------------------------------------------------
EventTypeOK ==
    /\ blocks \in 1 .. MaxBlocks
    /\ walker.at \in {"wait", "blocks", "truncate", "write"}
    /\ lastBlock \in 0 .. MaxBlocks /\ stateFile \in {NoFile, Empty} \cup 1 .. MaxBlocks
    /\ stream \in Seq(1 .. MaxBlocks)
    /\ groupNext \in 1 .. Len(stream) + 1
    /\ handled \subseteq 1 .. MaxBlocks

\* noded restarted over a state file without content: Get panics every time
Wedged == lastBlock = 0 /\ stateFile = Empty

\* When the handler received the event of a block, it also received those of
\* all the blocks before it that the processor follows: restarts of either
\* side, failed acknowledgements and heads processed twice repeat events but
\* never leave a gap (eventsTo commits a head only after all of its blocks).
NoGap ==
    lossy \/ \A i \in handled : \A j \in origin + 1 .. i : j \in handled

\* An entry the group has read is not forgotten before the handler received
\* it, at whatever point the consumer stops (consumer acknowledges after the
\* send on the channel).
ReadIsHandled ==
    \A e \in trimmed + 1 .. groupNext - 1 :
        e \in unacked \/ stream[e] \in handled

\* No event is lost on its way to the handler: NoGap and ReadIsHandled.
NothingLost == NoGap /\ ReadIsHandled

\* The event the handler keeps acting on is that of the latest block, although
\* older ones are delivered again after failures, provided none was dropped and
\* the state file has its content.
LatestSeen == lossy \/ Wedged \/ latest = blocks
=============================================================================
