------------------------------ MODULE Reporter ------------------------------
(***************************************************************************)
(* provisiond bills network use (reporter.go).  Every five minutes the     *)
(* counters of the machines go into a round robin database (pkg/rrd),      *)
(* which keeps the increase of a counter in the slot of that time.  Every  *)
(* hour the increases since the last report become a report on a queue on  *)
(* disk, which a pusher sends to the chain.  One counter is modelled.      *)
(***************************************************************************)
EXTENDS Integers, Sequences, FiniteSets, FiniteSetsExt

CONSTANTS SlotWidth,   \* window of the database, in ticks of the clock
          ReportEvery, \* ticks between two reports
          Retention,   \* ticks a slot is kept
          MaxTime,     \* bound: ticks
          MaxTraffic,  \* bound: units of traffic
          MaxReportFaults \* bound: failed calls, failed runs, restarts, counter resets

ASSUME ReporterAssumption ==
    /\ SlotWidth \in Nat \ {0} /\ ReportEvery \in Nat \ {0}
    /\ Retention >= ReportEvery + 2 * SlotWidth

VARIABLES clock,
          counter,      \* what vmd counts for the machine
          lastValue,    \* .last bucket: the value stored last, None at first
          slots,        \* increase by slot
          lastReport,   \* time of the last report on disk, None at first
          metrics,      \* the collection: when the ticker fires, the slot it has
          reporter,     \* Run: where it is, and the start of the next window
          queue,        \* reports on disk, by number
          pusher,       \* the report each pusher has in hand, by pusher
          nextReport,   \* number of the next report
          billed,       \* numbers of the reports on the chain
          amount,       \* amount of every report
          seen,         \* slots whose increase is in a report
          late,         \* slots stored after a report passed them
          traffic,      \* units of traffic so far
          overlapped,   \* a Run ended while its pusher was sending
          reportFaults

reporterVars == <<clock, counter, lastValue, slots, lastReport, metrics, reporter, queue, pusher,
                  nextReport, billed, amount, seen, late, traffic, overlapped, reportFaults>>

None == 0 - 1
SlotOf(t) == (t \div SlotWidth) * SlotWidth
ReporterIdle == 0          \* a pusher with nothing in hand
SentReport(r) == 0 - r   \* a pusher that sent r and has to remove it

ReporterInit ==
    /\ clock \in 0 .. SlotWidth - 1 /\ counter = 0 /\ lastValue = None
    /\ slots = [k \in {} |-> 0] /\ lastReport = None
    /\ metrics = [next |-> clock + SlotWidth, slot |-> None]
    /\ reporter = [at |-> "start", since |-> 0, now |-> 0]
    /\ queue = <<>> /\ pusher = <<ReporterIdle>>
    /\ nextReport = 1 /\ billed = {} /\ amount = <<>>
    /\ seen = {} /\ late = {} /\ traffic = 0
    /\ overlapped = FALSE /\ reportFaults = 0

Fault == reportFaults < MaxReportFaults /\ reportFaults' = reportFaults + 1
-----------------------------------------------------------------------------
\* time passes; a loop that is due goes first, and a collection ends before the
\* ticker fires again (its calls have a deadline)
ReporterTick ==
    /\ clock < MaxTime
    /\ clock + (IF metrics.slot = None THEN 0 ELSE 1) < metrics.next
    /\ reporter.at = "wait" /\ clock < reporter.since + ReportEvery
    /\ clock' = clock + 1
    /\ UNCHANGED <<counter, lastValue, slots, lastReport, metrics, reporter, queue, pusher,
                   nextReport, billed, amount, seen, late, traffic, overlapped, reportFaults>>

\* the machine uses the network
Traffic ==
    /\ traffic < MaxTraffic
    /\ traffic' = traffic + 1 /\ counter' = counter + 1
    /\ UNCHANGED <<clock, lastValue, slots, lastReport, metrics, reporter, queue, pusher,
                   nextReport, billed, amount, seen, late, overlapped, reportFaults>>

\* retain: slots older than the retention go
Retained(now) == {k \in DOMAIN slots : k > SlotOf(now) - Retention}

\* Slot: the ticker fires, the slot of this time is taken
MetricsSlot ==
    /\ metrics.slot = None /\ clock >= metrics.next
    /\ metrics' = [next |-> metrics.next + SlotWidth, slot |-> SlotOf(clock)]
    /\ slots' = [k \in Retained(clock) |-> slots[k]]
    /\ UNCHANGED <<clock, counter, lastValue, lastReport, reporter, queue, pusher, nextReport,
                   billed, amount, seen, late, traffic, overlapped, reportFaults>>

\* the increase Counter stores: a counter below its last value has restarted
Increase == IF counter >= lastValue THEN counter - lastValue ELSE counter

\* the time up to which the counters are in reports
Passed == IF reporter.at = "stamp" THEN reporter.now ELSE reporter.since

\* Counter: the increase replaces what the slot has; a first value has none
MetricsStore ==
    /\ metrics.slot # None
    /\ LET k == metrics.slot IN
         IF lastValue = None THEN UNCHANGED <<slots, seen, late>>
         ELSE /\ slots' = [x \in DOMAIN slots \cup {k} |->
                             IF x = k THEN Increase ELSE slots[x]]
              /\ seen' = seen \ {k}
              /\ late' = IF k < SlotOf(Passed) THEN late \cup {k} ELSE late
    /\ lastValue' = counter
    /\ metrics' = [metrics EXCEPT !.slot = None]
    /\ UNCHANGED <<clock, counter, lastReport, reporter, queue, pusher, nextReport, billed, amount,
                   traffic, overlapped, reportFaults>>

\* vmd does not answer: the slot is left as it is
MetricsFail ==
    /\ metrics.slot # None
    /\ Fault
    /\ metrics' = [metrics EXCEPT !.slot = None]
    /\ UNCHANGED <<clock, counter, lastValue, slots, lastReport, reporter, queue, pusher,
                   nextReport, billed, amount, seen, late, traffic, overlapped>>
-----------------------------------------------------------------------------
Since == IF lastReport = None THEN clock ELSE lastReport

\* Run begins a turn: without a last report the window starts now
ReporterStart ==
    /\ reporter.at = "start"
    /\ lastReport' = Since
    /\ reporter' = [at |-> "wait", since |-> Since, now |-> clock]
    /\ UNCHANGED <<clock, counter, lastValue, slots, metrics, queue, pusher, nextReport, billed,
                   amount, seen, late, traffic, overlapped, reportFaults>>

\* the hour is over: the time of this report is read
ReportNow ==
    /\ reporter.at = "wait" /\ clock >= reporter.since + ReportEvery
    /\ reporter' = [reporter EXCEPT !.at = "report", !.now = clock]
    /\ UNCHANGED <<clock, counter, lastValue, slots, lastReport, metrics, queue, pusher,
                   nextReport, billed, amount, seen, late, traffic, overlapped, reportFaults>>

\* mutant: the window starts after the slot of the last report
MutWindow(since) == {k \in DOMAIN slots : k > SlotOf(since)}

\* Counters: the slots from the one of since on
Window(since) == {k \in DOMAIN slots : k >= SlotOf(since)}

\* the increases become a report on the queue, unless they are all zero
Report ==
    /\ reporter.at = "report"
    /\ LET window == Window(reporter.since)
           use == SumFunctionOnSet(slots, window)
       IN  /\ seen' = seen \cup window
           /\ IF use = 0 THEN UNCHANGED <<queue, nextReport, amount>>
              ELSE /\ queue' = Append(queue, nextReport)
                   /\ nextReport' = nextReport + 1
                   /\ amount' = Append(amount, use)
    /\ reporter' = [reporter EXCEPT !.at = "stamp"]
    /\ UNCHANGED <<clock, counter, lastValue, slots, lastReport, metrics, pusher, billed, late,
                   traffic, overlapped, reportFaults>>

\* setLastReportTime, and the next turn
Stamp ==
    /\ reporter.at = "stamp"
    /\ lastReport' = reporter.now
    /\ slots' = [k \in Retained(clock) |-> slots[k]]
    /\ reporter' = [reporter EXCEPT !.at = "start", !.since = reporter.now]
    /\ UNCHANGED <<clock, counter, lastValue, metrics, queue, pusher, nextReport, billed, amount,
                   seen, late, traffic, overlapped, reportFaults>>

\* Run fails at a step and is started again.  Its collection is cancelled; its
\* pusher ends only when it is back from the call it is in, which may be the
\* wait for a first report.
RunFails ==
    /\ reporter.at # "wait"
    /\ Fault
    /\ reporter' = [reporter EXCEPT !.at = "start", !.since = Since]
    /\ metrics' = [next |-> clock + SlotWidth, slot |-> None]
    /\ \/ /\ pusher[Len(pusher)] = ReporterIdle /\ queue # <<>>
          /\ UNCHANGED <<pusher, overlapped>>
       \/ /\ pusher' = Append(pusher, ReporterIdle)
          /\ overlapped' = TRUE
    /\ UNCHANGED <<clock, counter, lastValue, slots, lastReport, queue, nextReport, billed, amount,
                   seen, late, traffic>>
-----------------------------------------------------------------------------
Pushers == DOMAIN pusher
\* back from pushOne, a pusher of an earlier Run ends
Back(p) == pusher' = IF p < Len(pusher)
                     THEN SubSeq(pusher, 1, p - 1) \o SubSeq(pusher, p + 1, Len(pusher))
                     ELSE [pusher EXCEPT ![p] = ReporterIdle]

\* pushOne looks at the first report
Peek(p) ==
    /\ pusher[p] = ReporterIdle /\ queue # <<>>
    /\ pusher' = [pusher EXCEPT ![p] = queue[1]]
    /\ UNCHANGED <<clock, counter, lastValue, slots, lastReport, metrics, reporter, queue,
                   nextReport, billed, amount, seen, late, traffic, overlapped, reportFaults>>

\* it is sent to the chain; the call may fail, also after the chain took it
Send(p) ==
    /\ pusher[p] > 0
    /\ \/ /\ billed' = billed \cup {pusher[p]}
          /\ pusher' = [pusher EXCEPT ![p] = SentReport(pusher[p])]
          /\ UNCHANGED reportFaults
       \/ /\ Fault
          /\ billed' \in {billed, billed \cup {pusher[p]}}
          /\ Back(p)
    /\ UNCHANGED <<clock, counter, lastValue, slots, lastReport, metrics, reporter, queue,
                   nextReport, amount, seen, late, traffic, overlapped>>

\* and the first report is removed
Dequeue(p) ==
    /\ pusher[p] < 0
    /\ queue' = IF queue = <<>> THEN queue ELSE Tail(queue)
    /\ Back(p)
    /\ UNCHANGED <<clock, counter, lastValue, slots, lastReport, metrics, reporter, nextReport,
                   billed, amount, seen, late, traffic, overlapped, reportFaults>>

\* provisiond restarts; a restart of the machine starts its counter again
ReporterRestart ==
    /\ Fault
    /\ metrics' = [next |-> clock + SlotWidth, slot |-> None]
    /\ reporter' = [at |-> "start", since |-> Since, now |-> clock]
    /\ pusher' = <<ReporterIdle>>
    /\ counter' \in {counter, 0}
    /\ UNCHANGED <<clock, lastValue, slots, lastReport, queue, nextReport, billed, amount, seen,
                   late, traffic, overlapped>>

PusherStep == \E p \in Pushers : Peek(p) \/ Send(p) \/ Dequeue(p)
ReporterStep == ReporterStart \/ ReportNow \/ Report \/ Stamp

ReporterNext ==
    \/ ReporterTick \/ Traffic \/ MetricsSlot \/ MetricsStore \/ MetricsFail
    \/ ReporterStep \/ RunFails \/ PusherStep \/ ReporterRestart

ReporterFairness == WF_reporterVars(PusherStep)

ReporterSpec == ReporterInit /\ [][ReporterNext]_reporterVars /\ ReporterFairness
-----------------------------------------------------------------------------
ReporterTypeOK ==
    /\ clock \in 0 .. MaxTime /\ counter \in Nat /\ lastValue \in Nat \cup {None}
    /\ \A k \in DOMAIN slots : k = SlotOf(k) /\ slots[k] \in Nat
    /\ Range(queue) \subseteq 1 .. nextReport - 1
    /\ Len(amount) = nextReport - 1

\* No increase is skipped: a slot that is in no report yet is in the window of
\* the next one, whatever restarts or fails; except one stored so late that a
\* report of a later slot went before it (Run, report, Counters, getMetrics).
NoneSkipped ==
    \A k \in DOMAIN slots \ seen : k >= SlotOf(reporter.since) \/ k \in late

\* "only removed if report is reported to substrate": a report that left the
\* queue is on the chain, unless a failed Run left a second pusher behind
\* (pushOne, Run).
RemovedIsBilled ==
    overlapped \/ \A r \in 1 .. nextReport - 1 : r \in billed \/ r \in Range(queue)

\* What was used is in a report, and the reports get to the chain: NoneSkipped
\* and RemovedIsBilled.
UseReported == NoneSkipped /\ RemovedIsBilled

\* "Counters return increase in counter value since the given start time": the
\* chain is never told of more traffic than there was (Counters, report).
CountedOnce ==
    SumFunctionOnSet(amount, billed) <= traffic
=============================================================================
