-------------------------------- MODULE Batcher --------------------------------
(***************************************************************************)
(* The batcher of items (pkg/util/batcher.go, timer.go): producers call    *)
(* Add, the goroutine of Start collects items into a batch, and a consumer *)
(* reads finished batches from the channel of Ready, which has one place.  *)
(* A batch is finished when no item came for idleDuration, or              *)
(* timeoutDuration after its first item.                                   *)
(* An armed timer fires: the runtime takes it off its heap, and only then  *)
(* puts the tick into the timer's channel, which has one place (go.mod and *)
(* the Dockerfiles choose Go 1.18 and 1.19).  In between the timer is      *)
(* neither active nor readable: Stop returns false and nothing is drained. *)
(* Items are numbered in the order of their calls of Add.                  *)
(***************************************************************************)
EXTENDS Naturals, Sequences

CONSTANTS
    BufferSizes,   \* the capacities of trigger: 0 for NewBatcher, more for NewBufferedBatcher
    MaxItems,      \* bound: calls of Add
    MaxStarts      \* bound: calls of Start

ASSUME ConstantsAssumption ==
    /\ BufferSizes \subseteq Nat /\ BufferSizes # {}
    /\ MaxItems \in Nat /\ MaxStarts \in Nat

VARIABLES
    bufferSize,     \* the capacity of trigger
    trigger,        \* the items in the channel trigger
    batch,          \* the batch that is being collected
    batchChan,      \* the batches in the channel of Ready
    idleTimer, timeoutTimer,
    running,        \* the goroutine of Start is in its loop
    received,       \* history: the batches the consumer has read
    empties,        \* history: how many finished batches had no item
    overtaken,      \* history: how many calls of StopTimer met a tick on its way
    items, starts   \* how much of each bound is used up

timers == <<idleTimer, timeoutTimer, overtaken>>
vars == <<bufferSize, trigger, batch, batchChan, timers, running, received, empties,
          items, starts>>

-----------------------------------------------------------------------------
\* The ticks of a timer: the one it is armed for, those it has fired and that are on their
\* way, and the one in its channel.
Timer == [armed : 0..1, fired : Nat, ticked : 0..1]
Ticks(timer) == timer.armed + timer.fired + timer.ticked

TypeOK ==
    /\ bufferSize \in BufferSizes
    /\ trigger \in Seq(Nat) /\ batch \in Seq(Nat)
    /\ batchChan \in Seq(Seq(Nat)) /\ Len(batchChan) <= 1
    /\ idleTimer \in Timer /\ timeoutTimer \in Timer
    /\ running \in BOOLEAN
    /\ received \in Seq(Seq(Nat))
    /\ empties \in Nat /\ overtaken \in Nat
    /\ items \in 0..MaxItems /\ starts \in 0..MaxStarts

New == [armed |-> 1, fired |-> 0, ticked |-> 0]

\* NewBatcher and NewBufferedBatcher: both timers expire at once.
Init ==
    /\ bufferSize \in BufferSizes
    /\ trigger = <<>> /\ batch = <<>> /\ batchChan = <<>>
    /\ idleTimer = New /\ timeoutTimer = New
    /\ running = FALSE
    /\ received = <<>>
    /\ empties = 0 /\ overtaken = 0
    /\ items = 0 /\ starts = 0

-----------------------------------------------------------------------------
(***************************************************************************)
(* The timers                                                              *)
(***************************************************************************)
\* Faulty variant: the timer is stopped but its tick is not drained.
StopUndrained(timer) == [timer EXCEPT !.armed = 0]

\* StopTimer: Stop succeeds on an armed timer, and nothing is drained; otherwise the
\* tick that waits, if any, is taken.  What is delivered between Stop and the drain might
\* as well have been before them, so that the two are one step.
StopTimer(timer) ==
    IF timer.armed = 1 THEN [timer EXCEPT !.armed = 0] ELSE [timer EXCEPT !.ticked = 0]

ResetTimer(timer) == [StopTimer(timer) EXCEPT !.armed = 1]

\* 1 if StopTimer takes its default branch while a tick is on its way.
Overtaken(timer) == IF timer.armed = 0 /\ timer.ticked = 0 /\ timer.fired > 0 THEN 1 ELSE 0

\* The runtime takes the timer off its heap, and later sends the tick, if there is room.
Fired(timer) == [armed |-> 0, fired |-> timer.fired + 1, ticked |-> timer.ticked]
Delivered(timer) == [armed |-> timer.armed, fired |-> timer.fired - 1, ticked |-> 1]

IdleFires ==
    /\ idleTimer.armed = 1 /\ idleTimer' = Fired(idleTimer)
    /\ UNCHANGED <<bufferSize, trigger, batch, batchChan, timeoutTimer, overtaken, running,
                   received, empties, items, starts>>

IdleTicks ==
    /\ idleTimer.fired > 0 /\ idleTimer' = Delivered(idleTimer)
    /\ UNCHANGED <<bufferSize, trigger, batch, batchChan, timeoutTimer, overtaken, running,
                   received, empties, items, starts>>

TimeoutFires ==
    /\ timeoutTimer.armed = 1 /\ timeoutTimer' = Fired(timeoutTimer)
    /\ UNCHANGED <<bufferSize, trigger, batch, batchChan, idleTimer, overtaken, running,
                   received, empties, items, starts>>

TimeoutTicks ==
    /\ timeoutTimer.fired > 0 /\ timeoutTimer' = Delivered(timeoutTimer)
    /\ UNCHANGED <<bufferSize, trigger, batch, batchChan, idleTimer, overtaken, running,
                   received, empties, items, starts>>

-----------------------------------------------------------------------------
(***************************************************************************)
(* Start                                                                   *)
(***************************************************************************)
StopTimers(idle, timeout) ==
    /\ idleTimer' = StopTimer(idle) /\ timeoutTimer' = StopTimer(timeout)
    /\ overtaken' = overtaken + Overtaken(idle) + Overtaken(timeout)

\* Faulty variant: the old batch stays.
stopTimersAndKeepBatch(idle, timeout) == StopTimers(idle, timeout) /\ batch' = batch

stopTimersAndInitBatch(idle, timeout) == StopTimers(idle, timeout) /\ batch' = <<>>

\* Faulty variant: the loop begins without a Reset.
StartUnreset ==
    /\ ~running /\ starts < MaxStarts
    /\ running' = TRUE /\ starts' = starts + 1
    /\ batch' = <<>> /\ batchChan' = <<>>
    /\ UNCHANGED <<bufferSize, trigger, timers, received, empties, items>>

\* Reset, and the loop begins.  A batch that nobody has read is thrown away.
Start ==
    /\ ~running /\ starts < MaxStarts
    /\ running' = TRUE /\ starts' = starts + 1
    /\ stopTimersAndInitBatch(idleTimer, timeoutTimer)
    /\ batchChan' = <<>>
    /\ UNCHANGED <<bufferSize, trigger, received, empties, items>>

\* Faulty variant: the timeout is armed with the second item.
CollectLate(item) ==
    /\ batch' = Append(batch, item)
    /\ timeoutTimer' = IF Len(batch) = 1 THEN ResetTimer(timeoutTimer) ELSE timeoutTimer
    /\ idleTimer' = ResetTimer(idleTimer)
    /\ overtaken' = overtaken + Overtaken(idleTimer)
                     + IF Len(batch) = 1 THEN Overtaken(timeoutTimer) ELSE 0

\* case item := <-b.trigger
Collect(item) ==
    /\ batch' = Append(batch, item)
    /\ timeoutTimer' = IF batch = <<>> THEN ResetTimer(timeoutTimer) ELSE timeoutTimer
    /\ idleTimer' = ResetTimer(idleTimer)
    /\ overtaken' = overtaken + Overtaken(idleTimer)
                     + IF batch = <<>> THEN Overtaken(timeoutTimer) ELSE 0

Receive ==
    /\ running /\ trigger # <<>>
    /\ Collect(Head(trigger))
    /\ trigger' = Tail(trigger)
    /\ UNCHANGED <<bufferSize, batchChan, running, received, empties, items, starts>>

\* sendBatch drops the batch if the previous one has not been read.
sendBatch ==
    batchChan' = IF batchChan = <<>> THEN <<batch>> ELSE batchChan

\* A tick has been received; what the timers are then is given.
Finish(idle, timeout) ==
    /\ sendBatch
    /\ stopTimersAndInitBatch(idle, timeout)
    /\ empties' = empties + IF batch = <<>> THEN 1 ELSE 0
    /\ UNCHANGED <<bufferSize, trigger, running, received, items, starts>>

\* case <-b.idleTimer.C
FinishIdle ==
    /\ running /\ idleTimer.ticked = 1
    /\ Finish([idleTimer EXCEPT !.ticked = 0], timeoutTimer)

\* case <-b.timeoutTimer.C
FinishTimeout ==
    /\ running /\ timeoutTimer.ticked = 1
    /\ Finish(idleTimer, [timeoutTimer EXCEPT !.ticked = 0])

\* case <-ctx.Done()
Stop ==
    /\ running /\ running' = FALSE
    /\ StopTimers(idleTimer, timeoutTimer)
    /\ UNCHANGED <<bufferSize, trigger, batch, batchChan, received, empties, items, starts>>

-----------------------------------------------------------------------------
(***************************************************************************)
(* Producers and consumer                                                  *)
(***************************************************************************)
\* Add into a channel with room; with a capacity of 0, to the loop if it waits.
Add ==
    /\ items < MaxItems /\ items' = items + 1
    /\ \/ /\ Len(trigger) < bufferSize
          /\ trigger' = Append(trigger, items + 1)
          /\ UNCHANGED <<batch, timers>>
       \/ /\ bufferSize = 0 /\ running
          /\ Collect(items + 1)
          /\ UNCHANGED trigger
    /\ UNCHANGED <<bufferSize, batchChan, running, received, empties, starts>>

\* Nobody takes the item: Add returns without it.
AddDropped ==
    /\ items < MaxItems /\ items' = items + 1
    /\ Len(trigger) >= bufferSize
    /\ UNCHANGED <<bufferSize, trigger, batch, batchChan, timers, running, received,
                   empties, starts>>

\* The consumer reads from Ready().
Ready ==
    /\ batchChan # <<>>
    /\ received' = Append(received, Head(batchChan))
    /\ batchChan' = Tail(batchChan)
    /\ UNCHANGED <<bufferSize, trigger, batch, timers, running, empties, items, starts>>

Next ==
    \/ IdleFires \/ IdleTicks \/ TimeoutFires \/ TimeoutTicks
    \/ Start \/ Receive \/ FinishIdle \/ FinishTimeout \/ Stop
    \/ Add \/ AddDropped \/ Ready

Spec == Init /\ [][Next]_vars

\* The runtime fires an armed timer and delivers its tick, and the loop takes what is
\* ready.  Nothing is assumed of the idle timer, which every item puts off.
FairSpec ==
    /\ Spec
    /\ WF_vars(TimeoutFires) /\ WF_vars(TimeoutTicks)
    /\ WF_vars(FinishTimeout) /\ WF_vars(Receive)

-----------------------------------------------------------------------------
(***************************************************************************)
(* Properties                                                              *)
(***************************************************************************)
\* A timer of the running loop is armed only while items wait in the batch, also after
\* a restart and although new timers expire at once; and a batch with items is never left
\* without its timers: each is armed, on its way or readable, so that a tick that Collect
\* or a Reset takes away is always replaced.
TimersGuardBatch ==
    running => /\ idleTimer.armed = 1 \/ timeoutTimer.armed = 1 => batch # <<>>
               /\ batch # <<>> => Ticks(idleTimer) > 0 /\ Ticks(timeoutTimer) > 0

\* Of all the ticks that the end of one batch leaves to the next - of new timers, of the
\* timer that lost the race, across stops and restarts - only those that StopTimer met on
\* their way finish an empty batch, and each of them at most one.
EmptyOnlyIfOvertaken == empties <= overtaken

\* What the consumer has read, what waits for it and what is being collected
\* are items in the order of their Add, each of them once.
InOrderOnce ==
    LET all == received \o batchChan \o <<batch, trigger>>
    IN  \A j, k \in DOMAIN all : j <= k =>
            \A m \in DOMAIN all[j], n \in DOMAIN all[k] :
                j < k \/ m < n => all[j][m] < all[k][n]

\* A batch is finished timeoutDuration after its first item at the latest, even
\* if items are still being added, unless the batcher is stopped.
BatchIsFinished == batch # <<>> ~> (batch = <<>> \/ ~running)
=============================================================================
