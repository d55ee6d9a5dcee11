----------------------------- MODULE BatcherProofs -----------------------------
(***************************************************************************)
(* Theorems about Batcher, for any capacities of the channel and any       *)
(* number of items and starts.                                             *)
(***************************************************************************)
EXTENDS Batcher, TLAPS

\* New timers may give one tick each, and so may those of a batch with items.
Due == IF starts = 0 \/ (running /\ batch # <<>>) THEN 2 ELSE 0

\* Every empty batch and every tick that may still come is due, or was met by StopTimer on
\* its way.  This is what EmptyOnlyIfOvertaken needs: a batch finished with items takes one
\* tick and stops the other timer, and a batch finished without takes one.
TicksAccounted ==
    /\ empties + Ticks(idleTimer) + Ticks(timeoutTimer) <= overtaken + Due
    /\ starts = 0 => Ticks(idleTimer) > 0 /\ Ticks(timeoutTimer) > 0
    /\ running => starts > 0

BatcherInv == TypeOK /\ TimersGuardBatch /\ TicksAccounted

-----------------------------------------------------------------------------
(***************************************************************************)
(* The timers                                                              *)
(***************************************************************************)
LEMMA TicksType ==
    ASSUME NEW timer \in Timer
    PROVE  Ticks(timer) \in Nat /\ (timer.armed = 1 => Ticks(timer) > 0)
BY DEF Timer, Ticks

\* StopTimer takes one tick away, or there was none, or it is counted.
LEMMA StoppedTimer ==
    ASSUME NEW timer \in Timer
    PROVE  /\ StopTimer(timer) \in Timer /\ StopTimer(timer).armed = 0
           /\ Overtaken(timer) \in Nat
           /\ Ticks(StopTimer(timer)) <= Ticks(timer)
           /\ Ticks(timer) > 0 => Ticks(StopTimer(timer)) + 1 <= Ticks(timer) + Overtaken(timer)
           /\ Ticks(timer) = 0 => Ticks(StopTimer(timer)) = 0
<1>1. CASE timer.armed = 1
    BY <1>1 DEF Timer, StopTimer, Overtaken, Ticks
<1>2. CASE timer.armed # 1
    BY <1>2 DEF Timer, StopTimer, Overtaken, Ticks
<1> QED BY <1>1, <1>2

\* ResetTimer leaves one tick more at most, and none more if there was one.
LEMMA ResetTimerOnce ==
    ASSUME NEW timer \in Timer
    PROVE  /\ ResetTimer(timer) \in Timer /\ ResetTimer(timer).armed = 1 /\ Ticks(ResetTimer(timer)) > 0
           /\ Ticks(ResetTimer(timer)) <= Ticks(timer) + 1
           /\ Ticks(timer) > 0 => Ticks(ResetTimer(timer)) <= Ticks(timer) + Overtaken(timer)
<1>1. /\ ResetTimer(timer) \in Timer /\ ResetTimer(timer).armed = 1
      /\ Ticks(ResetTimer(timer)) = Ticks(StopTimer(timer)) + 1
    <2>1. StopTimer(timer) \in Timer /\ StopTimer(timer).armed = 0
        BY StoppedTimer
    <2> QED BY <2>1 DEF ResetTimer, Timer, Ticks
<1>2. Ticks(timer) \in Nat /\ Ticks(StopTimer(timer)) \in Nat
    BY StoppedTimer, TicksType
<1> QED BY <1>1, <1>2, StoppedTimer, TicksType

\* A tick that fires and is delivered stays one tick, or is dropped.
LEMMA TickOnItsWay ==
    ASSUME NEW timer \in Timer
    PROVE  /\ timer.armed = 1 => /\ Fired(timer) \in Timer /\ Fired(timer).armed = 0
                             /\ Ticks(Fired(timer)) > 0 /\ Ticks(Fired(timer)) = Ticks(timer)
           /\ timer.fired > 0 => /\ Delivered(timer) \in Timer
                                 /\ Delivered(timer).armed = timer.armed
                                 /\ Ticks(Delivered(timer)) > 0
                                 /\ Ticks(Delivered(timer)) <= Ticks(timer)
<1>1. ASSUME timer.armed = 1
      PROVE  /\ Fired(timer) \in Timer /\ Fired(timer).armed = 0
             /\ Ticks(Fired(timer)) > 0 /\ Ticks(Fired(timer)) = Ticks(timer)
    BY <1>1 DEF Timer, Fired, Ticks
<1>2. ASSUME timer.fired > 0
      PROVE  /\ Delivered(timer) \in Timer /\ Delivered(timer).armed = timer.armed
             /\ Ticks(Delivered(timer)) > 0 /\ Ticks(Delivered(timer)) <= Ticks(timer)
    BY <1>2 DEF Timer, Delivered, Ticks
<1> QED BY <1>1, <1>2

\* The loop receives a tick.
LEMMA ReceivedTick ==
    ASSUME NEW timer \in Timer, timer.ticked = 1
    PROVE  /\ [timer EXCEPT !.ticked = 0] \in Timer
           /\ Ticks([timer EXCEPT !.ticked = 0]) + 1 = Ticks(timer)
BY DEF Timer, Ticks

\* StopTimers is given what the timers are; none is armed afterwards.
LEMMA StoppedTimers ==
    ASSUME TypeOK, NEW idle \in Timer, NEW timeout \in Timer, StopTimers(idle, timeout)
    PROVE  /\ idleTimer' \in Timer /\ timeoutTimer' \in Timer /\ overtaken' \in Nat
           /\ idleTimer'.armed = 0 /\ timeoutTimer'.armed = 0
           /\ Ticks(idleTimer') + Ticks(timeoutTimer') - overtaken'
                 <= Ticks(idle) + Ticks(timeout) - overtaken
           /\ Ticks(idle) > 0 /\ Ticks(timeout) > 0 =>
                 Ticks(idleTimer') + Ticks(timeoutTimer') + 2 - overtaken'
                    <= Ticks(idle) + Ticks(timeout) - overtaken
           /\ Ticks(idle) > 0 \/ Ticks(timeout) > 0 =>
                 Ticks(idleTimer') + Ticks(timeoutTimer') + 1 - overtaken'
                    <= Ticks(idle) + Ticks(timeout) - overtaken
<1>1. /\ idleTimer' = StopTimer(idle) /\ timeoutTimer' = StopTimer(timeout)
      /\ overtaken' = overtaken + Overtaken(idle) + Overtaken(timeout) /\ overtaken \in Nat
    BY DEF StopTimers, TypeOK
<1>2. /\ idleTimer' \in Timer /\ idleTimer'.armed = 0 /\ Overtaken(idle) \in Nat
      /\ Ticks(idleTimer') <= Ticks(idle)
      /\ Ticks(idle) > 0 => Ticks(idleTimer') + 1 <= Ticks(idle) + Overtaken(idle)
    BY <1>1, StoppedTimer
<1>3. /\ timeoutTimer' \in Timer /\ timeoutTimer'.armed = 0 /\ Overtaken(timeout) \in Nat
      /\ Ticks(timeoutTimer') <= Ticks(timeout)
      /\ Ticks(timeout) > 0 => Ticks(timeoutTimer') + 1 <= Ticks(timeout) + Overtaken(timeout)
    BY <1>1, StoppedTimer
<1>4. /\ Ticks(idle) \in Nat /\ Ticks(timeout) \in Nat
      /\ Ticks(idleTimer') \in Nat /\ Ticks(timeoutTimer') \in Nat
    BY <1>2, <1>3, TicksType
<1> QED BY <1>1, <1>2, <1>3, <1>4

-----------------------------------------------------------------------------
(***************************************************************************)
(* The invariant                                                           *)
(***************************************************************************)
\* Sequences of sequences, for the provers: a channel or a history of batches.
LEMMA OneMore ==
    ASSUME NEW S, NEW q \in Seq(S), NEW x \in S
    PROVE  /\ Append(q, x) \in Seq(S)
           /\ <<x>> \in Seq(S) /\ Len(<<x>>) = 1
           /\ \A k \in DOMAIN <<x>> : <<x>>[k] = x
OBVIOUS

LEMMA OneLess ==
    ASSUME NEW S, NEW q \in Seq(S), Len(q) <= 1, q # <<>>
    PROVE  Tail(q) = <<>> /\ Head(q) \in S
OBVIOUS

\* The parts of the invariant in numbers.
LEMMA Numbers ==
    ASSUME TypeOK
    PROVE  /\ idleTimer \in Timer /\ timeoutTimer \in Timer
           /\ empties \in Nat /\ overtaken \in Nat /\ starts \in Nat /\ items \in Nat
           /\ Ticks(idleTimer) \in Nat /\ Ticks(timeoutTimer) \in Nat
BY ConstantsAssumption, TicksType DEF TypeOK

\* The runtime moves the ticks of a timer: none is added, and the last one is not lost.
LEMMA TimersMoved ==
    ASSUME BatcherInv, idleTimer' \in Timer, timeoutTimer' \in Timer,
           idleTimer'.armed = 1 => idleTimer.armed = 1,
           timeoutTimer'.armed = 1 => timeoutTimer.armed = 1,
           Ticks(idleTimer') <= Ticks(idleTimer), Ticks(idleTimer) > 0 => Ticks(idleTimer') > 0,
           Ticks(timeoutTimer') <= Ticks(timeoutTimer),
           Ticks(timeoutTimer) > 0 => Ticks(timeoutTimer') > 0,
           UNCHANGED <<bufferSize, trigger, batch, batchChan, overtaken, running, received,
                       empties, items, starts>>
    PROVE  BatcherInv'
<1>1. TypeOK /\ TypeOK'
    BY DEF BatcherInv, TypeOK
<1>2. TimersGuardBatch'
    BY DEF BatcherInv, TimersGuardBatch
<1>3. Ticks(idleTimer') \in Nat /\ Ticks(timeoutTimer') \in Nat
    BY TicksType
<1>4. Due' = Due /\ Due \in {0, 2}
    BY DEF Due
<1>5. TicksAccounted'
    BY <1>1, <1>3, <1>4, Numbers DEF BatcherInv, TicksAccounted
<1> QED BY <1>1, <1>2, <1>5 DEF BatcherInv

\* Collect leaves the item in the batch and both timers set.
LEMMA CollectedItem ==
    ASSUME BatcherInv, running, NEW item \in Nat, Collect(item),
           UNCHANGED <<running, empties, starts>>
    PROVE  /\ idleTimer' \in Timer /\ timeoutTimer' \in Timer /\ overtaken' \in Nat
           /\ batch' \in Seq(Nat) /\ batch' # <<>>
           /\ TimersGuardBatch' /\ TicksAccounted'
<1>1. TypeOK /\ TimersGuardBatch /\ TicksAccounted /\ starts > 0
    BY DEF BatcherInv, TicksAccounted
<1>2. batch \in Seq(Nat) /\ batch' \in Seq(Nat) /\ batch' # <<>>
    <2>1. batch \in Seq(Nat) /\ batch' = Append(batch, item)
        BY <1>1 DEF TypeOK, Collect
    <2> QED BY <2>1
<1>3. /\ idleTimer' \in Timer /\ Ticks(idleTimer') > 0 /\ Ticks(idleTimer') \in Nat
      /\ Overtaken(idleTimer) \in Nat
      /\ Ticks(idleTimer') <= Ticks(idleTimer) + 1
      /\ Ticks(idleTimer) > 0 => Ticks(idleTimer') <= Ticks(idleTimer) + Overtaken(idleTimer)
    BY <1>1, Numbers, ResetTimerOnce, StoppedTimer, TicksType DEF Collect
<1>4. CASE batch = <<>>
    <2>1. /\ timeoutTimer' = ResetTimer(timeoutTimer)
          /\ overtaken' = overtaken + Overtaken(idleTimer) + Overtaken(timeoutTimer)
        BY <1>4 DEF Collect
    <2>2. /\ timeoutTimer' \in Timer /\ Ticks(timeoutTimer') > 0 /\ Ticks(timeoutTimer') \in Nat
          /\ Overtaken(timeoutTimer) \in Nat
          /\ Ticks(timeoutTimer') <= Ticks(timeoutTimer) + 1
          /\ Ticks(timeoutTimer) > 0
                => Ticks(timeoutTimer') <= Ticks(timeoutTimer) + Overtaken(timeoutTimer)
        BY <1>1, <2>1, Numbers, ResetTimerOnce, StoppedTimer, TicksType
    <2>3. Due = 0 /\ Due' = 2
        BY <1>1, <1>2, <1>4 DEF Due
    <2>4. TicksAccounted'
        <3>1. /\ empties + Ticks(idleTimer) + Ticks(timeoutTimer) <= overtaken
              /\ empties' = empties /\ starts' = starts
            BY <1>1, <2>3, Numbers DEF TicksAccounted
        <3>2. empties' + Ticks(idleTimer') + Ticks(timeoutTimer') <= overtaken' + 2
            BY <1>1, <1>3, <2>1, <2>2, <3>1, Numbers
        <3> QED BY <1>1, <2>3, <3>1, <3>2 DEF TicksAccounted
    <2>5. overtaken' \in Nat
        BY <1>1, <1>3, <2>1, <2>2, Numbers
    <2> QED BY <1>2, <1>3, <2>2, <2>4, <2>5 DEF TimersGuardBatch
<1>5. CASE batch # <<>>
    <2>1. timeoutTimer' = timeoutTimer /\ overtaken' = overtaken + Overtaken(idleTimer)
        BY <1>1, <1>3, <1>5, Numbers DEF Collect
    <2>2. Ticks(idleTimer) > 0 /\ Ticks(timeoutTimer) > 0 /\ timeoutTimer' \in Timer
        BY <1>1, <1>5, <2>1, Numbers DEF TimersGuardBatch
    <2>3. Due = 2 /\ Due' = 2
        BY <1>2, <1>5 DEF Due
    <2>4. TicksAccounted'
        <3>1. /\ empties + Ticks(idleTimer) + Ticks(timeoutTimer) <= overtaken + 2
              /\ empties' = empties /\ starts' = starts /\ Ticks(timeoutTimer') = Ticks(timeoutTimer)
            BY <1>1, <2>1, <2>3, Numbers DEF TicksAccounted
        <3>2. empties' + Ticks(idleTimer') + Ticks(timeoutTimer') <= overtaken' + 2
            BY <1>1, <1>3, <2>1, <2>2, <3>1, Numbers
        <3> QED BY <1>1, <2>3, <3>1, <3>2 DEF TicksAccounted
    <2>5. overtaken' \in Nat
        BY <1>1, <1>3, <2>1, Numbers
    <2> QED BY <1>2, <1>3, <2>1, <2>2, <2>4, <2>5 DEF TimersGuardBatch
<1> QED BY <1>4, <1>5

\* The loop has received a tick: it finishes the batch, whose timers were both due, or an
\* empty one, which is the account's next.
LEMMA FinishedBatch ==
    ASSUME BatcherInv, running, NEW idle \in Timer, NEW timeout \in Timer, Finish(idle, timeout),
           Ticks(idle) + Ticks(timeout) + 1 = Ticks(idleTimer) + Ticks(timeoutTimer)
    PROVE  BatcherInv'
<1>1. TypeOK /\ TimersGuardBatch /\ TicksAccounted /\ starts > 0 /\ StopTimers(idle, timeout)
    BY DEF BatcherInv, TicksAccounted, Finish, stopTimersAndInitBatch
<1>2. /\ idleTimer' \in Timer /\ timeoutTimer' \in Timer /\ overtaken' \in Nat
      /\ idleTimer'.armed = 0 /\ timeoutTimer'.armed = 0
      /\ Ticks(idleTimer') \in Nat /\ Ticks(timeoutTimer') \in Nat
    BY <1>1, StoppedTimers, TicksType
<1>3. /\ batch' = <<>> /\ UNCHANGED <<bufferSize, trigger, running, received, items, starts>>
      /\ empties' = empties + IF batch = <<>> THEN 1 ELSE 0
    BY DEF Finish, stopTimersAndInitBatch
<1>4. batchChan' \in Seq(Seq(Nat)) /\ Len(batchChan') <= 1
    <2>1. batchChan \in Seq(Seq(Nat)) /\ Len(batchChan) <= 1 /\ batch \in Seq(Nat)
        BY <1>1 DEF TypeOK
    <2>2. <<batch>> \in Seq(Seq(Nat)) /\ Len(<<batch>>) = 1
        BY <2>1, OneMore
    <2>3. batchChan' = <<batch>> \/ batchChan' = batchChan
        BY DEF Finish, sendBatch
    <2>4. Len(<<batch>>) <= 1
        BY <2>2
    <2> QED BY <2>1, <2>2, <2>3, <2>4, Zenon
<1>5. empties' \in Nat
    BY <1>1, <1>3, Numbers
<1>6. TypeOK'
    BY <1>1, <1>2, <1>3, <1>4, <1>5 DEF TypeOK
<1>7. TimersGuardBatch'
    BY <1>2, <1>3 DEF TimersGuardBatch
<1>8. TicksAccounted'
    <2>1. starts' = starts /\ starts \in Nat /\ Due' = 0
        BY <1>1, <1>3, Numbers DEF Due
    <2>2. Ticks(idle) \in Nat /\ Ticks(timeout) \in Nat
        BY TicksType
    <2>3. CASE batch = <<>>
        <3>1. /\ empties + Ticks(idleTimer) + Ticks(timeoutTimer) <= overtaken
              /\ empties' = empties + 1
            BY <1>1, <1>3, <2>3, Numbers DEF TicksAccounted, Due
        <3>2. Ticks(idleTimer') + Ticks(timeoutTimer') - overtaken'
                 <= Ticks(idle) + Ticks(timeout) - overtaken
            BY <1>1, StoppedTimers
        <3>3. empties' + Ticks(idleTimer') + Ticks(timeoutTimer') <= overtaken' + 0
            BY <1>1, <1>2, <2>2, <3>1, <3>2, Numbers
        <3> QED BY <1>1, <2>1, <3>3 DEF TicksAccounted
    <2>4. CASE batch # <<>>
        <3>1. /\ empties + Ticks(idleTimer) + Ticks(timeoutTimer) <= overtaken + 2
              /\ empties' = empties /\ Ticks(idleTimer) > 0 /\ Ticks(timeoutTimer) > 0
            BY <1>1, <1>3, <2>4, Numbers DEF TicksAccounted, TimersGuardBatch, Due
        <3>2. Ticks(idle) > 0 \/ Ticks(timeout) > 0
            BY <1>1, <2>2, <3>1, Numbers
        <3>3. Ticks(idleTimer') + Ticks(timeoutTimer') + 1 - overtaken'
                 <= Ticks(idle) + Ticks(timeout) - overtaken
            BY <1>1, <3>2, StoppedTimers
        <3>4. empties' + Ticks(idleTimer') + Ticks(timeoutTimer') <= overtaken' + 0
            BY <1>1, <1>2, <2>2, <3>1, <3>3, Numbers
        <3> QED BY <1>1, <2>1, <3>4 DEF TicksAccounted
    <2> QED BY <2>3, <2>4
<1> QED BY <1>6, <1>7, <1>8 DEF BatcherInv

LEMMA BatcherStep == BatcherInv /\ [Next]_vars => BatcherInv'
<1> SUFFICES ASSUME BatcherInv, [Next]_vars
             PROVE  BatcherInv'
    OBVIOUS
<1>0. TypeOK /\ TimersGuardBatch /\ TicksAccounted
    BY DEF BatcherInv
<1>1. CASE IdleFires \/ IdleTicks
    <2>1. /\ idleTimer' \in Timer /\ (idleTimer'.armed = 1 => idleTimer.armed = 1)
          /\ Ticks(idleTimer') <= Ticks(idleTimer) /\ Ticks(idleTimer') > 0
        BY <1>0, <1>1, Numbers, TickOnItsWay DEF IdleFires, IdleTicks
    <2>2. /\ timeoutTimer' \in Timer /\ timeoutTimer' = timeoutTimer
          /\ Ticks(timeoutTimer') <= Ticks(timeoutTimer)
        BY <1>0, <1>1, Numbers DEF IdleFires, IdleTicks
    <2>3. UNCHANGED <<bufferSize, trigger, batch, batchChan, overtaken, running, received,
                      empties, items, starts>>
        BY <1>1 DEF IdleFires, IdleTicks
    <2> QED BY <2>1, <2>2, <2>3, TimersMoved
<1>2. CASE TimeoutFires \/ TimeoutTicks
    <2>1. /\ timeoutTimer' \in Timer /\ (timeoutTimer'.armed = 1 => timeoutTimer.armed = 1)
          /\ Ticks(timeoutTimer') <= Ticks(timeoutTimer) /\ Ticks(timeoutTimer') > 0
        BY <1>0, <1>2, Numbers, TickOnItsWay DEF TimeoutFires, TimeoutTicks
    <2>2. /\ idleTimer' \in Timer /\ idleTimer' = idleTimer
          /\ Ticks(idleTimer') <= Ticks(idleTimer)
        BY <1>0, <1>2, Numbers DEF TimeoutFires, TimeoutTicks
    <2>3. UNCHANGED <<bufferSize, trigger, batch, batchChan, overtaken, running, received,
                      empties, items, starts>>
        BY <1>2 DEF TimeoutFires, TimeoutTicks
    <2> QED BY <2>1, <2>2, <2>3, TimersMoved
<1>3. CASE Start
    <2>1. /\ StopTimers(idleTimer, timeoutTimer) /\ batch' = <<>> /\ batchChan' = <<>>
          /\ running' = TRUE /\ starts' = starts + 1 /\ starts < MaxStarts /\ ~running
          /\ UNCHANGED <<bufferSize, trigger, received, empties, items>>
        BY <1>3 DEF Start, stopTimersAndInitBatch
    <2>2. /\ idleTimer' \in Timer /\ timeoutTimer' \in Timer /\ overtaken' \in Nat
          /\ idleTimer'.armed = 0 /\ timeoutTimer'.armed = 0
          /\ Ticks(idleTimer') \in Nat /\ Ticks(timeoutTimer') \in Nat
        BY <1>0, <2>1, Numbers, StoppedTimers, TicksType
    <2>3. starts' \in 0..MaxStarts /\ starts' > 0
        BY <1>0, <2>1, ConstantsAssumption DEF TypeOK
    <2>4. TypeOK'
        BY <1>0, <2>1, <2>2, <2>3 DEF TypeOK
    <2>5. TimersGuardBatch'
        BY <2>1, <2>2 DEF TimersGuardBatch
    <2>6. TicksAccounted'
        <3>0. empties' = empties
            BY <2>1
        <3>1. Due' = 0
            BY <2>1, <2>3 DEF Due
        <3>2. empties' + Ticks(idleTimer') + Ticks(timeoutTimer') <= overtaken' + 0
            <4>1. CASE starts = 0
                <5>1. /\ Ticks(idleTimer') + Ticks(timeoutTimer') + 2 - overtaken'
                            <= Ticks(idleTimer) + Ticks(timeoutTimer) - overtaken
                      /\ empties + Ticks(idleTimer) + Ticks(timeoutTimer) <= overtaken + 2
                    BY <1>0, <2>1, <4>1, Numbers, StoppedTimers DEF TicksAccounted, Due
                <5> QED BY <1>0, <2>2, <3>0, <5>1, Numbers
            <4>2. CASE starts # 0
                <5>1. /\ Ticks(idleTimer') + Ticks(timeoutTimer') - overtaken'
                            <= Ticks(idleTimer) + Ticks(timeoutTimer) - overtaken
                      /\ empties + Ticks(idleTimer) + Ticks(timeoutTimer) <= overtaken + 0
                    BY <1>0, <2>1, <4>2, Numbers, StoppedTimers DEF TicksAccounted, Due
                <5> QED BY <1>0, <2>2, <3>0, <5>1, Numbers
            <4> QED BY <4>1, <4>2
        <3> QED BY <2>3, <3>1, <3>2 DEF TicksAccounted
    <2> QED BY <2>4, <2>5, <2>6 DEF BatcherInv
<1>4. CASE Receive
    <2>1. Head(trigger) \in Nat /\ Tail(trigger) \in Seq(Nat) /\ Collect(Head(trigger)) /\ running
        BY <1>0, <1>4 DEF Receive, TypeOK
    <2>2. /\ trigger' = Tail(trigger)
          /\ UNCHANGED <<bufferSize, batchChan, running, received, empties, items, starts>>
        BY <1>4 DEF Receive
    <2>3. /\ idleTimer' \in Timer /\ timeoutTimer' \in Timer /\ overtaken' \in Nat
          /\ batch' \in Seq(Nat) /\ TimersGuardBatch' /\ TicksAccounted'
        BY <2>1, <2>2, CollectedItem
    <2>4. TypeOK'
        BY <1>0, <2>1, <2>2, <2>3 DEF TypeOK
    <2> QED BY <2>3, <2>4 DEF BatcherInv
<1>5. CASE FinishIdle
    <2>1. LET idle == [idleTimer EXCEPT !.ticked = 0]
          IN  /\ running /\ idle \in Timer /\ Finish(idle, timeoutTimer)
              /\ Ticks(idle) + 1 = Ticks(idleTimer) /\ Ticks(idle) \in Nat
        BY <1>0, <1>5, Numbers, ReceivedTick, TicksType DEF FinishIdle
    <2>2. LET idle == [idleTimer EXCEPT !.ticked = 0]
          IN  Ticks(idle) + Ticks(timeoutTimer) + 1 = Ticks(idleTimer) + Ticks(timeoutTimer)
        BY <1>0, <2>1, Numbers
    <2> QED BY <1>0, <2>1, <2>2, Numbers, FinishedBatch
<1>6. CASE FinishTimeout
    <2>1. LET timeout == [timeoutTimer EXCEPT !.ticked = 0]
          IN  /\ running /\ timeout \in Timer /\ Finish(idleTimer, timeout)
              /\ Ticks(timeout) + 1 = Ticks(timeoutTimer) /\ Ticks(timeout) \in Nat
        BY <1>0, <1>6, Numbers, ReceivedTick, TicksType DEF FinishTimeout
    <2>2. LET timeout == [timeoutTimer EXCEPT !.ticked = 0]
          IN  Ticks(idleTimer) + Ticks(timeout) + 1 = Ticks(idleTimer) + Ticks(timeoutTimer)
        BY <1>0, <2>1, Numbers
    <2> QED BY <1>0, <2>1, <2>2, Numbers, FinishedBatch
<1>7. CASE Stop
    <2>1. /\ StopTimers(idleTimer, timeoutTimer) /\ running /\ running' = FALSE
          /\ UNCHANGED <<bufferSize, trigger, batch, batchChan, received, empties, items, starts>>
        BY <1>7 DEF Stop
    <2>2. /\ idleTimer' \in Timer /\ timeoutTimer' \in Timer /\ overtaken' \in Nat
          /\ Ticks(idleTimer') \in Nat /\ Ticks(timeoutTimer') \in Nat
        BY <1>0, <2>1, Numbers, StoppedTimers, TicksType
    <2>3. TypeOK'
        BY <1>0, <2>1, <2>2 DEF TypeOK
    <2>4. TimersGuardBatch'
        BY <2>1 DEF TimersGuardBatch
    <2>5. TicksAccounted'
        <3>1. starts > 0 /\ starts' = starts /\ empties' = empties
            BY <1>0, <2>1 DEF TicksAccounted
        <3>2. Due' = 0
            BY <1>0, <2>1, <3>1, Numbers DEF Due
        <3>3. empties' + Ticks(idleTimer') + Ticks(timeoutTimer') <= overtaken' + 0
            <4>1. CASE batch = <<>>
                <5>1. /\ Ticks(idleTimer') + Ticks(timeoutTimer') - overtaken'
                            <= Ticks(idleTimer) + Ticks(timeoutTimer) - overtaken
                      /\ empties + Ticks(idleTimer) + Ticks(timeoutTimer) <= overtaken + 0
                    BY <1>0, <2>1, <3>1, <4>1, Numbers, StoppedTimers DEF TicksAccounted, Due
                <5> QED BY <1>0, <2>1, <2>2, <5>1, Numbers
            <4>2. CASE batch # <<>>
                <5>1. Ticks(idleTimer) > 0 /\ Ticks(timeoutTimer) > 0
                    BY <1>0, <2>1, <4>2 DEF TimersGuardBatch
                <5>2. /\ Ticks(idleTimer') + Ticks(timeoutTimer') + 2 - overtaken'
                            <= Ticks(idleTimer) + Ticks(timeoutTimer) - overtaken
                      /\ empties + Ticks(idleTimer) + Ticks(timeoutTimer) <= overtaken + 2
                    BY <1>0, <2>1, <4>2, <5>1, Numbers, StoppedTimers DEF TicksAccounted, Due
                <5> QED BY <1>0, <2>1, <2>2, <5>2, Numbers
            <4> QED BY <4>1, <4>2
        <3> QED BY <2>1, <3>1, <3>2, <3>3 DEF TicksAccounted
    <2> QED BY <2>3, <2>4, <2>5 DEF BatcherInv
<1>8. CASE Add
    <2>1. /\ items + 1 \in Nat /\ items' \in 0..MaxItems
          /\ UNCHANGED <<bufferSize, batchChan, running, received, empties, starts>>
        BY <1>0, <1>8, ConstantsAssumption DEF Add, TypeOK
    <2>2. CASE trigger' = Append(trigger, items + 1) /\ UNCHANGED <<batch, timers>>
        <3>1. trigger' \in Seq(Nat)
            BY <1>0, <2>1, <2>2 DEF TypeOK
        <3>2. UNCHANGED <<batch, idleTimer, timeoutTimer, overtaken>>
            BY <2>2 DEF timers
        <3> QED BY <1>0, <2>1, <3>1, <3>2
                DEF BatcherInv, TypeOK, TimersGuardBatch, TicksAccounted, Due
    <2>3. CASE running /\ Collect(items + 1) /\ UNCHANGED trigger
        <3>1. /\ idleTimer' \in Timer /\ timeoutTimer' \in Timer /\ overtaken' \in Nat
              /\ batch' \in Seq(Nat) /\ TimersGuardBatch' /\ TicksAccounted'
            BY <2>1, <2>3, CollectedItem
        <3> QED BY <1>0, <2>1, <2>3, <3>1 DEF BatcherInv, TypeOK
    <2> QED BY <1>8, <2>2, <2>3 DEF Add
<1>9. CASE AddDropped
    <2>1. /\ items' \in 0..MaxItems
          /\ UNCHANGED <<bufferSize, trigger, batch, batchChan, timers, running, received,
                         empties, starts>>
        BY <1>0, <1>9, ConstantsAssumption DEF AddDropped, TypeOK
    <2> QED BY <1>0, <2>1
            DEF BatcherInv, timers, TypeOK, TimersGuardBatch, TicksAccounted, Due
<1>10. CASE Ready
    <2>1. batchChan # <<>> /\ batchChan \in Seq(Seq(Nat)) /\ Len(batchChan) <= 1
        BY <1>0, <1>10 DEF Ready, TypeOK
    <2>2. Tail(batchChan) = <<>> /\ Head(batchChan) \in Seq(Nat)
        BY <2>1, OneLess
    <2>3. received \in Seq(Seq(Nat))
        BY <1>0 DEF TypeOK
    <2>4. received' \in Seq(Seq(Nat)) /\ batchChan' = <<>>
        BY <1>10, <2>2, <2>3, OneMore DEF Ready
    <2>5. UNCHANGED <<bufferSize, trigger, batch, idleTimer, timeoutTimer, overtaken, running,
                      empties, items, starts>>
        BY <1>10 DEF Ready, timers
    <2>6. TypeOK'
        BY <1>0, <2>4, <2>5 DEF TypeOK
    <2> QED BY <1>0, <2>4, <2>5, <2>6 DEF BatcherInv, TimersGuardBatch, TicksAccounted, Due
<1>11. CASE UNCHANGED vars
    BY <1>0, <1>11
    DEF BatcherInv, vars, timers, TypeOK, TimersGuardBatch, TicksAccounted, Due
<1> QED BY <1>1, <1>2, <1>3, <1>4, <1>5, <1>6, <1>7, <1>8, <1>9, <1>10, <1>11 DEF Next

LEMMA BatcherInit == Init => BatcherInv
<1> SUFFICES ASSUME Init
             PROVE  BatcherInv
    OBVIOUS
<1>1. <<>> \in Seq(Nat) /\ <<>> \in Seq(Seq(Nat)) /\ Len(<<>>) = 0
    OBVIOUS
<1>2. New \in Timer /\ Ticks(New) = 1
    BY DEF New, Timer, Ticks
<1>3. TypeOK
    <2>1. bufferSize \in BufferSizes /\ items \in 0..MaxItems /\ starts \in 0..MaxStarts
        BY ConstantsAssumption DEF Init
    <2>2. trigger \in Seq(Nat) /\ batch \in Seq(Nat)
        BY <1>1 DEF Init
    <2>3. batchChan \in Seq(Seq(Nat)) /\ received \in Seq(Seq(Nat))
        BY <1>1, Zenon DEF Init
    <2>4. Len(batchChan) <= 1
        BY <1>1 DEF Init
    <2>5. /\ idleTimer \in Timer /\ timeoutTimer \in Timer /\ running \in BOOLEAN
          /\ empties \in Nat /\ overtaken \in Nat
        BY <1>2 DEF Init
    <2> QED BY <2>1, <2>2, <2>3, <2>4, <2>5 DEF TypeOK
<1>4. TimersGuardBatch
    BY DEF Init, TimersGuardBatch
<1>5. TicksAccounted
    BY <1>2 DEF Init, TicksAccounted, Due
<1> QED BY <1>3, <1>4, <1>5 DEF BatcherInv

\* The state of the batcher stays of its type, and so does the one place of its
\* channel.
THEOREM BatcherTypes == Spec => []TypeOK
<1>1. BatcherInv => TypeOK
    BY DEF BatcherInv
<1> QED BY <1>1, BatcherInit, BatcherStep, PTL DEF Spec

\* A timer of the running loop is armed only while the batch has items, and a batch with
\* items is never without its two timers, whatever ticks come late.
THEOREM BatcherTimers == Spec => []TimersGuardBatch
<1>1. BatcherInv => TimersGuardBatch
    BY DEF BatcherInv
<1> QED BY <1>1, BatcherInit, BatcherStep, PTL DEF Spec

\* There are no more empty batches than ticks that StopTimer met on their way.
THEOREM BatcherEmpty == Spec => []EmptyOnlyIfOvertaken
<1>1. BatcherInv => EmptyOnlyIfOvertaken
    <2> SUFFICES ASSUME BatcherInv
                 PROVE  empties <= overtaken
        BY DEF EmptyOnlyIfOvertaken
    <2>1. TypeOK /\ TimersGuardBatch /\ TicksAccounted
        BY DEF BatcherInv
    <2>2. CASE starts = 0 \/ (running /\ batch # <<>>)
        <3>1. /\ Ticks(idleTimer) > 0 /\ Ticks(timeoutTimer) > 0
              /\ empties + Ticks(idleTimer) + Ticks(timeoutTimer) <= overtaken + 2
            BY <2>1, <2>2, Numbers DEF TimersGuardBatch, TicksAccounted, Due
        <3> QED BY <2>1, <3>1, Numbers
    <2>3. CASE ~(starts = 0 \/ (running /\ batch # <<>>))
        <3>1. empties + Ticks(idleTimer) + Ticks(timeoutTimer) <= overtaken + 0
            BY <2>1, <2>3 DEF TicksAccounted, Due
        <3> QED BY <2>1, <3>1, Numbers
    <2> QED BY <2>2, <2>3
<1> QED BY <1>1, BatcherInit, BatcherStep, PTL DEF Spec
-----------------------------------------------------------------------------
(***************************************************************************)
(* The order of the items                                                  *)
(***************************************************************************)
\* The items of a batch or channel are in order; all of one come before another's;
\* none is after n.
Rising(q) == \A m, n \in DOMAIN q : m < n => q[m] < q[n]
Precedes(q, r) == \A m \in DOMAIN q, n \in DOMAIN r : q[m] < r[n]
UpTo(q, n) == \A m \in DOMAIN q : q[m] <= n

\* Everything the consumer has read or can read is in order, and so is the rest.  A new
\* item is after all of it; it can only go directly into the batch if none waits in the
\* channel, whose capacity is then 0.
OrderInv ==
    /\ Len(trigger) <= bufferSize
    /\ \A i \in DOMAIN received :
          /\ Rising(received[i]) /\ UpTo(received[i], items)
          /\ \A j \in DOMAIN received : i < j => Precedes(received[i], received[j])
          /\ \A j \in DOMAIN batchChan : Precedes(received[i], batchChan[j])
          /\ Precedes(received[i], batch) /\ Precedes(received[i], trigger)
    /\ \A j \in DOMAIN batchChan :
          /\ Rising(batchChan[j]) /\ UpTo(batchChan[j], items)
          /\ Precedes(batchChan[j], batch) /\ Precedes(batchChan[j], trigger)
    /\ Rising(batch) /\ UpTo(batch, items) /\ Precedes(batch, trigger)
    /\ Rising(trigger) /\ UpTo(trigger, items)

LEMMA NoItems ==
    /\ Rising(<<>>) /\ \A n : UpTo(<<>>, n)
    /\ \A q : Precedes(<<>>, q) /\ Precedes(q, <<>>)
BY DEF Rising, UpTo, Precedes

LEMMA NewItem ==
    ASSUME NEW q \in Seq(Nat), NEW x \in Nat
    PROVE  /\ Rising(q) /\ (\A m \in DOMAIN q : q[m] < x) => Rising(Append(q, x))
           /\ \A n \in Nat : UpTo(q, n) /\ x <= n => UpTo(Append(q, x), n)
           /\ \A r \in Seq(Nat) : Precedes(r, q) /\ (\A m \in DOMAIN r : r[m] < x)
                => Precedes(r, Append(q, x))
           /\ \A r \in Seq(Nat) : Precedes(q, r) /\ (\A n \in DOMAIN r : x < r[n])
                => Precedes(Append(q, x), r)
<1>1. /\ DOMAIN Append(q, x) = 1..(Len(q) + 1) /\ DOMAIN q = 1..Len(q) /\ Len(q) \in Nat
      /\ \A m \in 1..Len(q) : Append(q, x)[m] = q[m] /\ q[m] \in Nat
      /\ Append(q, x)[Len(q) + 1] = x
    OBVIOUS
<1>2. \A m \in DOMAIN Append(q, x) : (m \in DOMAIN q /\ Append(q, x)[m] = q[m])
                                        \/ (m = Len(q) + 1 /\ Append(q, x)[m] = x)
    BY <1>1
<1>3. Rising(q) /\ (\A m \in DOMAIN q : q[m] < x) => Rising(Append(q, x))
    BY <1>1, <1>2 DEF Rising
<1> QED BY <1>2, <1>3 DEF UpTo, Precedes

LEMMA ItemTaken ==
    ASSUME NEW q \in Seq(Nat), q # <<>>
    PROVE  /\ Head(q) \in Nat /\ Tail(q) \in Seq(Nat) /\ Len(Tail(q)) <= Len(q)
           /\ Rising(q) => Rising(Tail(q)) /\ \A n \in DOMAIN Tail(q) : Head(q) < Tail(q)[n]
           /\ \A n \in Nat : UpTo(q, n) => UpTo(Tail(q), n) /\ Head(q) <= n
           /\ \A r \in Seq(Nat) : Precedes(r, q) =>
                 Precedes(r, Tail(q)) /\ \A m \in DOMAIN r : r[m] < Head(q)
<1>1. /\ Head(q) = q[1] /\ 1 \in DOMAIN q /\ Head(q) \in Nat /\ Tail(q) \in Seq(Nat)
      /\ Len(Tail(q)) = Len(q) - 1 /\ Len(q) \in Nat /\ DOMAIN q = 1..Len(q)
      /\ DOMAIN Tail(q) = 1..Len(Tail(q))
      /\ \A n \in 1..Len(Tail(q)) : Tail(q)[n] = q[n + 1]
    OBVIOUS
<1>2. \A n \in DOMAIN Tail(q) : n + 1 \in DOMAIN q /\ Tail(q)[n] = q[n + 1] /\ 1 < n + 1 /\ n \in Nat
    BY <1>1
<1>3. Rising(q) => Rising(Tail(q)) /\ \A n \in DOMAIN Tail(q) : Head(q) < Tail(q)[n]
    <2> SUFFICES ASSUME Rising(q)
                 PROVE  Rising(Tail(q)) /\ \A n \in DOMAIN Tail(q) : Head(q) < Tail(q)[n]
        OBVIOUS
    <2>1. \A m, n \in DOMAIN Tail(q) : m < n => m + 1 < n + 1
        BY <1>2
    <2> QED BY <1>1, <1>2, <2>1 DEF Rising
<1>4. \A n \in Nat : UpTo(q, n) => UpTo(Tail(q), n) /\ Head(q) <= n
    BY <1>1, <1>2 DEF UpTo
<1>5. \A r \in Seq(Nat) : Precedes(r, q) =>
         Precedes(r, Tail(q)) /\ \A m \in DOMAIN r : r[m] < Head(q)
    BY <1>1, <1>2 DEF Precedes
<1>6. Len(Tail(q)) <= Len(q)
    BY <1>1
<1> QED BY <1>1, <1>3, <1>4, <1>5, <1>6

\* An item that is after all that came before may go to the end of what waits.
LEMMA Later ==
    ASSUME NEW q \in Seq(Nat), NEW n \in Nat, UpTo(q, n)
    PROVE  UpTo(q, n + 1) /\ \A m \in DOMAIN q : q[m] < n + 1
<1>1. \A m \in DOMAIN q : q[m] \in Nat
    OBVIOUS
<1> QED BY <1>1 DEF UpTo

LEMMA OrderTypes ==
    ASSUME TypeOK
    PROVE  /\ \A i \in DOMAIN received : received[i] \in Seq(Nat)
           /\ \A j \in DOMAIN batchChan : batchChan[j] \in Seq(Nat)
           /\ batch \in Seq(Nat) /\ trigger \in Seq(Nat) /\ items \in Nat
           /\ received \in Seq(Seq(Nat)) /\ batchChan \in Seq(Seq(Nat))
<1>1. \A q \in Seq(Seq(Nat)) : \A i \in DOMAIN q : q[i] \in Seq(Nat)
    OBVIOUS
<1>2. received \in Seq(Seq(Nat)) /\ batchChan \in Seq(Seq(Nat))
    BY DEF TypeOK
<1>3. batch \in Seq(Nat) /\ trigger \in Seq(Nat) /\ items \in Nat
    BY ConstantsAssumption DEF TypeOK
<1> QED BY <1>1, <1>2, <1>3, Zenon

\* A new item goes to the end of the channel, or of the batch if the channel has no room.
LEMMA AddKeepsOrder ==
    ASSUME TypeOK, OrderInv, Add
    PROVE  OrderInv'
<1>1. /\ \A i \in DOMAIN received : UpTo(received[i], items + 1) /\ \A m \in DOMAIN received[i] : received[i][m] < items + 1
      /\ \A j \in DOMAIN batchChan : UpTo(batchChan[j], items + 1) /\ \A m \in DOMAIN batchChan[j] : batchChan[j][m] < items + 1
      /\ UpTo(batch, items + 1) /\ \A m \in DOMAIN batch : batch[m] < items + 1
      /\ UpTo(trigger, items + 1) /\ \A m \in DOMAIN trigger : trigger[m] < items + 1
    <2>1. \A q \in Seq(Nat) : UpTo(q, items) => UpTo(q, items + 1) /\ \A m \in DOMAIN q : q[m] < items + 1
        BY OrderTypes, Later
    <2> QED BY <2>1, OrderTypes, Zenon DEF OrderInv
<1>2. /\ items' = items + 1 /\ items + 1 \in Nat /\ items + 1 <= items + 1
      /\ UNCHANGED <<bufferSize, received, batchChan>>
    BY OrderTypes DEF Add
<1>3. CASE /\ Len(trigger) < bufferSize
           /\ trigger' = Append(trigger, items + 1) /\ UNCHANGED <<batch, timers>>
    <2>1. Len(trigger') <= bufferSize
        <3>1. bufferSize \in Nat
            BY ConstantsAssumption DEF TypeOK
        <3> QED BY <1>3, <3>1, OrderTypes
    <2>2. Rising(trigger') /\ UpTo(trigger', items')
        BY <1>1, <1>2, <1>3, OrderTypes, NewItem DEF OrderInv
    <2>3. \A r \in Seq(Nat) : Precedes(r, trigger) /\ (\A m \in DOMAIN r : r[m] < items + 1)
                => Precedes(r, trigger')
        BY <1>2, <1>3, OrderTypes, NewItem
    <2>4. Precedes(batch', trigger')
        BY <1>1, <1>3, <2>3, OrderTypes DEF OrderInv
    <2>5. \A i \in DOMAIN received : Precedes(received[i], trigger')
        BY <1>1, <2>3, OrderTypes DEF OrderInv
    <2>6. \A j \in DOMAIN batchChan : Precedes(batchChan[j], trigger')
        BY <1>1, <2>3, OrderTypes DEF OrderInv
    <2>7. batch' = batch
        BY <1>3
    <2> QED BY <1>1, <1>2, <2>1, <2>2, <2>4, <2>5, <2>6, <2>7, Zenon DEF OrderInv
<1>4. CASE bufferSize = 0 /\ Collect(items + 1) /\ UNCHANGED trigger
    <2>1. trigger = <<>> /\ trigger' = <<>> /\ batch' = Append(batch, items + 1)
        BY <1>4, OrderTypes DEF OrderInv, Collect
    <2>2. Rising(batch') /\ UpTo(batch', items')
        BY <1>1, <1>2, <2>1, OrderTypes, NewItem DEF OrderInv
    <2>3. \A r \in Seq(Nat) : Precedes(r, batch) /\ (\A m \in DOMAIN r : r[m] < items + 1)
                => Precedes(r, batch')
        BY <1>2, <2>1, OrderTypes, NewItem
    <2>5. \A i \in DOMAIN received : Precedes(received[i], batch')
        BY <1>1, <2>3, OrderTypes DEF OrderInv
    <2>6. \A j \in DOMAIN batchChan : Precedes(batchChan[j], batch')
        BY <1>1, <2>3, OrderTypes DEF OrderInv
    <2>7. Len(trigger') <= bufferSize'
        BY <1>2, <2>1 DEF OrderInv
    <2> QED BY <1>1, <1>2, <2>1, <2>2, <2>5, <2>6, <2>7, NoItems, Zenon DEF OrderInv
<1> QED BY <1>3, <1>4 DEF Add

\* The oldest item of the channel goes to the end of the batch.
LEMMA ReceiveKeepsOrder ==
    ASSUME TypeOK, OrderInv, Receive
    PROVE  OrderInv'
<1> DEFINE x == Head(trigger)
<1>1. /\ trigger # <<>> /\ trigger' = Tail(trigger) /\ batch' = Append(batch, x)
      /\ UNCHANGED <<bufferSize, received, batchChan, items>>
    BY DEF Receive, Collect
<1>2. /\ x \in Nat /\ trigger' \in Seq(Nat) /\ Len(trigger') <= Len(trigger)
      /\ Rising(trigger') /\ UpTo(trigger', items) /\ x <= items
      /\ \A n \in DOMAIN trigger' : x < trigger'[n]
      /\ \A r \in Seq(Nat) : Precedes(r, trigger) =>
            Precedes(r, trigger') /\ \A m \in DOMAIN r : r[m] < x
    BY <1>1, OrderTypes, ItemTaken DEF OrderInv
<1>3. Precedes(batch, trigger') /\ \A m \in DOMAIN batch : batch[m] < x
    BY <1>2, OrderTypes DEF OrderInv
<1> HIDE DEF x
<1>4. Rising(batch') /\ UpTo(batch', items) /\ Precedes(batch', trigger')
    BY <1>1, <1>2, <1>3, OrderTypes, NewItem DEF OrderInv
<1>5. \A r \in Seq(Nat) : Precedes(r, batch) /\ Precedes(r, trigger) => Precedes(r, batch')
    BY <1>1, <1>2, OrderTypes, NewItem
<1>6. \A i \in DOMAIN received : Precedes(received[i], batch') /\ Precedes(received[i], trigger')
    BY <1>2, <1>5, OrderTypes DEF OrderInv
<1>7. \A j \in DOMAIN batchChan : Precedes(batchChan[j], batch') /\ Precedes(batchChan[j], trigger')
    BY <1>2, <1>5, OrderTypes DEF OrderInv
<1>8. Len(trigger') <= bufferSize
    <2>1. bufferSize \in Nat
        BY ConstantsAssumption DEF TypeOK
    <2> QED BY <1>2, <2>1, OrderTypes DEF OrderInv
<1> QED BY <1>1, <1>2, <1>4, <1>6, <1>7, <1>8, Zenon DEF OrderInv

\* A finished batch takes the free place of the channel, or is lost.
LEMMA FinishKeepsOrder ==
    ASSUME TypeOK, OrderInv, NEW idle, NEW timeout, Finish(idle, timeout)
    PROVE  OrderInv'
<1>1. batch' = <<>> /\ UNCHANGED <<bufferSize, trigger, received, items>>
    BY DEF Finish, stopTimersAndInitBatch
<1>2. CASE batchChan = <<>>
    <2>1. batchChan' = <<batch>>
        BY <1>2 DEF Finish, sendBatch
    <2>2. \A j \in DOMAIN batchChan' : batchChan'[j] = batch
        BY <2>1
    <2> QED BY <1>1, <2>2, NoItems, Zenon DEF OrderInv
<1>3. CASE batchChan # <<>>
    <2>1. batchChan' = batchChan
        BY <1>3 DEF Finish, sendBatch
    <2> QED BY <1>1, <2>1, NoItems, Zenon DEF OrderInv
<1> QED BY <1>2, <1>3

\* The consumer's next batch comes after those it has read.
LEMMA ReadyKeepsOrder ==
    ASSUME TypeOK, OrderInv, Ready
    PROVE  OrderInv'
<1>1. /\ batchChan # <<>> /\ UNCHANGED <<bufferSize, trigger, batch, items>>
      /\ received' = Append(received, Head(batchChan)) /\ batchChan' = Tail(batchChan)
    BY DEF Ready
<1>2. batchChan' = <<>> /\ 1 \in DOMAIN batchChan /\ Head(batchChan) = batchChan[1]
    <2>1. \A q \in Seq(Seq(Nat)) : q # <<>> => 1 \in DOMAIN q /\ Head(q) = q[1]
        OBVIOUS
    <2>2. Len(batchChan) <= 1
        BY DEF TypeOK
    <2> QED BY <1>1, <2>1, <2>2, OrderTypes, OneLess
<1>3. \A i \in DOMAIN received' :
         \/ i \in DOMAIN received /\ received'[i] = received[i]
         \/ i = Len(received) + 1 /\ received'[i] = batchChan[1]
    <2>1. \A q \in Seq(Seq(Nat)), b \in Seq(Nat) : \A i \in DOMAIN Append(q, b) :
             \/ i \in DOMAIN q /\ Append(q, b)[i] = q[i]
             \/ i = Len(q) + 1 /\ Append(q, b)[i] = b
        OBVIOUS
    <2> QED BY <1>1, <1>2, <2>1, OrderTypes
<1>4. \A i \in DOMAIN received : i < Len(received) + 1 /\ ~(Len(received) + 1 < i)
    <2>1. \A q \in Seq(Seq(Nat)) : \A i \in DOMAIN q : i < Len(q) + 1 /\ ~(Len(q) + 1 < i)
        OBVIOUS
    <2> QED BY <2>1, OrderTypes, Zenon
<1>5. \A i \in DOMAIN received' : Rising(received'[i]) /\ UpTo(received'[i], items)
    BY <1>2, <1>3, Zenon DEF OrderInv
<1>6. \A i \in DOMAIN received' : Precedes(received'[i], batch) /\ Precedes(received'[i], trigger)
    BY <1>2, <1>3, Zenon DEF OrderInv
<1>7. \A i, j \in DOMAIN received' : i < j => Precedes(received'[i], received'[j])
    <2> SUFFICES ASSUME NEW i \in DOMAIN received', NEW j \in DOMAIN received', i < j
                 PROVE  Precedes(received'[i], received'[j])
        OBVIOUS
    <2>1. ~(Len(received) + 1 < Len(received) + 1)
        <3>1. \A q \in Seq(Seq(Nat)) : ~(Len(q) + 1 < Len(q) + 1)
            OBVIOUS
        <3> QED BY <3>1, OrderTypes, Zenon
    <2>2. i \in DOMAIN received /\ received'[i] = received[i]
        BY <1>3, <1>4, <2>1, Zenon
    <2>3. CASE j \in DOMAIN received /\ received'[j] = received[j]
        BY <2>2, <2>3, Zenon DEF OrderInv
    <2>4. CASE received'[j] = batchChan[1]
        BY <1>2, <2>2, <2>4, Zenon DEF OrderInv
    <2> QED BY <1>3, <2>3, <2>4
<1>8. \A j \in DOMAIN batchChan' : FALSE
    BY <1>2
<1> QED BY <1>1, <1>5, <1>6, <1>7, <1>8, Zenon DEF OrderInv

LEMMA OrderStep == TypeOK /\ OrderInv /\ [Next]_vars => OrderInv'
<1> SUFFICES ASSUME TypeOK, OrderInv, [Next]_vars
             PROVE  OrderInv'
    OBVIOUS
<1>1. CASE UNCHANGED <<bufferSize, trigger, batch, batchChan, received, items>>
    BY <1>1, Zenon DEF OrderInv
<1>2. CASE IdleFires \/ IdleTicks \/ TimeoutFires \/ TimeoutTicks \/ Stop \/ UNCHANGED vars
    BY <1>1, <1>2 DEF IdleFires, IdleTicks, TimeoutFires, TimeoutTicks, Stop, vars
<1>3. CASE Start
    <2>1. batch' = <<>> /\ batchChan' = <<>> /\ UNCHANGED <<bufferSize, trigger, received, items>>
        BY <1>3 DEF Start, stopTimersAndInitBatch
    <2>2. \A j \in DOMAIN batchChan' : FALSE
        BY <2>1
    <2> QED BY <2>1, <2>2, NoItems, Zenon DEF OrderInv
<1>4. CASE AddDropped
    <2>1. items' = items + 1 /\ UNCHANGED <<bufferSize, trigger, batch, batchChan, received>>
        BY <1>4 DEF AddDropped
    <2>2. \A q \in Seq(Nat) : UpTo(q, items) => UpTo(q, items + 1)
        BY OrderTypes, Later
    <2>3. /\ \A i \in DOMAIN received : UpTo(received[i], items')
          /\ \A j \in DOMAIN batchChan : UpTo(batchChan[j], items')
          /\ UpTo(batch, items') /\ UpTo(trigger, items')
        BY <2>1, <2>2, OrderTypes, Zenon DEF OrderInv
    <2> QED BY <2>1, <2>3, Zenon DEF OrderInv
<1>5. CASE FinishIdle \/ FinishTimeout
    BY <1>5, FinishKeepsOrder DEF FinishIdle, FinishTimeout
<1> QED BY <1>2, <1>3, <1>4, <1>5, AddKeepsOrder, ReceiveKeepsOrder, ReadyKeepsOrder DEF Next

\* Where the elements of a concatenation come from.
LEMMA Concatenated ==
    ASSUME NEW q \in Seq(Seq(Nat)), NEW r \in Seq(Seq(Nat))
    PROVE  /\ q \o r \in Seq(Seq(Nat)) /\ Len(q \o r) = Len(q) + Len(r)
           /\ Len(q) \in Nat /\ Len(r) \in Nat
           /\ DOMAIN q = 1..Len(q) /\ DOMAIN r = 1..Len(r) /\ DOMAIN (q \o r) = 1..(Len(q) + Len(r))
           /\ \A k \in DOMAIN (q \o r) :
                \/ k \in DOMAIN q /\ (q \o r)[k] = q[k]
                \/ k > Len(q) /\ k - Len(q) \in DOMAIN r /\ (q \o r)[k] = r[k - Len(q)]
<1>1. q \o r \in Seq(Seq(Nat)) /\ Len(q \o r) = Len(q) + Len(r) /\ Len(q) \in Nat /\ Len(r) \in Nat
    OBVIOUS
<1>2. DOMAIN q = 1..Len(q) /\ DOMAIN r = 1..Len(r) /\ DOMAIN (q \o r) = 1..(Len(q) + Len(r))
    BY <1>1
<1>3. ASSUME NEW k \in 1..(Len(q) + Len(r))
      PROVE  (q \o r)[k] = IF k <= Len(q) THEN q[k] ELSE r[k - Len(q)]
    OBVIOUS
<1>4. \A k \in 1..(Len(q) + Len(r)) :
         k \in 1..Len(q) \/ (~(k <= Len(q)) /\ k > Len(q) /\ k - Len(q) \in 1..Len(r))
    BY <1>1
<1>5. \A k \in 1..Len(q) : k <= Len(q)
    BY <1>1
<1> QED BY <1>1, <1>2, <1>3, <1>4, <1>5

\* The batches read, the batch that waits, the batch collected and the channel in one
\* sequence.
InOne(r, c, b, t) == r \o c \o <<b, t>>

LEMMA Positions ==
    ASSUME NEW r \in Seq(Seq(Nat)), NEW c \in Seq(Seq(Nat)), NEW b \in Seq(Nat), NEW t \in Seq(Nat)
    PROVE  LET all == InOne(r, c, b, t)
           IN  /\ DOMAIN all \subseteq Nat
               /\ DOMAIN r = 1..Len(r) /\ DOMAIN c = 1..Len(c) /\ Len(r) \in Nat /\ Len(c) \in Nat
               /\ \A k \in DOMAIN all :
                    \/ k \in DOMAIN r /\ all[k] = r[k]
                    \/ k > Len(r) /\ k - Len(r) \in DOMAIN c /\ all[k] = c[k - Len(r)]
                    \/ k = Len(r) + Len(c) + 1 /\ all[k] = b
                    \/ k = Len(r) + Len(c) + 2 /\ all[k] = t
<1> DEFINE q == r \o c
           e == <<b, t>>
<1>1. /\ q \in Seq(Seq(Nat)) /\ Len(q) = Len(r) + Len(c) /\ DOMAIN q = 1..(Len(r) + Len(c))
      /\ DOMAIN r = 1..Len(r) /\ DOMAIN c = 1..Len(c) /\ Len(r) \in Nat /\ Len(c) \in Nat
      /\ \A k \in DOMAIN q : \/ k \in DOMAIN r /\ q[k] = r[k]
                             \/ k > Len(r) /\ k - Len(r) \in DOMAIN c /\ q[k] = c[k - Len(r)]
    BY Concatenated
<1>2. e \in Seq(Seq(Nat)) /\ Len(e) = 2 /\ e[1] = b /\ e[2] = t
    OBVIOUS
<1> HIDE DEF q, e
<1>3. /\ DOMAIN (q \o e) = 1..(Len(q) + Len(e)) /\ DOMAIN e = 1..Len(e)
      /\ \A k \in DOMAIN (q \o e) :
            \/ k \in DOMAIN q /\ (q \o e)[k] = q[k]
            \/ k > Len(q) /\ k - Len(q) \in DOMAIN e /\ (q \o e)[k] = e[k - Len(q)]
    BY <1>1, <1>2, Concatenated
<1>4. DOMAIN (q \o e) \subseteq Nat
    BY <1>1, <1>2, <1>3
<1>5. ASSUME NEW k \in DOMAIN (q \o e), k > Len(q), k - Len(q) \in DOMAIN e
      PROVE  \/ k = Len(r) + Len(c) + 1 /\ k - Len(q) = 1
             \/ k = Len(r) + Len(c) + 2 /\ k - Len(q) = 2
    BY <1>1, <1>2, <1>3, <1>4, <1>5
<1>6. \A k \in DOMAIN (q \o e) :
        \/ k \in DOMAIN r /\ (q \o e)[k] = r[k]
        \/ k > Len(r) /\ k - Len(r) \in DOMAIN c /\ (q \o e)[k] = c[k - Len(r)]
        \/ k = Len(r) + Len(c) + 1 /\ (q \o e)[k] = b
        \/ k = Len(r) + Len(c) + 2 /\ (q \o e)[k] = t
    <2> TAKE k \in DOMAIN (q \o e)
    <2>1. CASE k \in DOMAIN q /\ (q \o e)[k] = q[k]
        BY <1>1, <2>1, Zenon
    <2>2. CASE k > Len(q) /\ k - Len(q) \in DOMAIN e /\ (q \o e)[k] = e[k - Len(q)]
        BY <1>2, <1>5, <2>2, Zenon
    <2> QED BY <1>3, <2>1, <2>2
<1>7. InOne(r, c, b, t) = q \o e
    BY DEF InOne, q, e
<1> QED BY <1>1, <1>4, <1>6, <1>7, Zenon

\* What the consumer has read, what waits for it and what is being collected are items
\* in the order of their Add, each of them once, whatever is dropped, stopped and
\* started again.
THEOREM BatcherInOrder == Spec => []InOrderOnce
<1>1. Init => OrderInv
    <2> SUFFICES ASSUME Init
                 PROVE  OrderInv
        OBVIOUS
    <2>1. /\ trigger = <<>> /\ batch = <<>> /\ \A i \in DOMAIN received : FALSE
          /\ \A i \in DOMAIN batchChan : FALSE
        BY DEF Init
    <2>2. Len(trigger) <= bufferSize
        BY ConstantsAssumption DEF Init
    <2> QED BY <2>1, <2>2, NoItems, Zenon DEF OrderInv
<1>2. TypeOK /\ OrderInv => InOrderOnce
    <2> SUFFICES ASSUME TypeOK, OrderInv
                 PROVE  InOrderOnce
        OBVIOUS
    <2> DEFINE all == InOne(received, batchChan, batch, trigger)
               R == Len(received)
               C == Len(batchChan)
    <2>1. /\ DOMAIN received = 1..R /\ DOMAIN batchChan = 1..C /\ R \in Nat /\ C \in {0, 1}
          /\ DOMAIN all \subseteq Nat
        <3>1. Len(batchChan) <= 1
            BY DEF TypeOK
        <3>2. /\ DOMAIN received = 1..R /\ DOMAIN batchChan = 1..C /\ R \in Nat /\ C \in Nat
              /\ DOMAIN all \subseteq Nat
            BY OrderTypes, Positions, Zenon
        <3> QED BY <3>1, <3>2
    <2>2. \A k \in DOMAIN all :
             \/ k \in DOMAIN received /\ all[k] = received[k]
             \/ k > R /\ k - R \in DOMAIN batchChan /\ all[k] = batchChan[k - R]
             \/ k = R + C + 1 /\ all[k] = batch
             \/ k = R + C + 2 /\ all[k] = trigger
        <3>1. /\ received \in Seq(Seq(Nat)) /\ batchChan \in Seq(Seq(Nat))
              /\ batch \in Seq(Nat) /\ trigger \in Seq(Nat)
            BY OrderTypes
        <3> QED BY <3>1, Positions
    <2> HIDE DEF all, R, C
    <2>3. \A k \in DOMAIN all : Rising(all[k])
        BY <2>2, Zenon DEF OrderInv
    <2>4. ASSUME NEW j \in DOMAIN all, NEW k \in DOMAIN all, j < k
          PROVE  Precedes(all[j], all[k])
        <3>1. CASE j \in DOMAIN received /\ all[j] = received[j]
            <4>1. \A i \in DOMAIN received : j < i => Precedes(received[j], received[i])
                BY <3>1 DEF OrderInv
            <4>2. /\ \A i \in DOMAIN batchChan : Precedes(received[j], batchChan[i])
                  /\ Precedes(received[j], batch) /\ Precedes(received[j], trigger)
                BY <3>1 DEF OrderInv
            <4> QED BY <2>2, <2>4, <3>1, <4>1, <4>2
        <3>2. CASE j > R /\ j - R \in DOMAIN batchChan /\ all[j] = batchChan[j - R]
            <4>1. ~(k \in DOMAIN received) /\ ~(k > R /\ k - R \in DOMAIN batchChan)
                BY <2>1, <2>4, <3>2
            <4>2. all[k] = batch \/ all[k] = trigger
                BY <2>2, <4>1
            <4> QED BY <3>2, <4>2, Zenon DEF OrderInv
        <3>3. CASE j = R + C + 1 /\ all[j] = batch
            <4>1. ~(k \in DOMAIN received) /\ ~(k > R /\ k - R \in DOMAIN batchChan) /\ k # R + C + 1
                BY <2>1, <2>4, <3>3
            <4>2. all[k] = trigger
                BY <2>2, <4>1
            <4> QED BY <3>3, <4>2, Zenon DEF OrderInv
        <3>4. CASE j = R + C + 2
            <4>1. /\ ~(k \in DOMAIN received) /\ ~(k > R /\ k - R \in DOMAIN batchChan)
                  /\ k # R + C + 1 /\ k # R + C + 2
                BY <2>1, <2>4, <3>4
            <4> QED BY <2>2, <4>1
        <3> QED BY <2>2, <3>1, <3>2, <3>3, <3>4
    <2>5. \A j, k \in DOMAIN all : j <= k => j < k \/ (j = k /\ ~(j < k))
        BY <2>1
    <2>6. \A j, k \in DOMAIN all : j <= k =>
            \A m \in DOMAIN all[j], n \in DOMAIN all[k] : j < k \/ m < n => all[j][m] < all[k][n]
        BY <2>3, <2>4, <2>5, Zenon DEF Rising, Precedes
    <2> QED BY <2>6 DEF InOrderOnce, InOne, all
<1>3. BatcherInv => TypeOK
    BY DEF BatcherInv
<1> QED BY <1>1, <1>2, <1>3, OrderStep, BatcherInit, BatcherStep, PTL DEF Spec
=============================================================================
