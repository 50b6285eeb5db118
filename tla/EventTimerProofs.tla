-------------------------- MODULE EventTimerProofs --------------------------
(***************************************************************************)
(* The contract of the timer of module EventTimer, for any set of threads  *)
(* and any number of calls.                                                *)
(***************************************************************************)
EXTENDS EventTimer, TLAPS

LEMMA TimerInit == Init => TimerInv
<1> SUFFICES ASSUME Init PROVE TimerInv
  OBVIOUS
<1>1. TimerTypeOK
  <2>1. Idle \in [kind : Kind, event : Number \cup {NoEvent}]
    BY DEF Idle, Kind
  <2>2. call \in [Thread -> [kind : Kind, event : Number \cup {NoEvent}]]
    BY <2>1 DEF Init
  <2>3. delivered \in Seq(Number) /\ calls \in 0 .. MaxCalls
    BY TimerAssumption DEF Init
  <2> QED BY <2>2, <2>3 DEF Init, TimerTypeOK
<1>2. CallsFresh /\ CurrentEvent /\ DeliveredOnce
  BY DEF Init, CallsFresh, CurrentEvent, DeliveredOnce, Idle
<1> QED BY <1>1, <1>2 DEF Init, TimerInv

\* A new call gets a number nobody has seen.
LEMMA CallInv ==
    ASSUME TimerInv, NEW t \in Thread, NEW kind \in {"soft", "hard", "stop"}, Call(t, kind)
    PROVE  TimerInv'
<1> DEFINE new == [kind |-> kind, event |-> calls + 1]
<1>1. /\ calls' = calls + 1 /\ calls \in 0 .. MaxCalls /\ calls < MaxCalls /\ MaxCalls \in Nat
      /\ call' = [call EXCEPT ![t] = new]
      /\ call \in [Thread -> [kind : Kind, event : Number \cup {NoEvent}]]
  BY TimerAssumption DEF Call, TimerInv, TimerTypeOK
<1>2. UNCHANGED <<timerChan, event, pending, loop, timerExit, manager, managerExit, accepted,
                  cancelled, delivered>>
  BY DEF Call, timerVars, managerVars, history
<1>3. new \in [kind : Kind, event : Number \cup {NoEvent}]
  BY <1>1 DEF Kind, Number
<1>4. TimerTypeOK'
  <2>1. call' \in [Thread -> [kind : Kind, event : Number \cup {NoEvent}]]
    <3> HIDE DEF new
    <3> QED BY <1>1, <1>3
  <2>2. calls' \in 0 .. MaxCalls
    BY <1>1
  <2> QED BY <1>2, <2>1, <2>2 DEF TimerInv, TimerTypeOK
<1>5. accepted' \subseteq 1 .. calls'
  BY <1>1, <1>2 DEF TimerInv
<1>6. CallsFresh'
  <2> SUFFICES ASSUME NEW r \in Thread, call'[r].kind # "none"
               PROVE  /\ call'[r].event \in 1 .. calls'
                      /\ call'[r].event \notin accepted
                      /\ \A s \in Thread \ {r} :
                            call'[s].kind # "none" => call'[s].event # call'[r].event
    BY <1>2 DEF CallsFresh
  <2>1. \A s \in Thread : s # t => call'[s] = call[s]
    BY <1>1
  <2>2. call'[t].event = calls + 1
    BY <1>1
  <2>3. \A s \in Thread : call[s].kind # "none" =>
          call[s].event \in 1 .. calls /\ call[s].event \notin accepted
    BY DEF TimerInv, CallsFresh
  <2>4. calls + 1 \notin accepted
    BY <1>1 DEF TimerInv
  <2>5. CASE r = t
    BY <1>1, <2>1, <2>2, <2>3, <2>4, <2>5
  <2>6. CASE r # t
    <3>1. call'[r] = call[r] /\ call[r].event \in 1 .. calls /\ call[r].event \notin accepted
      BY <2>1, <2>3, <2>6
    <3>2. \A s \in Thread \ {r, t} :
            call[s].kind # "none" => call[s].event # call[r].event
      BY <2>6, <3>1 DEF TimerInv, CallsFresh
    <3> QED BY <1>1, <2>1, <2>2, <3>1, <3>2
  <2> QED BY <2>5, <2>6
<1>7. CurrentEvent' /\ DeliveredOnce' /\ cancelled' \subseteq accepted'
      /\ \A i \in 1 .. Len(delivered') : delivered'[i] \in accepted'
  BY <1>2 DEF TimerInv, CurrentEvent, DeliveredOnce
<1> QED BY <1>4, <1>5, <1>6, <1>7 DEF TimerInv

\* The call a case of the select takes is gone; the others stay fresh.
LEMMA CallTaken ==
    ASSUME TimerInv, NEW t \in Thread, call[t].kind # "none",
           call' = [call EXCEPT ![t] = Idle], UNCHANGED calls,
           accepted' \subseteq accepted \cup {call[t].event}
    PROVE  /\ call' \in [Thread -> [kind : Kind, event : Number \cup {NoEvent}]]
           /\ CallsFresh'
           /\ accepted' \subseteq 1 .. calls' /\ accepted' \subseteq Number
<1>1. call \in [Thread -> [kind : Kind, event : Number \cup {NoEvent}]]
  BY DEF TimerInv, TimerTypeOK
<1>2. Idle \in [kind : Kind, event : Number \cup {NoEvent}] /\ Idle.kind = "none"
  BY DEF Idle, Kind
<1>3. call' \in [Thread -> [kind : Kind, event : Number \cup {NoEvent}]]
  BY <1>1, <1>2
<1>4. \A s \in Thread : call'[s].kind # "none" => s # t /\ call'[s] = call[s]
  BY <1>1, <1>2
<1>5. CallsFresh'
  BY <1>4 DEF TimerInv, CallsFresh
<1>6. accepted' \subseteq 1 .. calls'
  BY DEF TimerInv, CallsFresh
<1>7. accepted' \subseteq Number
  BY <1>6, TimerAssumption DEF TimerInv, TimerTypeOK, Number
<1> QED BY <1>3, <1>5, <1>6, <1>7

LEMMA TakeStartInv ==
    ASSUME TimerInv, NEW t \in Thread, TakeStart(t) PROVE TimerInv'
<1> DEFINE e == call[t].event
<1>1. /\ call[t].kind \in {"soft", "hard"}
      /\ call' = [call EXCEPT ![t] = Idle]
      /\ UNCHANGED <<loop, timerExit, manager, managerExit, calls, delivered>>
      /\ cancelled' = cancelled \/ cancelled' = cancelled \cup accepted
  BY DEF TakeStart, managerVars
<1>2. \/ UNCHANGED <<timerChan, event, pending, accepted, cancelled>>
      \/ /\ timerChan' = TRUE /\ event' = e /\ pending' = FALSE
         /\ accepted' = accepted \cup {e}
  BY DEF TakeStart
<1>3. call[t].kind # "none" /\ e \in 1 .. calls /\ e \notin accepted
  BY <1>1 DEF TimerInv, CallsFresh
<1>4. /\ call' \in [Thread -> [kind : Kind, event : Number \cup {NoEvent}]]
      /\ CallsFresh' /\ accepted' \subseteq 1 .. calls' /\ accepted' \subseteq Number
  <2>1. accepted' \subseteq accepted \cup {e}
    BY <1>2
  <2> QED BY <1>1, <1>3, <2>1, CallTaken
<1>5. cancelled' \subseteq accepted /\ accepted \subseteq accepted'
  BY <1>1, <1>2 DEF TimerInv
<1>6. TimerTypeOK'
  <2>1. e \in Number
    BY <1>3, TimerAssumption DEF TimerInv, TimerTypeOK, Number
  <2>2. /\ timerChan' \in BOOLEAN /\ pending' \in BOOLEAN
        /\ event' \in Number \cup {NoEvent}
    BY <1>2, <2>1 DEF TimerInv, TimerTypeOK
  <2>3. cancelled' \subseteq Number
    BY <1>4, <1>5
  <2> QED BY <1>1, <1>4, <2>2, <2>3 DEF TimerInv, TimerTypeOK
<1>7. CurrentEvent'
  <2>1. CASE UNCHANGED <<timerChan, event, pending, accepted, cancelled>>
    BY <1>1, <2>1 DEF TimerInv, CurrentEvent
  <2>2. CASE /\ timerChan' = TRUE /\ event' = e /\ pending' = FALSE
             /\ accepted' = accepted \cup {e}
    <3>1. event' \in accepted' \ cancelled'
      BY <1>3, <1>5, <2>2
    <3>2. \A i \in 1 .. Len(delivered) : delivered[i] # e
      BY <1>3 DEF TimerInv
    <3> QED BY <1>1, <2>2, <3>1, <3>2 DEF CurrentEvent
  <2> QED BY <1>2, <2>1, <2>2
<1>8. DeliveredOnce' /\ \A i \in 1 .. Len(delivered') : delivered'[i] \in accepted'
  BY <1>1, <1>5 DEF TimerInv, DeliveredOnce
<1>9. cancelled' \subseteq accepted'
  BY <1>5
<1> QED BY <1>4, <1>6, <1>7, <1>8, <1>9 DEF TimerInv

LEMMA TakeStopInv ==
    ASSUME TimerInv, NEW t \in Thread, TakeStop(t) PROVE TimerInv'
<1>1. /\ call[t].kind # "none" /\ call' = [call EXCEPT ![t] = Idle]
      /\ timerChan' = FALSE /\ pending' = FALSE /\ event' = NoEvent
      /\ cancelled' = cancelled \cup accepted
      /\ UNCHANGED <<loop, timerExit, manager, managerExit, calls, accepted, delivered>>
  BY DEF TakeStop, managerVars
<1>2. /\ call' \in [Thread -> [kind : Kind, event : Number \cup {NoEvent}]]
      /\ CallsFresh' /\ accepted' \subseteq 1 .. calls'
  BY <1>1, CallTaken
<1>3. TimerTypeOK'
  BY <1>1, <1>2 DEF TimerInv, TimerTypeOK
<1>4. CurrentEvent'
  BY <1>1 DEF CurrentEvent
<1>5. DeliveredOnce' /\ cancelled' \subseteq accepted'
      /\ \A i \in 1 .. Len(delivered') : delivered'[i] \in accepted'
  BY <1>1 DEF TimerInv, DeliveredOnce
<1> QED BY <1>2, <1>3, <1>4, <1>5 DEF TimerInv

\* The actions that leave calls and history of starts alone keep CallsFresh.
LEMMA CallsFreshKept ==
    ASSUME CallsFresh, UNCHANGED <<call, calls, accepted>> PROVE CallsFresh'
  BY DEF CallsFresh

LEMMA FireInv == ASSUME TimerInv, Fire PROVE TimerInv'
<1>1. /\ timerChan /\ timerChan' = FALSE /\ pending' = TRUE
      /\ UNCHANGED <<event, loop, timerExit, manager, managerExit, call, calls, accepted,
                     cancelled, delivered>>
  BY DEF Fire, managerVars
<1>2. event \in accepted
  BY <1>1 DEF TimerInv, CurrentEvent
<1>3. TimerTypeOK'
  BY <1>1, <1>2 DEF TimerInv, TimerTypeOK
<1>4. CurrentEvent' /\ DeliveredOnce'
  BY <1>1 DEF TimerInv, CurrentEvent, DeliveredOnce
<1> QED BY <1>1, <1>3, <1>4, CallsFreshKept DEF TimerInv

\* A delivery passes on the event the loop holds, which is not cancelled.
LEMMA DeliverInv ==
    ASSUME TimerInv, Deliver
    PROVE  TimerInv' /\ delivered'[Len(delivered')] \notin cancelled
<1>1. /\ pending /\ pending' = FALSE /\ manager' = "busy"
      /\ delivered' = Append(delivered, event)
      /\ UNCHANGED <<timerChan, event, loop, timerExit, managerExit, call, calls, accepted,
                     cancelled>>
  BY DEF Deliver
<1>2. /\ event \in accepted \ cancelled /\ ~timerChan /\ event \in Number
      /\ \A i \in 1 .. Len(delivered) : delivered[i] # event
      /\ delivered \in Seq(Number)
  BY <1>1 DEF TimerInv, CurrentEvent, TimerTypeOK
<1>3. /\ delivered' \in Seq(Number) /\ Len(delivered') = Len(delivered) + 1
      /\ Len(delivered) \in Nat
      /\ delivered'[Len(delivered')] = event
      /\ \A i \in 1 .. Len(delivered) : delivered'[i] = delivered[i]
  BY <1>1, <1>2
<1>4. TimerTypeOK'
  BY <1>1, <1>3 DEF TimerInv, TimerTypeOK
<1>5. CurrentEvent'
  BY <1>1, <1>2 DEF CurrentEvent
<1>6. \A i \in 1 .. Len(delivered') : delivered'[i] \in accepted'
  <2>1. \A i \in 1 .. Len(delivered) : delivered[i] \in accepted
    BY DEF TimerInv
  <2> QED BY <1>1, <1>2, <1>3, <2>1
<1>7. DeliveredOnce'
  <2> SUFFICES ASSUME NEW i \in 1 .. Len(delivered'), NEW j \in 1 .. Len(delivered'),
                      delivered'[i] = delivered'[j]
               PROVE  i = j
    BY DEF DeliveredOnce
  <2>1. \A k, l \in 1 .. Len(delivered) : delivered[k] = delivered[l] => k = l
    BY DEF TimerInv, DeliveredOnce
  <2> QED BY <1>2, <1>3, <2>1
<1> QED BY <1>1, <1>2, <1>3, <1>4, <1>5, <1>6, <1>7, CallsFreshKept DEF TimerInv

\* Exits, halts and the manager's own steps.
LEMMA OtherInv ==
    ASSUME TimerInv,
           \/ LoopExit \/ HaltTimer \/ ManagerStart \/ HaltManager \/ ReceiveOther
           \/ FinishEvent \/ ManagerExit \/ UNCHANGED vars
    PROVE  TimerInv' /\ delivered' = delivered
<1>1. UNCHANGED <<timerChan, event, pending, call, calls, accepted, cancelled, delivered>>
  BY DEF LoopExit, HaltTimer, ManagerStart, HaltManager, ReceiveOther, FinishEvent,
     ManagerExit, vars, timerVars, history
<1>2. loop' \in {"run", "exited"} /\ manager' \in {"new", "wait", "busy", "exited"}
  BY DEF LoopExit, HaltTimer, ManagerStart, HaltManager, ReceiveOther, FinishEvent,
     ManagerExit, vars, timerVars, managerVars, TimerInv, TimerTypeOK
<1>3. timerExit' \in BOOLEAN /\ managerExit' \in BOOLEAN
  BY DEF LoopExit, HaltTimer, ManagerStart, HaltManager, ReceiveOther, FinishEvent,
     ManagerExit, vars, timerVars, managerVars, TimerInv, TimerTypeOK
<1>4. TimerTypeOK'
  BY <1>1, <1>2, <1>3 DEF TimerInv, TimerTypeOK
<1>5. CurrentEvent' /\ DeliveredOnce'
  BY <1>1 DEF TimerInv, CurrentEvent, DeliveredOnce
<1> QED BY <1>1, <1>4, <1>5, CallsFreshKept DEF TimerInv

LEMMA TimerStep ==
    ASSUME TimerInv, [Next]_vars
    PROVE  /\ TimerInv'
           /\ delivered' # delivered => delivered'[Len(delivered')] \notin cancelled
<1>1. CASE \E t \in Thread : SoftReset(t) \/ Reset(t) \/ Stop(t)
  <2>1. PICK t \in Thread, kind \in {"soft", "hard", "stop"} : Call(t, kind)
    BY <1>1 DEF SoftReset, Reset, Stop
  <2>2. delivered' = delivered
    BY <2>1 DEF Call, history
  <2> QED BY <2>1, <2>2, CallInv
<1>2. CASE \E t \in Thread : TakeStart(t)
  <2>1. delivered' = delivered
    BY <1>2 DEF TakeStart
  <2> QED BY <1>2, <2>1, TakeStartInv
<1>3. CASE \E t \in Thread : TakeStop(t)
  <2>1. delivered' = delivered
    BY <1>3 DEF TakeStop
  <2> QED BY <1>3, <2>1, TakeStopInv
<1>4. CASE Fire
  <2>1. delivered' = delivered
    BY <1>4 DEF Fire
  <2> QED BY <1>4, <2>1, FireInv
<1>5. CASE Deliver
  BY <1>5, DeliverInv
<1>6. CASE \/ LoopExit \/ HaltTimer \/ ManagerStart \/ HaltManager \/ ReceiveOther
           \/ FinishEvent \/ ManagerExit \/ UNCHANGED vars
  BY <1>6, OtherInv
<1> QED BY <1>1, <1>2, <1>3, <1>4, <1>5, <1>6 DEF Next

\* What the loop relies on, in every behaviour.
THEOREM TimerInvariant == Spec => []TimerInv
<1>1. TimerInv /\ [Next]_vars => TimerInv'
  BY TimerStep
<1> QED BY <1>1, TimerInit, PTL DEF Spec

\* One start delivers at most one event, however many there are and whoever
\* calls.
THEOREM DeliveredOnceHolds == Spec => []DeliveredOnce
<1>1. TimerInv => DeliveredOnce
  BY DEF TimerInv
<1> QED BY <1>1, TimerInvariant, PTL

\* What a Stop, a Reset or a SoftReset that started a countdown has cancelled is
\* never delivered.
THEOREM NoStaleEventHolds == Spec => NoStaleEvent
<1>1. TimerInv /\ [Next]_vars =>
        [delivered' # delivered => delivered'[Len(delivered')] \notin cancelled]_vars
  BY TimerStep
<1> QED BY <1>1, TimerInvariant, PTL DEF Spec, NoStaleEvent
=============================================================================
