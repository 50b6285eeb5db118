----------------------------- MODULE EventTimer -----------------------------
(***************************************************************************)
(* consensus/policy/pbft/tools: the event manager, whose goroutine hands   *)
(* one event after the other to a receiver, and the timer, whose goroutine *)
(* delivers an event to the manager's queue after a countdown.             *)
(*                                                                         *)
(* All channels are unbuffered: a call of SoftReset, Reset or Stop blocks  *)
(* its caller until the timer's loop takes it, and an event moves to the   *)
(* manager only while its loop waits.  The event thread itself calls the   *)
(* timer from inside ProcessEvent.  Every call carries an event of its     *)
(* own, the number of the call.                                            *)
(***************************************************************************)
EXTENDS Integers, Sequences

CONSTANTS
    Thread,       \* goroutines that use the timer
    EventThread,  \* the manager's goroutine
    MaxCalls      \* bound: calls of SoftReset, Reset and Stop

ASSUME TimerAssumption == EventThread \in Thread /\ MaxCalls \in Nat

VARIABLES
    timerChan,    \* a countdown is running (timerChan is not nil)
    event,        \* the event of the loop
    pending,      \* the event waits to be delivered (eventDestChan is not nil)
    loop,         \* the timer's goroutine: "run" or "exited"
    timerExit,    \* the timer's exit channel is closed
    manager,      \* the manager's goroutine: "new", "wait", "busy" or "exited"
    managerExit,  \* the manager's exit channel is closed
    call,         \* the blocked call of each thread
    calls,        \* number of calls so far
    accepted,     \* history: events whose start the loop has taken
    cancelled,    \* history: events accepted before a stop or a new countdown
    delivered     \* history: events the manager has received, in order

timerVars == <<timerChan, event, pending, loop>>
managerVars == <<manager, managerExit>>
history == <<accepted, cancelled, delivered>>
vars == <<timerVars, timerExit, managerVars, call, calls, history>>

NoEvent == 0
Number == 1 .. MaxCalls
Kind == {"none", "soft", "hard", "stop"}
Idle == [kind |-> "none", event |-> NoEvent]

TimerTypeOK ==
    /\ timerChan \in BOOLEAN /\ pending \in BOOLEAN
    /\ event \in Number \cup {NoEvent}
    /\ loop \in {"run", "exited"} /\ timerExit \in BOOLEAN
    /\ manager \in {"new", "wait", "busy", "exited"} /\ managerExit \in BOOLEAN
    /\ call \in [Thread -> [kind : Kind, event : Number \cup {NoEvent}]]
    /\ calls \in 0 .. MaxCalls
    /\ accepted \subseteq Number /\ cancelled \subseteq Number
    /\ delivered \in Seq(Number)

Init ==
    /\ timerChan = FALSE /\ event = NoEvent /\ pending = FALSE
    /\ loop = "run" /\ timerExit = FALSE
    /\ manager = "new" /\ managerExit = FALSE
    /\ call = [t \in Thread |-> Idle]
    /\ calls = 0
    /\ accepted = {} /\ cancelled = {} /\ delivered = <<>>

-----------------------------------------------------------------------------
(* The users of the timer *)

\* SoftReset, Reset or Stop up to the channel send.  The event thread makes
\* its calls while it processes an event.
Call(t, kind) ==
    /\ call[t] = Idle
    /\ t = EventThread => manager = "busy"
    /\ calls < MaxCalls
    /\ calls' = calls + 1
    /\ call' = [call EXCEPT ![t] = [kind |-> kind, event |-> calls + 1]]
    /\ UNCHANGED <<timerVars, timerExit, managerVars, history>>

SoftReset(t) == Call(t, "soft")
Reset(t) == Call(t, "hard")
Stop(t) == Call(t, "stop")

\* timerImpl.Halt closes the channel once; a second call only warns.
HaltTimer ==
    /\ ~timerExit
    /\ timerExit' = TRUE
    /\ UNCHANGED <<timerVars, managerVars, call, calls, history>>

-----------------------------------------------------------------------------
(* timerImpl.loop, one action per case of its select *)

\* A start: ignored if it is soft and a countdown is running, otherwise a new
\* countdown replaces countdown, event and pending delivery alike.
TakeStart(t) ==
    /\ loop = "run"
    /\ call[t].kind \in {"soft", "hard"}
    /\ call' = [call EXCEPT ![t] = Idle]
    /\ \/ /\ timerChan /\ call[t].kind = "soft"
          /\ UNCHANGED <<timerChan, event, pending, accepted, cancelled>>
       \/ /\ ~timerChan \/ call[t].kind = "hard"
          /\ timerChan' = TRUE
          /\ event' = call[t].event
          /\ pending' = FALSE
          /\ accepted' = accepted \cup {call[t].event}
          /\ cancelled' = cancelled \cup accepted
    /\ UNCHANGED <<loop, timerExit, managerVars, calls, delivered>>

\* Faulty variant: a pending delivery survives the stop.
TakeStopKeepsPending(t) ==
    /\ loop = "run"
    /\ call[t].kind = "stop"
    /\ call' = [call EXCEPT ![t] = Idle]
    /\ cancelled' = cancelled \cup accepted
    /\ timerChan' = FALSE
    /\ UNCHANGED <<event, pending, loop, timerExit, managerVars, calls, accepted, delivered>>

\* Faulty variant: delivery is a blocking send outside the select.
TakeStopAfterDelivery(t) ==
    /\ loop = "run"
    /\ ~pending
    /\ call[t].kind = "stop"
    /\ call' = [call EXCEPT ![t] = Idle]
    /\ cancelled' = cancelled \cup accepted
    /\ timerChan' = FALSE
    /\ event' = NoEvent
    /\ UNCHANGED <<pending, loop, timerExit, managerVars, calls, accepted, delivered>>

\* A stop clears countdown, event and pending delivery.
TakeStop(t) ==
    /\ loop = "run"
    /\ call[t].kind = "stop"
    /\ call' = [call EXCEPT ![t] = Idle]
    /\ cancelled' = cancelled \cup accepted
    /\ timerChan' = FALSE
    /\ pending' = FALSE
    /\ event' = NoEvent
    /\ UNCHANGED <<loop, timerExit, managerVars, calls, accepted, delivered>>

Fire ==
    /\ loop = "run"
    /\ timerChan
    /\ timerChan' = FALSE
    /\ pending' = TRUE
    /\ UNCHANGED <<event, loop, timerExit, managerVars, call, calls, accepted, cancelled,
                   delivered>>

\* Faulty variant: the destination is not cleared.
DeliverAgain ==
    /\ loop = "run"
    /\ pending
    /\ manager = "wait"
    /\ manager' = "busy"
    /\ delivered' = Append(delivered, event)
    /\ UNCHANGED <<timerChan, event, pending, loop, timerExit, managerExit, call, calls,
                   accepted, cancelled>>

\* The rendezvous of "eventDestChan <- event" with the manager's loop.
Deliver ==
    /\ loop = "run"
    /\ pending
    /\ manager = "wait"
    /\ pending' = FALSE
    /\ manager' = "busy"
    /\ delivered' = Append(delivered, event)
    /\ UNCHANGED <<timerChan, event, loop, timerExit, managerExit, call, calls, accepted,
                   cancelled>>

LoopExit ==
    /\ loop = "run"
    /\ timerExit
    /\ loop' = "exited"
    /\ UNCHANGED <<timerChan, event, pending, timerExit, managerVars, call, calls, history>>

-----------------------------------------------------------------------------
(* managerImpl *)

ManagerStart ==
    /\ manager = "new"
    /\ manager' = "wait"
    /\ UNCHANGED <<timerVars, timerExit, managerExit, call, calls, history>>

HaltManager ==
    /\ ~managerExit
    /\ managerExit' = TRUE
    /\ UNCHANGED <<timerVars, timerExit, manager, call, calls, history>>

\* Somebody else submits an event through Queue().
ReceiveOther ==
    /\ manager = "wait"
    /\ manager' = "busy"
    /\ UNCHANGED <<timerVars, timerExit, managerExit, call, calls, history>>

\* SendEvent ends: ProcessEvent has returned nil, no call of it is blocked.
\* (A non-nil result is processed at once and leaves the manager busy.)
FinishEvent ==
    /\ manager = "busy"
    /\ call[EventThread] = Idle
    /\ manager' = "wait"
    /\ UNCHANGED <<timerVars, timerExit, managerExit, call, calls, history>>

ManagerExit ==
    /\ manager = "wait"
    /\ managerExit
    /\ manager' = "exited"
    /\ UNCHANGED <<timerVars, timerExit, managerExit, call, calls, history>>

-----------------------------------------------------------------------------
(* Specification *)

Loop(t) == TakeStart(t) \/ TakeStop(t)

Next ==
    \/ \E t \in Thread : SoftReset(t) \/ Reset(t) \/ Stop(t) \/ TakeStart(t) \/ TakeStop(t)
    \/ Fire \/ Deliver \/ LoopExit \/ HaltTimer
    \/ ManagerStart \/ HaltManager \/ ReceiveOther \/ FinishEvent \/ ManagerExit

\* select picks among its ready cases at random, so a case that stays ready is
\* taken; ProcessEvent returns.
Fairness ==
    /\ \A t \in Thread : WF_vars(Loop(t))
    /\ WF_vars(FinishEvent)

Spec == Init /\ [][Next]_vars /\ Fairness

-----------------------------------------------------------------------------
(* Properties *)

\* Once a Stop or Reset has returned, or a SoftReset that started a countdown,
\* no event that was started before it reaches the queue, even if its countdown
\* had elapsed: what is replaced is replaced for good.
NoStaleEvent ==
    [][delivered' # delivered => delivered'[Len(delivered')] \notin cancelled]_vars

\* One start delivers at most one event, however starts, expiry and delivery
\* interleave.
DeliveredOnce ==
    \A i, j \in 1 .. Len(delivered) : delivered[i] = delivered[j] => i = j

\* A caller, the event thread above all, is blocked for good only by a timer
\* that was halted: it never deadlocks with a delivery to that very thread.
CallsReturn ==
    \A t \in Thread : call[t] # Idle ~> (call[t] = Idle \/ timerExit)

\* The inductive invariant behind the two properties on deliveries.  Blocked
\* calls carry events of their own that the loop has not seen.
CallsFresh ==
    \A t \in Thread : call[t].kind # "none" =>
        /\ call[t].event \in 1 .. calls
        /\ call[t].event \notin accepted
        /\ \A s \in Thread \ {t} : call[s].kind # "none" => call[s].event # call[t].event

\* The loop counts down or waits to deliver, never both (a new countdown, soft
\* or hard, drops the event that waits), and what it then holds is neither
\* cancelled nor delivered.
CurrentEvent ==
    /\ ~(timerChan /\ pending)
    /\ timerChan \/ pending =>
          /\ event \in accepted \ cancelled
          /\ \A i \in 1 .. Len(delivered) : delivered[i] # event

\* What the loop relies on so that no event is delivered twice or after it was
\* cancelled.
TimerInv ==
    /\ TimerTypeOK
    /\ accepted \subseteq 1 .. calls
    /\ cancelled \subseteq accepted
    /\ \A i \in 1 .. Len(delivered) : delivered[i] \in accepted
    /\ CallsFresh
    /\ CurrentEvent
    /\ DeliveredOnce
=============================================================================
