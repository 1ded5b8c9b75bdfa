---------------------------- MODULE RunAfterTime ----------------------------
(***************************************************************************)
(* struct runaftertime of util/process.h: a process whose service() waits  *)
(* for a timeout, calls a callback unless it was stopped, and ends itself. *)
(* The module gives Process the body of this service() and of this         *)
(* processstop(), which notifies _cond without holding _mtx.               *)
(***************************************************************************)
EXTENDS Process

VARIABLES
  due,    \* _timeout-_timer.msecelapsed() is below zero
  svc,    \* where service() is
  fired   \* how often _callback() was called

local == <<due, svc, fired>>
rvars == <<vars, local>>

RInit == Init /\ due = FALSE /\ svc = "loop" /\ fired = 0

\* what every step of service() leaves alone, and its program counter
Stay == UNCHANGED vars
At(l) == pc[Thread] = "service" /\ svc = l
-----------------------------------------------------------------------------
\* `while (!isterminating())`
TestTerminating ==
  /\ At("loop")
  /\ svc' = IF terminating THEN "after" ELSE "clock"
  /\ Stay /\ UNCHANGED <<due, fired>>

\* `if (timeleft<0) break;`
ReadClock ==
  /\ At("clock")
  /\ svc' = IF due THEN "after" ELSE "wait"
  /\ Stay /\ UNCHANGED <<due, fired>>

\* _cond.wait_for(); a notification sent before this step is lost
WaitFor ==
  /\ At("wait")
  /\ svc' = "sleep"
  /\ Stay /\ UNCHANGED <<due, fired>>

\* mutant: wait() in place of wait_for()
WaitForever == FALSE /\ UNCHANGED rvars
WaitTimesOut ==
  /\ At("sleep") /\ due
  /\ svc' = "loop"
  /\ Stay /\ UNCHANGED <<due, fired>>

\* wait_for() also returns a little early, or without a reason
WaitReturns ==
  /\ At("sleep") /\ ~due
  /\ svc' = "loop"
  /\ Stay /\ UNCHANGED <<due, fired>>

\* mutant: calls the callback without looking at the flag again
TestStoppedIgnored ==
  /\ At("after")
  /\ svc' = "callback"
  /\ Stay /\ UNCHANGED <<due, fired>>
TestStopped ==
  /\ At("after")
  /\ svc' = IF terminating THEN "end" ELSE "callback"
  /\ Stay /\ UNCHANGED <<due, fired>>

\* the callback returns or throws into operator()()
Callback ==
  /\ At("callback")
  /\ fired' = fired + 1
  /\ \/ svc' = "end" /\ Stay
     \/ svc' = "loop" /\ ServiceThrows
  /\ UNCHANGED due

\* mutant: returns without terminateservice()
EndReturns ==
  /\ At("end")
  /\ svc' = "loop" /\ ServiceReturns
  /\ UNCHANGED <<due, fired>>
\* mutant: calls stop() on itself in place of terminateservice()
EndStops ==
  /\ At("end")
  /\ Goto(Thread, "stop")
  /\ UNCHANGED <<flags, mtx, rest, local>>
\* terminateservice(), then service() returns
End ==
  /\ At("end")
  /\ \/ TerminateService /\ svc' = svc
     \/ termself /\ svc' = "loop" /\ ServiceReturns
  /\ UNCHANGED <<due, fired>>

\* Everything of Process outside service(); processstop() notifies _cond,
\* and at_service_start() is not overridden: it does not throw.
Around(A) ==
  /\ A /\ (pc[Thread] = "atstart" => pc'[Thread] # "error")
  /\ svc' = IF stops' # stops /\ At("sleep") THEN "loop" ELSE svc
  /\ UNCHANGED <<due, fired>>

TimePasses ==
  /\ pc[Owner] # "base" /\ ~due
  /\ due' = TRUE
  /\ Stay /\ UNCHANGED <<svc, fired>>

Service ==
  \/ TestTerminating \/ ReadClock \/ WaitFor \/ WaitTimesOut \/ TestStopped \/ Callback \/ End

RNext == Around(Frame) \/ Service \/ WaitReturns \/ TimePasses

\* The fairness of Process, for this service().
PromptSpec ==
  /\ RInit /\ [][RNext]_rvars
  /\ SF_rvars(Around(Runs)) /\ SF_rvars(Around(InLifetime)) /\ WF_rvars(Service)
  /\ \A t \in Stopping : SF_rvars(Around(InStop(t)))

\* ... and the clock does not stand still.
RSpec == PromptSpec /\ WF_rvars(TimePasses)
-----------------------------------------------------------------------------
(* Properties. *)

\* The program counter of service() has its values, and the callback is
\* called once at most however often service() is entered and woken.
RTypeOK ==
  /\ due \in BOOLEAN
  /\ svc \in {"loop", "clock", "wait", "sleep", "after", "callback", "end"}
  /\ fired \in 0..1

\* The callback is never called before its time: not when wait_for() returns
\* early, and not when stop() ends the wait.
NeverEarly == At("callback") \/ fired > 0 => due

\* No callback begins or is still running after a stop() has returned.
NotAfterStop ==
  [][(\E t \in Stopping : pc[t] = "stopreturned") => fired' = fired]_rvars

\* A callback that is not stopped is called.
EventuallyFires == started ~> fired > 0 \/ terminating

\* runaftertime is a process: its service() and processstop() keep what
\* Process asks of a derived class, so what is proved there holds for it.
IsProcess == Spec

\* "processstop can be overridden, to close sockets etc, so anything waiting
\* in 'service' will exit/throw [...] if your service() is waiting on some
\* condition, notify that condition here": the destructor's stop() ends,
\* whatever the timeout.
StopIsPrompt == pc[Owner] = "stop" ~> pc[Owner] = "stopreturned"
=============================================================================
