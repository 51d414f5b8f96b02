------------------------------- MODULE ClockWait -------------------------------
(***************************************************************************)
(* The finite clock tool (clock_wait.hpp and clock_wait_main.cpp): wait    *)
(* until a /clock sample reaches a target given in decimal seconds.        *)
(*                                                                         *)
(* One thread runs main() and, inside callAvailable, the callback.  The    *)
(* publishers of the topic, the wall clock, roscpp and the signals change  *)
(* at any time.                                                            *)
(***************************************************************************)
EXTENDS ClockTarget

CONSTANTS
  Texts,           \* the values of --target-seconds
  Stamps,          \* the samples: [sec, nsec]
  MaxSamples       \* bound: samples delivered

VARIABLES
  text,
  pc,
  target,          \* in nanoseconds, or Invalid; Unread before it is read
  previous,        \* previous_, or Invalid while observed_ is false
  reached, failure,
  publishers,      \* the local variable: how many there were at the last look
  connected,       \* how many publishers the topic has
  expired,         \* the wall clock has passed the deadline
  stop_requested, ros_ok,
  samples,         \* history: the stamps observe() accepted
  exit             \* the exit code, -1 before

surroundings == <<connected, expired, stop_requested, ros_ok>>
waitVars == <<previous, reached, failure, samples>>
vars == <<text, pc, target, waitVars, publishers, surroundings, exit>>

Unread == -2

-----------------------------------------------------------------------------
(* main().                                                                 *)

Init ==
  /\ text \in Texts
  /\ pc = "parse"
  /\ target = Unread
  /\ previous = Invalid
  /\ reached = FALSE
  /\ failure = FALSE
  /\ publishers = 0
  /\ connected = 0
  /\ expired = FALSE
  /\ stop_requested = FALSE
  /\ ros_ok = TRUE
  /\ samples = <<>>
  /\ exit = -1

Goto(step) == pc' = step /\ UNCHANGED exit
Return(code) == pc' = "exit" /\ exit' = code

\* The options are read and the wait is made.  Another bad option is refused
\* before the target is looked at, and a bad target by the wait.
Parse ==
  /\ pc = "parse"
  /\ \/ Return(1) /\ UNCHANGED target
     \/ /\ target' = clockTarget(text)
        /\ IF target' = Invalid THEN Return(1) ELSE Goto("start")
  /\ UNCHANGED <<text, waitVars, publishers, surroundings>>

\* The NodeHandle starts ROS, which registers the node, and the deadline is
\* set behind it.  A registration returns when a master has answered, or when
\* ROS is shut down; roscpp retries until then.
StartRos ==
  /\ pc = "start"
  /\ Goto("subscribe")
  /\ UNCHANGED <<text, target, waitVars, publishers, surroundings>>

\* subscribe() returns, another registration.  Nothing looks at the deadline
\* or at the signal until then.
Subscribe ==
  /\ pc = "subscribe"
  /\ Goto("loop")
  /\ UNCHANGED <<text, target, waitVars, publishers, surroundings>>

\* Whether the loop goes on, and how many publishers there are.
Look ==
  /\ pc = "loop"
  /\ IF ~stop_requested /\ ros_ok /\ ~reached /\ ~failure
     THEN Goto("judge") /\ publishers' = connected
     ELSE Goto("after") /\ UNCHANGED publishers
  /\ UNCHANGED <<text, target, waitVars, surroundings>>

Stopped == stop_requested \/ ~ros_ok
Alone == publishers <= 1 /\ (previous # Invalid => publishers = 1)

\* Mutant: only the callback watches the deadline.
JudgeUntimed ==
  /\ pc = "judge"
  /\ \/ Stopped /\ Return(130)
     \/ ~Stopped /\ ~Alone /\ Return(1)
     \/ ~Stopped /\ Alone /\ Goto("spin")
  /\ UNCHANGED <<text, target, waitVars, publishers, surroundings>>

\* The checks of one turn: stopped, too many or no publishers, too late.
Judge ==
  /\ pc = "judge"
  /\ \/ Stopped /\ Return(130)
     \/ ~Stopped /\ (~Alone \/ expired) /\ Return(1)
     \/ ~Stopped /\ Alone /\ ~expired /\ Goto("spin")
  /\ UNCHANGED <<text, target, waitVars, publishers, surroundings>>

Throw == failure' = TRUE /\ UNCHANGED <<previous, reached, samples>>

\* Bad nanoseconds and a clock that moved backwards throw; any other stamp is
\* remembered and compared with the target.
observe(message) ==
  LET stamp == message.sec * Second + message.nsec
  IN IF message.nsec >= Second \/ stamp < previous
     THEN Throw
     ELSE /\ previous' = stamp
          /\ reached' = (stamp >= target)
          /\ samples' = Append(samples, stamp)
          /\ UNCHANGED failure

\* The callback, in callAvailable.  Once the wait is over it returns at once.
Receive(message) ==
  /\ pc = "spin" /\ ~reached /\ ~failure /\ Len(samples) < MaxSamples
  /\ IF expired THEN Throw ELSE observe(message)
  /\ UNCHANGED <<text, pc, target, publishers, surroundings, exit>>

\* callAvailable returns, with or without a callback.
SpinEnds ==
  /\ pc = "spin"
  /\ Goto("loop")
  /\ UNCHANGED <<text, target, waitVars, publishers, surroundings>>

\* Behind the loop.
Finish ==
  /\ pc = "after"
  /\ Return(CASE stop_requested                         -> 130
              [] ~stop_requested /\ failure             -> 1
              [] ~stop_requested /\ ~failure /\ ~reached -> 130
              [] OTHER -> IF connected > 1 THEN 1 ELSE 0)
  /\ UNCHANGED <<text, target, waitVars, publishers, surroundings>>

\* The steps main() takes by itself, and those it waits for a master in.
Work == Parse \/ Look \/ Judge \/ SpinEnds \/ Finish
Register == StartRos \/ Subscribe
Main == Work \/ Register

-----------------------------------------------------------------------------
(* The surroundings.                                                       *)

quiet == <<text, pc, target, waitVars, publishers, exit>>

\* main() has set its signal handlers, and has not returned.
Underway == pc \notin {"parse", "exit"}

PublishersChange ==
  /\ Underway
  /\ connected' \in 0..2
  /\ UNCHANGED <<quiet, expired, stop_requested, ros_ok>>

DeadlinePasses ==
  /\ Underway /\ pc # "start" /\ ~expired
  /\ expired' = TRUE
  /\ UNCHANGED <<quiet, connected, stop_requested, ros_ok>>

requestStop ==
  /\ Underway
  /\ stop_requested' = TRUE
  /\ UNCHANGED <<quiet, connected, expired, ros_ok>>

RosShutdown ==
  /\ Underway
  /\ ros_ok' = FALSE
  /\ UNCHANGED <<quiet, connected, expired, stop_requested>>

Next ==
  \/ Main \/ (\E message \in Stamps : Receive(message))
  \/ PublishersChange \/ DeadlinePasses \/ requestStop \/ RosShutdown

Spec == Init /\ [][Next]_vars

-----------------------------------------------------------------------------
(* Properties.                                                             *)

\* clockTarget takes exactly the decimals ROS time can hold, and "Decimal
\* seconds are rounded up to the next representable ROS nanosecond".
TargetExact ==
  target # Unread =>
    /\ target # Invalid <=> IsDecimal(text) /\ Digits(text) <= UINT32_MAX * Scale(text)
    /\ target # Invalid => /\ target * Scale(text) >= Digits(text) * Second
                           /\ (target - 1) * Scale(text) < Digits(text) * Second

\* Success means what the README says: the last sample is the first one that
\* is not before the target as it was written, the clock never went back, and
\* no look of the loop found several publishers.
SuccessIsReal ==
  exit = 0 =>
    /\ samples # <<>> /\ publishers <= 1
    /\ \A i \in DOMAIN samples :
         /\ samples[i] * Scale(text) >= Digits(text) * Second <=> i = Len(samples)
         /\ \A j \in 1..i : samples[j] <= samples[i]
=============================================================================
