---------------------------- MODULE HostedTimer -----------------------------
(***************************************************************************)
(* The timers of the ports that run on another operating system:           *)
(* src/src/modules/timer_linux.cpp, whose handler is a signal of the one   *)
(* thread, src/src/modules/timer_macos.cpp, whose handlers run on threads  *)
(* of their own, one at a time for each dispatch source, and               *)
(* src/src/modules/timer_dos.cpp, whose handler is an interrupt and calls  *)
(* the one it found installed.                                             *)
(*                                                                         *)
(* On Linux and macOS each call of enable makes one more timer and keeps   *)
(* only the last one in its variable.  The preemptor the handlers call is  *)
(* in PreemptTimer.                                                        *)
(***************************************************************************)
EXTENDS Integers, Sequences

CONSTANTS
  Ports,      \* "linux", "macos", "dos"
  Waits,      \* the delays asked for
  MaxCalls,   \* bound: the calls of the timer's functions
  MaxTick     \* bound: the ticks

ASSUME HostedAssumption ==
  /\ Ports \subseteq {"linux", "macos", "dos"}
  /\ Waits \subseteq Nat
  /\ MaxCalls \in Nat /\ MaxTick \in Nat

VARIABLES
  port,
  tick,          \* current_tick_
  timer_active,
  timer_speed,   \* interrupts in a second; on DOS what the counter counts down from
  held,          \* for each timer, how often it is held up
  armed,         \* how many of the timers were set
  in_service,    \* installed_timer_interrupt_in_service
  handler,       \* for each timer, where its handler is
  seen,          \* for each timer, the tick its handler read
  caller,        \* what the program does: "enable", "suspend", "resume", "delay", ...
  steps,         \* the steps left of what it does
  calls,         \* how many calls it made
  until,         \* finish_at of delay
  paused,        \* history: suspend returned, and resume was not called yet
  vector,        \* on DOS, whose the handler of the timer interrupt is: "bios" or "isr"
  old_timer      \* on DOS, and the one it calls

dos_vars == <<vector, old_timer>>
hosted_vars == <<port, tick, timer_active, timer_speed, held, armed, in_service, handler, seen,
                 caller, steps, calls, until, paused, dos_vars>>

HostedInit ==
  /\ port \in Ports
  /\ tick = 0
  /\ timer_active = FALSE
  /\ timer_speed = IF port = "dos" THEN 0 ELSE 1000
  /\ held = <<>>
  /\ armed = 0
  /\ in_service = FALSE
  /\ handler = <<>>
  /\ seen = <<>>
  /\ caller = "boot"
  /\ steps = <<>>
  /\ calls = 0
  /\ until = 0
  /\ paused = FALSE
  /\ vector = "bios" /\ old_timer = "bios"

-----------------------------------------------------------------------------
(***************************************************************************)
(* vector.  On Linux the program stands still meanwhile, and the signal of *)
(* every timer is held up.                                                 *)
(***************************************************************************)
Idle == \A s \in DOMAIN handler : handler[s] = "idle"

Handles(s, from, to) ==
  /\ s \in DOMAIN handler
  /\ handler[s] = from
  /\ handler' = [handler EXCEPT ![s] = to]
  /\ UNCHANGED <<port, timer_active, timer_speed, held, armed, caller, steps, calls,
                 until, paused>>

Fire(s) ==
  /\ Handles(s, "idle", IF in_service THEN "idle" ELSE "claim")
  /\ s <= armed /\ held[s] = 0
  /\ port = "linux" => Idle
  /\ UNCHANGED <<tick, in_service, seen>>

Claim(s) ==
  /\ Handles(s, "claim", "read")
  /\ in_service' = TRUE
  /\ UNCHANGED <<tick, seen>>

\* current_tick_++ is a load and a store.
ReadTick(s) ==
  /\ Handles(s, "read", "write")
  /\ seen' = [seen EXCEPT ![s] = tick]
  /\ UNCHANGED <<tick, in_service>>

WriteTick(s) ==
  /\ tick < MaxTick /\ seen[s] < MaxTick
  /\ Handles(s, "write", "leave")
  /\ tick' = seen[s] + 1
  /\ UNCHANGED <<in_service, seen>>

LeaveHandler(s) ==
  /\ Handles(s, "leave", "idle")
  /\ in_service' = FALSE
  /\ UNCHANGED <<tick, seen>>

-----------------------------------------------------------------------------
(***************************************************************************)
(* The functions of the timer, in steps.  Linux holds up the signal, and   *)
(* with it every timer; macOS counts how often the last source is          *)
(* suspended, and a new one is to begin with.                              *)
(***************************************************************************)
EnableSteps ==
  IF port = "linux"
  THEN <<"hold", "create", "let go", "speed", "zero", "let go", "active">>
  ELSE <<"create", "speed", "zero", "let go", "active">>

\* A faulty disable_timer that only notes that the timer is not active.
DisableSteps_noted == <<"inactive">>

DisableSteps == <<"inactive", "hold">>
ResumeSteps == <<"let go", "active">>

Hold ==
  IF port = "linux" THEN [s \in DOMAIN held |-> 1]
  ELSE [held EXCEPT ![Len(held)] = @ + 1]

LetGo ==
  IF port = "linux" THEN [s \in DOMAIN held |-> 0]
  ELSE [held EXCEPT ![Len(held)] = @ - 1]

Clamped(speed) == IF speed <= 0 THEN 1 ELSE IF speed >= 10000 THEN 10000 ELSE speed

\* The program's next step, which does the first of the steps that are left.
ProgramRuns == caller # "exited" /\ (port = "linux" => Idle)

TimerStep ==
  /\ ProgramRuns /\ steps # <<>> /\ caller # "delay"
  /\ steps' = Tail(steps)
  /\ paused' = (paused \/ (caller = "suspend" /\ Len(steps) = 1))
  /\ LET step == Head(steps)
     IN  /\ held' = CASE step = "hold" -> Hold
                      [] step = "let go" -> LetGo
                      [] step = "create" -> Append(held, 1)
                      [] OTHER -> held
         /\ handler' = IF step = "create" THEN Append(handler, "idle") ELSE handler
         /\ seen' = IF step = "create" THEN Append(seen, 0) ELSE seen
         /\ armed' = IF step = "speed" THEN Len(held) ELSE armed
         /\ timer_speed' = IF step = "speed" THEN IF port = "linux" THEN 1000 ELSE 100
                           ELSE timer_speed
         /\ tick' = IF step = "zero" THEN 0 ELSE tick
         /\ timer_active' = (step = "active" \/ (timer_active /\ step # "inactive"))
  /\ UNCHANGED <<port, in_service, caller, calls, until>>

Calls(function, work) ==
  /\ ProgramRuns /\ steps = <<>> /\ caller # "delay"
  /\ caller' = function
  /\ steps' = work
  /\ calls < MaxCalls
  /\ calls' = calls + 1
  /\ UNCHANGED <<port, tick, timer_active, held, armed, in_service, handler, seen>>

Enable ==
  /\ Calls("enable", EnableSteps)
  /\ ~paused
  /\ UNCHANGED <<timer_speed, until, paused>>

\* The pause key, which then waits for another one, and disable at the end.
Suspend ==
  /\ Calls("suspend", DisableSteps)
  /\ timer_active
  /\ UNCHANGED <<timer_speed, until, paused>>

Resume ==
  /\ Calls("resume", ResumeSteps)
  /\ paused /\ paused' = FALSE
  /\ UNCHANGED <<timer_speed, until>>

\* speed_up_timer and slow_down_timer.  An interval of a whole second is more
\* nanoseconds than Linux takes: the program exits.
ChangeSpeed ==
  /\ timer_active
  /\ \E speed \in {2*timer_speed, timer_speed \div 2} :
       /\ timer_speed' = Clamped(speed)
       /\ Calls(IF port = "linux" /\ Clamped(speed) = 1 THEN "exited" ELSE "speed", <<>>)
  /\ UNCHANGED <<until, paused>>

\* delay: the ticks it waits for are those after it read the tick.
Delay(n) ==
  /\ ~paused
  /\ IF timer_active THEN Calls("delay", <<"check">>) ELSE Calls("exited", <<>>)
  /\ until' = tick + n
  /\ UNCHANGED <<timer_speed, paused>>

\* It exits when it finds more ticks than it waits for already.
CheckDelay ==
  /\ ProgramRuns /\ caller = "delay" /\ steps # <<>>
  /\ caller' = IF tick > until THEN "exited" ELSE "delay"
  /\ steps' = <<>>
  /\ UNCHANGED <<port, tick, timer_active, timer_speed, held, armed, in_service, handler, seen,
                 calls, until, paused>>

EndDelay ==
  /\ ProgramRuns /\ caller = "delay" /\ steps = <<>>
  /\ tick >= until
  /\ caller' = "delayed"
  /\ UNCHANGED <<port, tick, timer_active, timer_speed, held, armed, in_service, handler, seen,
                 steps, calls, until, paused>>

-----------------------------------------------------------------------------
(***************************************************************************)
(* The functions of the DOS port, which run with the interrupts off, and   *)
(* its handler.                                                            *)
(***************************************************************************)
CounterRange == 65536

DosCall(function) ==
  /\ caller \notin {"exited", "delay"} /\ calls < MaxCalls
  /\ calls' = calls + 1
  /\ caller' = function

\* Both take what handles the interrupt for the old handler: called once more,
\* that is the timer's own.
Installs ==
  /\ old_timer' = vector
  /\ vector' = "isr"
  /\ timer_speed' = 1024
  /\ timer_active' = TRUE

DosEnable == DosCall("enable") /\ ~paused /\ Installs /\ tick' = 0 /\ UNCHANGED paused

DosResume == DosCall("resume") /\ paused /\ Installs /\ paused' = FALSE /\ UNCHANGED tick

DosSuspend ==
  /\ DosCall("suspend") /\ timer_active
  /\ timer_active' = FALSE
  /\ timer_speed' = 0
  /\ vector' = old_timer
  /\ paused' = TRUE
  /\ UNCHANGED <<tick, old_timer>>

\* Faster and slower, which double and halve what is counted down from.
DosChangeSpeed ==
  /\ DosCall("speed") /\ timer_active
  /\ \/ timer_speed' = (timer_speed*2) % CounterRange
     \/ timer_speed' = (IF timer_speed = 0 THEN CounterRange - 1 ELSE timer_speed) \div 2
  /\ UNCHANGED <<tick, timer_active, vector, old_timer, paused>>

\* run_timer_isr; called by itself it returns at once.
DosTick ==
  /\ caller # "exited" /\ vector = "isr" /\ tick < MaxTick
  /\ tick' = tick + 1
  /\ UNCHANGED <<timer_active, timer_speed, caller, calls, vector, old_timer, paused>>

DosNext ==
  /\ DosEnable \/ DosResume \/ DosSuspend \/ DosChangeSpeed \/ DosTick
  /\ UNCHANGED <<port, held, armed, in_service, handler, seen, steps, until>>

-----------------------------------------------------------------------------
HostedNext ==
  \/ /\ port # "dos" /\ UNCHANGED dos_vars
     /\ \/ \E s \in DOMAIN handler : Fire(s) \/ Claim(s) \/ ReadTick(s) \/ WriteTick(s)
                                     \/ LeaveHandler(s)
        \/ TimerStep \/ Enable \/ Suspend \/ Resume \/ ChangeSpeed
  \/ port = "dos" /\ DosNext
  \/ /\ UNCHANGED dos_vars
     /\ (\E n \in Waits : Delay(n)) \/ CheckDelay \/ EndDelay

HostedSpec == HostedInit /\ [][HostedNext]_hosted_vars

-----------------------------------------------------------------------------
\* On Linux, on macOS while there is one source, and on DOS while the handler
\* did not take itself for the one before it, the timer is one clock: it counts
\* up by one, stands still while it is paused, but for a handler that had begun,
\* and goes back only when it is enabled (timer_linux.cpp:200,
\* timer_macos.cpp:424, timer_dos.cpp:133).
OneClock ==
  [][ (port = "macos" => Len(held) = 1) /\ (port = "dos" => old_timer = "bios") =>
        \/ tick' = tick
        \/ tick' = tick + 1 /\ (paused => port = "macos" /\ ~Idle)
        \/ tick' = 0 /\ caller' = "enable" ]_hosted_vars
=============================================================================
