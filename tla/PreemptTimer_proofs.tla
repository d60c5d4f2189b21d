------------------------- MODULE PreemptTimer_proofs -------------------------
(***************************************************************************)
(* The driver of the interrupt implements the preemptor, for any tasks,    *)
(* bounds and margin: the proofs for module PreemptTimer.                  *)
(***************************************************************************)
EXTENDS PreemptTimer, TLAPS

\* The initial state satisfies the invariant.
LEMMA TimerInit == Init => TimerInv
<1> SUFFICES ASSUME Init PROVE TimerInv OBVIOUS
<1> USE TimerAssumption DEF TimerAssumption, Init
<1>1. TypeOK BY DEF TypeOK
<1>2. \A h \in Handlers : HandlerInv(h) BY DEF HandlerInv, Ticking
<1>3. LoopInv BY DEF LoopInv, Nothing, Running
<1> QED BY <1>1, <1>2, <1>3 DEF TimerInv

\* While the run loop takes a step, no handler is in flight.
LEMMA LoopAlone ==
  ASSUME ~Threaded, TimerInv, NEW from, LoopStep(from)
  PROVE  /\ \A h \in Handlers : at[h] = "idle" /\ ~in_service
         /\ Running /\ pc = from
         /\ UNCHANGED <<tick, in_service, at, seen, blamed>>
         /\ active => pc \in {"uninstalling", "installing"}
         /\ Armed <=> preempt_at_tick # 0 /\ user_func /\ ~active
         /\ now = tick
         /\ Running' => now' = tick
         /\ \A h \in Handlers : HandlerInv(h)'
<1>1. \A h \in Handlers : at[h] = "idle" BY DEF LoopStep, LoopRuns
<1>2. \A h \in Handlers : ~in_service BY <1>1 DEF TimerInv, HandlerInv
<1>3. active => pc \in {"uninstalling", "installing"} BY <1>1 DEF TimerInv, LoopInv, Calling
<1>4. \A h \in Handlers : HandlerInv(h)' BY <1>1, <1>2 DEF HandlerInv, LoopStep, Ticking
<1>5. Armed <=> preempt_at_tick # 0 /\ user_func /\ ~active BY <1>1 DEF Armed, Calling
<1>6. now = tick /\ (Running' => now' = tick) BY <1>1 DEF now, LoopStep, Ticking
<1> QED BY <1>1, <1>2, <1>3, <1>4, <1>5, <1>6 DEF LoopStep, LoopRuns

\* The steps of install and uninstall, and those around them, keep the invariant.
LEMMA StoreInv ==
  ASSUME ~Threaded, TimerInv, NEW s \in {"at", "func", "data"}, Store(s) PROVE TimerInv'
<1> USE TimerAssumption DEF TimerAssumption
<1>0. LoopStep(pc) BY DEF Store
<1>1. TypeOK' BY <1>0 DEF TimerInv, TypeOK, Store, LoopStep
<1>2. \A h \in Handlers : HandlerInv(h)' BY <1>0, LoopAlone
<1>3. pc \in {"uninstalling", "installing"} BY <1>0, LoopAlone DEF Store, TimerInv, LoopInv
<1>4. LoopInv'
  <2> USE <1>0, LoopAlone DEF TimerInv, LoopInv, TypeOK, Running
  <2>1. UNCHANGED <<active, pc, task, event_time, tick, blamed>> /\ stores' = stores \ {s}
    BY DEF Store
  <2>2. CASE pc = "installing"
    <3>1. Installing' BY <2>1, <2>2 DEF Store, Installing
    <3> QED BY <2>1, <2>2, <3>1 DEF Store
  <2>3. CASE pc = "uninstalling" /\ task = NoTask
    <3>1. Uninstalling' BY <2>1, <2>3 DEF Store, Uninstalling, Armed
    <3> QED BY <2>1, <2>3, <3>1 DEF Store
  <2>4. CASE pc = "uninstalling" /\ task # NoTask
    <3>1. Nothing' BY <2>1, <2>4 DEF Store, Nothing
    <3> QED BY <2>1, <2>4, <3>1 DEF Store
  <2> QED BY <1>3, <2>2, <2>3, <2>4
<1> QED BY <1>1, <1>2, <1>4 DEF TimerInv

LEMMA NextTaskInv == ASSUME ~Threaded, TimerInv, NextTask PROVE TimerInv'
<1>0. LoopStep("loop") BY DEF NextTask
<1>1. TypeOK' BY <1>0, TimerAssumption DEF TimerAssumption, TimerInv, TypeOK, NextTask, LoopStep
<1>3. LoopInv'
  <2>1. Nothing' BY <1>0, LoopAlone DEF NextTask, TimerInv, LoopInv, Nothing
  <2> QED
    BY <1>0, LoopAlone, <2>1, TimerAssumption
    DEF TimerAssumption, NextTask, TimerInv, LoopInv, TypeOK, Running
<1>2. \A h \in Handlers : HandlerInv(h)' BY <1>0, LoopAlone
<1> QED BY <1>1, <1>2, <1>3 DEF TimerInv

LEMMA TaskReturnsInv == ASSUME ~Threaded, TimerInv, TaskReturns PROVE TimerInv'
<1>0. LoopStep("run") BY DEF TaskReturns
<1>1. TypeOK' BY <1>0, TimerAssumption DEF TimerAssumption, TimerInv, TypeOK, TaskReturns, LoopStep
<1>3. LoopInv'
  <2>1. Installed' BY <1>0, LoopAlone DEF TaskReturns, TimerInv, LoopInv, Installed, Running
  <2> QED
    BY <1>0, LoopAlone, <2>1, TimerAssumption
    DEF TimerAssumption, TaskReturns, TimerInv, LoopInv, TypeOK, Running
<1>2. \A h \in Handlers : HandlerInv(h)' BY <1>0, LoopAlone
<1> QED BY <1>1, <1>2, <1>3 DEF TimerInv

LEMMA UninstallInv == ASSUME ~Threaded, TimerInv, Uninstall PROVE TimerInv'
<1>0. LoopStep("uninstall") BY DEF Uninstall
<1>1. TypeOK' BY <1>0, TimerAssumption DEF TimerAssumption, TimerInv, TypeOK, Uninstall, LoopStep, Claimed
<1>3. LoopInv'
  <2>1. CASE task = NoTask
    <3>1. Uninstalling'
      BY <1>0, <2>1, LoopAlone
      DEF Uninstall, TimerInv, LoopInv, Installed, Uninstalling, Running, TypeOK
    <3> QED BY <1>0, LoopAlone, <2>1, <3>1 DEF Uninstall, TimerInv, LoopInv, TypeOK, Running
  <2>2. CASE task # NoTask
    <3>1. Nothing' BY <1>0, <2>2, LoopAlone DEF Uninstall, TimerInv, LoopInv, Nothing
    <3> QED BY <1>0, LoopAlone, <2>2, <3>1 DEF Uninstall, TimerInv, LoopInv, TypeOK, Running
  <2> QED BY <2>1, <2>2
<1>2. \A h \in Handlers : HandlerInv(h)' BY <1>0, LoopAlone
<1> QED BY <1>1, <1>2, <1>3 DEF TimerInv

LEMMA CallInstallInv == ASSUME ~Threaded, TimerInv, CallInstall PROVE TimerInv'
<1>0. LoopStep("arm") BY DEF CallInstall
<1>4. /\ task \in Tasks /\ Bound[task] \in Nat
      /\ FudgeMargin \in Nat /\ FudgeMargin # 0 /\ tick \in Nat
  BY <1>0, LoopAlone, TimerAssumption DEF TimerAssumption, TimerInv, LoopInv, TypeOK
<1>5. /\ event_time' = tick + Bound[task] + FudgeMargin
      /\ tick' = tick /\ task' = task /\ pc' = "install"
  BY <1>0 DEF CallInstall, LoopStep
<1>6. event_time' \in Nat BY <1>4, <1>5
<1>1. TypeOK' BY <1>0, <1>6 DEF TimerInv, TypeOK, CallInstall, LoopStep
<1>3. LoopInv'
  <2>1. Nothing' BY <1>0, LoopAlone DEF CallInstall, TimerInv, LoopInv, Nothing
  <2>2. tick' < event_time' /\ event_time' <= tick' + Bound[task'] + FudgeMargin
    BY <1>4, <1>5
  <2> QED BY <1>0, LoopAlone, <1>4, <1>5, <2>1, <2>2 DEF CallInstall, TimerInv, LoopInv, Running
<1>2. \A h \in Handlers : HandlerInv(h)' BY <1>0, LoopAlone
<1> QED BY <1>1, <1>2, <1>3 DEF TimerInv

LEMMA InstallInv == ASSUME ~Threaded, TimerInv, Install PROVE TimerInv'
<1>0. LoopStep("install") BY DEF Install
<1>1. TypeOK' BY <1>0, TimerAssumption DEF TimerAssumption, TimerInv, TypeOK, Install, LoopStep, Claimed
<1>4. ~user_func /\ ~active BY <1>0, LoopAlone DEF TimerInv, LoopInv, Nothing
<1>5. /\ pc' = "installing" /\ stores' = {"at", "func", "data"}
      /\ UNCHANGED <<preempt_at_tick, user_func, user_data, task, event_time, tick, blamed>>
  BY <1>0, <1>4, LoopAlone DEF Install
<1>3. LoopInv'
  <2>1. Installing' BY <1>0, <1>5, LoopAlone DEF TimerInv, LoopInv, Nothing, Installing
  <2>2. tick' < event_time' /\ event_time' <= tick' + Bound[task'] + FudgeMargin
    BY <1>0, <1>5, LoopAlone DEF TimerInv, LoopInv
  <2> QED BY <1>0, LoopAlone, <1>5, <2>1, <2>2 DEF TimerInv, LoopInv, Running
<1>2. \A h \in Handlers : HandlerInv(h)' BY <1>0, LoopAlone
<1> QED BY <1>1, <1>2, <1>3 DEF TimerInv

LEMMA ReturnInv == ASSUME ~Threaded, TimerInv, Return PROVE TimerInv'
<1>0. LoopStep(pc) BY DEF Return
<1>1. TypeOK' BY <1>0, TimerAssumption DEF TimerAssumption, TimerInv, TypeOK, Return, LoopStep, AfterReturn
<1>4. /\ ~active' /\ stores' = {} /\ stores = {}
      /\ UNCHANGED <<preempt_at_tick, user_func, user_data, task, event_time, tick, blamed>>
  BY <1>0, LoopAlone DEF Return
<1>3. LoopInv'
  <2>1. CASE pc = "installing"
    <3>1. pc' = "run" BY <2>1 DEF Return, AfterReturn
    <3>2. now' = tick BY <1>0, LoopAlone, <3>1 DEF Running
    <3>3. /\ task \in Tasks /\ tick < event_time /\ Installing
          /\ tick \in Nat /\ event_time \in Nat
      BY <2>1 DEF TimerInv, LoopInv, TypeOK
    <3>4. preempt_at_tick = event_time /\ user_func /\ user_data = task
      BY <1>4, <3>3 DEF Installing
    <3>5. Installed' /\ user_data' = task'
      BY <1>4, <3>2, <3>3, <3>4 DEF Installed
    <3> QED BY <1>0, LoopAlone, <1>4, <2>1, <3>1, <3>5 DEF TimerInv, LoopInv, Running
  <2>2. CASE pc = "uninstalling"
    <3>1. pc' = IF task = NoTask THEN "loop" ELSE "arm" BY <2>2 DEF Return, AfterReturn
    <3>2. Nothing' BY <1>4, <2>2 DEF TimerInv, LoopInv, Uninstalling, Nothing
    <3> QED
      BY <1>0, LoopAlone, <1>4, <2>2, <3>1, <3>2 DEF TimerInv, LoopInv, TypeOK, Running
  <2> QED BY <2>1, <2>2 DEF Return
<1>2. \A h \in Handlers : HandlerInv(h)' BY <1>0, LoopAlone
<1> QED BY <1>1, <1>2, <1>3 DEF TimerInv

-----------------------------------------------------------------------------
\* What a step of the only handler changes, and what depends on where it is.
LEMMA HandlerMoves ==
  ASSUME ~Threaded, TimerInv, NEW h \in Handlers, NEW from, NEW to, HandlerStep(h, from, to)
  PROVE  /\ Running /\ at[h] = from /\ at'[h] = to
         /\ \A g \in Handlers : g = h
         /\ now = IF Ticking(h) THEN tick - 1 ELSE tick
         /\ Running' => now' = IF Ticking(h)' THEN tick' - 1 ELSE tick'
         /\ Armed <=> preempt_at_tick # 0 /\ user_func /\ (~active \/ from = "call")
         /\ Armed' <=> preempt_at_tick' # 0 /\ user_func' /\ (~active' \/ to = "call")
         /\ (\E g \in Handlers : Calling(g)) <=> from = "call"
         /\ (\E g \in Handlers : Calling(g))' <=> to = "call"
<1>1. \A g \in Handlers : g = h BY TimerAssumption DEF TimerAssumption
<1>2. Running /\ at[h] = from /\ at'[h] = to BY DEF HandlerStep, TimerInv, TypeOK
<1>3. (\E g \in Handlers : Calling(g)) <=> from = "call" BY <1>1, <1>2 DEF Calling
<1>4. (\E g \in Handlers : Calling(g))' <=> to = "call" BY <1>1, <1>2 DEF Calling
<1>5. Armed <=> preempt_at_tick # 0 /\ user_func /\ (~active \/ from = "call")
  BY <1>3 DEF Armed
<1>6. Armed' <=> preempt_at_tick' # 0 /\ user_func' /\ (~active' \/ to = "call")
  BY <1>4 DEF Armed
<1>7. now = IF Ticking(h) THEN tick - 1 ELSE tick BY <1>1, <1>2 DEF now
<1>8. Running' => now' = IF Ticking(h)' THEN tick' - 1 ELSE tick' BY <1>1, <1>2 DEF now
<1> QED BY <1>1, <1>2, <1>3, <1>4, <1>5, <1>6, <1>7, <1>8

\* A step of the handler that the run loop cannot notice.
LEMMA Unnoticed ==
  ASSUME LoopInv, Running, UNCHANGED <<loop_vars, preempt_at_tick, user_func, user_data, blamed>>,
         now' = now, Armed' => Armed,
         active' => (\E h \in Handlers : Calling(h))' \/ pc \in {"uninstalling", "installing"},
         pc \in {"install", "installing"} =>
           tick' < event_time /\ event_time <= tick' + Bound[task] + FudgeMargin
  PROVE  LoopInv'
<1>1. Running' /\ UNCHANGED <<pc, task, event_time, stores>> BY DEF loop_vars, Running
<1>2. Nothing => Nothing' BY DEF Nothing
<1>3. Installed => Installed' BY <1>1 DEF Installed
<1>4. Uninstalling => Uninstalling' BY <1>1 DEF Uninstalling
<1>5. Installing => Installing' BY <1>1 DEF Installing
<1> QED BY <1>1, <1>2, <1>3, <1>4, <1>5 DEF LoopInv

LEMMA InterruptInv ==
  ASSUME ~Threaded, TimerInv, NEW h \in Handlers, Interrupt(h)
  PROVE  TimerInv' /\ UNCHANGED P!vars
<1>1. HandlerStep(h, "idle", "serve") BY DEF Interrupt
<1>2. /\ UNCHANGED <<tick, preempt_at_tick, user_func, user_data,
                 active, in_service, pc, task, event_time, stores, seen,
                 blamed>>
      /\ ~in_service /\ TickAllowed
  BY DEF Interrupt, timer_vars, loop_vars
<1>3. /\ Running /\ Running' /\ at[h] = "idle" /\ at'[h] = "serve"
      /\ now' = now /\ (Armed' <=> Armed)
      /\ (active' => (\E g \in Handlers : Calling(g))' \/ pc \in {"uninstalling", "installing"})
  <2>1. /\ Running /\ Running' /\ at[h] = "idle" /\ at'[h] = "serve"
        /\ \A g \in Handlers : g = h
    BY <1>1, <1>2, HandlerMoves DEF Running
  <2>2. now' = now BY <1>1, <1>2, <2>1, HandlerMoves DEF Ticking, TimerInv, TypeOK
  <2>3. Armed' <=> Armed BY <1>2, <2>1 DEF Armed, Calling
  <2>4. active' => (\E g \in Handlers : Calling(g))' \/ pc \in {"uninstalling", "installing"}
    BY <1>2, <2>1 DEF TimerInv, LoopInv, Calling
  <2> QED BY <2>1, <2>2, <2>3, <2>4
<1>4. TypeOK' BY <1>1, <1>2 DEF TimerInv, TypeOK, HandlerStep
<1>5. HandlerInv(h)' BY <1>2, <1>3 DEF TimerInv, TypeOK, HandlerInv, Ticking, Due, TickAllowed
<1>6. LoopInv' BY <1>2, <1>3, Unnoticed DEF TimerInv, LoopInv, loop_vars
<1>7. UNCHANGED P!vars BY <1>2, <1>3 DEF P!vars, watched, due
<1> QED BY <1>1, <1>4, <1>5, <1>6, <1>7, HandlerMoves DEF TimerInv

LEMMA ServeInv ==
  ASSUME ~Threaded, TimerInv, NEW h \in Handlers, Serve(h)
  PROVE  TimerInv' /\ UNCHANGED P!vars
<1>1. HandlerStep(h, "serve", "read tick") BY DEF Serve
<1>2. /\ UNCHANGED <<tick, preempt_at_tick, user_func, user_data,
                 active, pc, task, event_time, stores, seen, blamed>>
      /\ in_service' = TRUE
  BY DEF Serve, timer_vars, loop_vars
<1>3. /\ Running /\ Running' /\ at[h] = "serve" /\ at'[h] = "read tick"
      /\ now' = now /\ (Armed' <=> Armed)
      /\ (active' => (\E g \in Handlers : Calling(g))' \/ pc \in {"uninstalling", "installing"})
  <2>1. /\ Running /\ Running' /\ at[h] = "serve" /\ at'[h] = "read tick"
        /\ \A g \in Handlers : g = h
    BY <1>1, <1>2, HandlerMoves DEF Running
  <2>2. now' = now BY <1>1, <1>2, <2>1, HandlerMoves DEF Ticking, TimerInv, TypeOK
  <2>3. Armed' <=> Armed BY <1>2, <2>1 DEF Armed, Calling
  <2>4. active' => (\E g \in Handlers : Calling(g))' \/ pc \in {"uninstalling", "installing"}
    BY <1>2, <2>1 DEF TimerInv, LoopInv, Calling
  <2> QED BY <2>1, <2>2, <2>3, <2>4
<1>4. TypeOK' BY <1>1, <1>2 DEF TimerInv, TypeOK, HandlerStep
<1>5. HandlerInv(h)' BY <1>2, <1>3 DEF TimerInv, TypeOK, HandlerInv, Ticking, Due
<1>6. LoopInv' BY <1>2, <1>3, Unnoticed DEF TimerInv, LoopInv, loop_vars
<1>7. UNCHANGED P!vars BY <1>2, <1>3 DEF P!vars, watched, due
<1> QED BY <1>1, <1>4, <1>5, <1>6, <1>7, HandlerMoves DEF TimerInv

LEMMA ReadTickInv ==
  ASSUME ~Threaded, TimerInv, NEW h \in Handlers, ReadTick(h)
  PROVE  TimerInv' /\ UNCHANGED P!vars
<1>1. HandlerStep(h, "read tick", "write tick") BY DEF ReadTick
<1>2. /\ UNCHANGED <<tick, preempt_at_tick, user_func, user_data,
                 active, in_service, pc, task, event_time, stores, blamed>>
      /\ seen' = [seen EXCEPT ![h] = tick]
  BY DEF ReadTick, timer_vars, loop_vars
<1>3. /\ Running /\ Running' /\ at[h] = "read tick" /\ at'[h] = "write tick"
      /\ now' = now /\ (Armed' <=> Armed)
      /\ (active' => (\E g \in Handlers : Calling(g))' \/ pc \in {"uninstalling", "installing"})
  <2>1. /\ Running /\ Running' /\ at[h] = "read tick" /\ at'[h] = "write tick"
        /\ \A g \in Handlers : g = h
    BY <1>1, <1>2, HandlerMoves DEF Running
  <2>2. now' = now BY <1>1, <1>2, <2>1, HandlerMoves DEF Ticking, TimerInv, TypeOK
  <2>3. Armed' <=> Armed BY <1>2, <2>1 DEF Armed, Calling
  <2>4. active' => (\E g \in Handlers : Calling(g))' \/ pc \in {"uninstalling", "installing"}
    BY <1>2, <2>1 DEF TimerInv, LoopInv, Calling
  <2> QED BY <2>1, <2>2, <2>3, <2>4
<1>4. TypeOK' BY <1>1, <1>2 DEF TimerInv, TypeOK, HandlerStep
<1>5. HandlerInv(h)' BY <1>2, <1>3 DEF TimerInv, TypeOK, HandlerInv, Ticking, Due
<1>6. LoopInv' BY <1>2, <1>3, Unnoticed DEF TimerInv, LoopInv, loop_vars
<1>7. UNCHANGED P!vars BY <1>2, <1>3 DEF P!vars, watched, due
<1> QED BY <1>1, <1>4, <1>5, <1>6, <1>7, HandlerMoves DEF TimerInv

LEMMA ClaimInv ==
  ASSUME ~Threaded, TimerInv, NEW h \in Handlers, Claim(h)
  PROVE  TimerInv' /\ UNCHANGED P!vars
<1>1. HandlerStep(h, "claim", "call") BY DEF Claim
<1>2. /\ UNCHANGED <<tick, preempt_at_tick, user_func, user_data,
                 in_service, pc, task, event_time, stores, seen, blamed>>
      /\ active' = TRUE
  BY DEF Claim, timer_vars, loop_vars
<1>3. /\ Running /\ Running' /\ at[h] = "claim" /\ at'[h] = "call"
      /\ now' = now /\ (Armed' <=> Armed)
      /\ (active' => (\E g \in Handlers : Calling(g))' \/ pc \in {"uninstalling", "installing"})
  <2>1. /\ Running /\ Running' /\ at[h] = "claim" /\ at'[h] = "call"
        /\ \A g \in Handlers : g = h
    BY <1>1, <1>2, HandlerMoves DEF Running
  <2>2. now' = now BY <1>1, <1>2, <2>1, HandlerMoves DEF Ticking, TimerInv, TypeOK
  <2>3. Armed' <=> Armed
    BY <1>2, <2>1 DEF Armed, Calling, TimerInv, HandlerInv
  <2>4. active' => (\E g \in Handlers : Calling(g))' \/ pc \in {"uninstalling", "installing"}
    BY <1>2, <2>1 DEF TimerInv, LoopInv, Calling
  <2> QED BY <2>1, <2>2, <2>3, <2>4
<1>4. TypeOK' BY <1>1, <1>2 DEF TimerInv, TypeOK, HandlerStep
<1>5. HandlerInv(h)' BY <1>2, <1>3 DEF TimerInv, TypeOK, HandlerInv, Ticking, Due
<1>6. LoopInv' BY <1>2, <1>3, Unnoticed DEF TimerInv, LoopInv, loop_vars
<1>7. UNCHANGED P!vars BY <1>2, <1>3 DEF P!vars, watched, due
<1> QED BY <1>1, <1>4, <1>5, <1>6, <1>7, HandlerMoves DEF TimerInv

LEMMA WriteTickInv ==
  ASSUME ~Threaded, TimerInv, NEW h \in Handlers, WriteTick(h)
  PROVE  TimerInv' /\ UNCHANGED P!vars
<1>1. HandlerStep(h, "write tick", "preempt_at_tick") BY DEF WriteTick
<1>2. /\ UNCHANGED <<preempt_at_tick, user_func, user_data, active, in_service,
                     pc, task, event_time, stores, seen, blamed>>
      /\ tick \in Nat /\ tick' = tick + 1
  BY <1>1 DEF WriteTick, loop_vars, TimerInv, TypeOK, HandlerInv, HandlerStep
<1>0. tick' \in Nat /\ tick' # 0 /\ tick' - 1 = tick BY <1>2
<1>3. /\ Running /\ Running' /\ at[h] = "write tick" /\ at'[h] = "preempt_at_tick"
      /\ \A g \in Handlers : g = h
  BY <1>1, <1>2, HandlerMoves DEF Running
<1>4. now' = now
  <2>1. now = tick BY <1>1, <1>3, HandlerMoves DEF Ticking
  <2>2. now' = tick' - 1 BY <1>1, <1>3, HandlerMoves DEF Ticking
  <2> QED BY <1>0, <2>1, <2>2
<1>5. Armed' <=> Armed BY <1>2, <1>3 DEF Armed, Calling
<1>6. active' => pc \in {"uninstalling", "installing"}
  BY <1>2, <1>3 DEF TimerInv, LoopInv, Calling
<1>7. TypeOK' BY <1>0, <1>1, <1>2 DEF TimerInv, TypeOK, HandlerStep
<1>8. HandlerInv(h)' BY <1>0, <1>2, <1>3 DEF TimerInv, HandlerInv, Ticking
<1>9. ASSUME pc \in {"install", "installing"}
      PROVE  tick' < event_time /\ event_time <= tick' + Bound[task] + FudgeMargin
  <2>1. Bound[task] \in Nat /\ FudgeMargin \in Nat /\ event_time \in Nat
    BY <1>9, TimerAssumption DEF TimerAssumption, TimerInv, LoopInv, TypeOK
  <2>2. tick + 1 < event_time BY <1>3, <1>9 DEF TimerInv, HandlerInv
  <2>3. event_time <= tick + Bound[task] + FudgeMargin BY <1>9 DEF TimerInv, LoopInv
  <2> QED BY <1>2, <2>1, <2>2, <2>3
<1>10. LoopInv'
  BY <1>2, <1>3, <1>4, <1>5, <1>6, <1>9, Unnoticed DEF TimerInv, loop_vars
<1>11. UNCHANGED P!vars BY <1>2, <1>4, <1>5 DEF P!vars, watched, due
<1> QED BY <1>3, <1>7, <1>8, <1>10, <1>11 DEF TimerInv

\* A handler that leaves before the due tick has come leaves nothing undone.
LEMMA TestInv ==
  ASSUME ~Threaded, TimerInv, NEW h \in Handlers, Test(h)
  PROVE  TimerInv' /\ UNCHANGED P!vars
<1>1. PICK from, to :
        /\ HandlerStep(h, from, to)
        /\ \/ from = "preempt_at_tick" /\ to = IF preempt_at_tick # 0 THEN "user_func" ELSE "leave"
           \/ from = "user_func" /\ to = IF user_func THEN "active" ELSE "leave"
           \/ from = "active" /\ to = IF ~active THEN "due" ELSE "leave"
           \/ from = "due" /\ to = IF Due THEN "claim" ELSE "leave"
  BY DEF Test
<1>2. UNCHANGED <<tick, preempt_at_tick, user_func, user_data, active, in_service,
                  pc, task, event_time, stores, seen, blamed>>
  BY DEF Test, timer_vars, loop_vars
<1>3. /\ Running /\ Running' /\ at[h] = from /\ at'[h] = to
      /\ \A g \in Handlers : g = h
  BY <1>1, <1>2, HandlerMoves DEF Running
<1>4. now' = now
  <2>1. Ticking(h) /\ Ticking(h)' BY <1>1, <1>3 DEF Ticking
  <2> QED BY <1>1, <1>2, <1>3, <2>1, HandlerMoves
<1>5. Armed' <=> Armed BY <1>1, <1>2, <1>3 DEF Armed, Calling
<1>6. active => pc \in {"uninstalling", "installing"}
  BY <1>1, <1>3 DEF TimerInv, LoopInv, Calling
<1>7. TypeOK' BY <1>1, <1>2 DEF TimerInv, TypeOK, HandlerStep
<1>8. watched' = watched /\ due' = due BY <1>2, <1>5 DEF watched, due
<1>9. ASSUME to = "leave", watched # NoTask PROVE tick < due
  <2>1. due = preempt_at_tick BY <1>9 DEF due
  <2>2. preempt_at_tick # 0 /\ user_func /\ ~active
    <3>1. CASE pc = "run"
      BY <3>1, <1>6 DEF TimerInv, LoopInv, Installed, TypeOK
    <3>2. CASE pc \in {"uninstall", "uninstalling"} /\ Armed
      BY <3>2, <1>1, <1>3 DEF Armed, Calling
    <3> QED BY <1>3, <1>9, <3>1, <3>2 DEF watched, Running
  <2>3. ~Due BY <1>1, <1>9, <2>2
  <2>4. tick \in Nat /\ preempt_at_tick \in Nat BY DEF TimerInv, TypeOK
  <2> QED BY <2>1, <2>3, <2>4 DEF Due
<1>10. HandlerInv(h)'
  BY <1>1, <1>2, <1>3, <1>8, <1>9 DEF TimerInv, HandlerInv, Ticking, Due
<1>11. LoopInv'
  BY <1>2, <1>3, <1>4, <1>5, <1>6, Unnoticed DEF TimerInv, LoopInv, loop_vars
<1>12. UNCHANGED P!vars BY <1>2, <1>4, <1>8 DEF P!vars
<1> QED BY <1>3, <1>7, <1>10, <1>11, <1>12 DEF TimerInv

\* kill_task is called for the task that runs, or has just run.
LEMMA CallBlames ==
  ASSUME ~Threaded, TimerInv, NEW h \in Handlers, Call(h)
  PROVE  /\ user_data \in Tasks /\ pc' = "killed" /\ blamed' = user_data
         /\ \/ pc = "run" /\ user_data = task
            \/ pc \in {"uninstall", "uninstalling"} /\ task = NoTask
<1>1. HandlerStep(h, "call", "call") BY DEF Call
<1>2. Running /\ at[h] = "call" BY <1>1, HandlerMoves
<1>3. preempt_at_tick # 0 /\ user_func /\ active /\ tick >= preempt_at_tick
  BY <1>2 DEF TimerInv, HandlerInv, Due
<1>4. pc # "installing"
  <2> SUFFICES ASSUME pc = "installing" PROVE FALSE OBVIOUS
  <2>1. preempt_at_tick = event_time /\ tick < event_time
    BY <1>3 DEF TimerInv, LoopInv, Installing
  <2>2. tick \in Nat /\ event_time \in Nat BY DEF TimerInv, TypeOK
  <2> QED BY <1>3, <2>1, <2>2
<1>5. \/ pc = "run"
      \/ pc \in {"uninstall", "uninstalling"} /\ task = NoTask
  BY <1>2, <1>3, <1>4 DEF TimerInv, LoopInv, TypeOK, Nothing, Running
<1>6. user_data \in Tasks /\ (pc = "run" => user_data = task)
  BY <1>5 DEF TimerInv, LoopInv, Installed, Uninstalling
<1> QED BY <1>3, <1>5, <1>6, TimerAssumption DEF TimerAssumption, Call

LEMMA CallInv ==
  ASSUME ~Threaded, TimerInv, NEW h \in Handlers, Call(h) PROVE TimerInv'
<1>1. HandlerStep(h, "call", "call") BY DEF Call
<1>2. /\ UNCHANGED <<tick, preempt_at_tick, user_func, user_data, active, in_service,
                     task, event_time, stores, seen>>
      /\ blamed' = user_data /\ pc' = "killed" /\ user_data \in Tasks
  BY CallBlames DEF Call, timer_vars
<1>3. at[h] = "call" /\ at'[h] = "call" /\ \A g \in Handlers : g = h BY <1>1, HandlerMoves
<1>4. TypeOK' BY <1>1, <1>2 DEF TimerInv, TypeOK, HandlerStep
<1>5. HandlerInv(h)' BY <1>2, <1>3 DEF TimerInv, HandlerInv, Ticking, Due
<1>6. LoopInv' BY <1>2, <1>3 DEF LoopInv, Running, Calling
<1> QED BY <1>3, <1>4, <1>5, <1>6 DEF TimerInv

LEMMA LeaveInv ==
  ASSUME ~Threaded, TimerInv, NEW h \in Handlers, Leave(h) PROVE TimerInv'
<1>1. HandlerStep(h, "leave", "idle") BY DEF Leave
<1>2. /\ UNCHANGED <<tick, preempt_at_tick, user_func, user_data, active,
                     pc, task, event_time, stores, seen, blamed>>
      /\ in_service' = FALSE
  BY DEF Leave, loop_vars
<1>3. /\ Running /\ Running' /\ at[h] = "leave" /\ at'[h] = "idle"
      /\ \A g \in Handlers : g = h
  BY <1>1, <1>2, HandlerMoves DEF Running
<1>4. now' = tick BY <1>1, <1>2, <1>3, HandlerMoves DEF Ticking
<1>5. Armed' <=> Armed BY <1>2, <1>3 DEF Armed, Calling
<1>6. active => pc \in {"uninstalling", "installing"}
  BY <1>3 DEF TimerInv, LoopInv, Calling
<1>7. TypeOK' BY <1>1, <1>2 DEF TimerInv, TypeOK, HandlerStep
<1>8. HandlerInv(h)' BY <1>2, <1>3 DEF TimerInv, HandlerInv, Ticking
<1>9. watched # NoTask => tick < preempt_at_tick
  BY <1>3 DEF TimerInv, HandlerInv, due
<1>10. LoopInv'
  <2>1. Nothing => Nothing' BY <1>2 DEF Nothing
  <2>2. Installing => Installing' BY <1>2 DEF Installing
  <2>3. ASSUME pc = "run" PROVE Installed'
    <3>1. Installed /\ user_data = task BY <2>3 DEF TimerInv, LoopInv
    <3>2. watched # NoTask
      BY <2>3, <3>1, TimerAssumption DEF TimerAssumption, Installed, watched
    <3> QED BY <1>2, <1>4, <1>9, <3>1, <3>2 DEF Installed
  <2>4. ASSUME pc = "uninstall", task = NoTask PROVE Installed'
    <3>1. Installed BY <2>4 DEF TimerInv, LoopInv
    <3>2. watched # NoTask
      BY <1>6, <2>4, <3>1, TimerAssumption DEF TimerAssumption, TimerInv, TypeOK,
                                               Installed, watched, Armed
    <3> QED BY <1>2, <1>4, <1>9, <3>1, <3>2 DEF Installed
  <2>5. ASSUME pc = "uninstalling", task = NoTask PROVE Uninstalling'
    <3>1. Uninstalling BY <2>5 DEF TimerInv, LoopInv
    <3>2. ASSUME Armed PROVE tick < event_time
      <4>1. watched # NoTask
        BY <2>5, <3>1, <3>2, TimerAssumption DEF TimerAssumption, Uninstalling, watched
      <4>2. preempt_at_tick = event_time BY <3>1, <3>2 DEF Uninstalling, Armed
      <4> QED BY <1>9, <4>1, <4>2
    <3> QED BY <1>2, <1>4, <1>5, <3>1, <3>2 DEF Uninstalling
  <2> QED BY <1>2, <1>3, <1>6, <2>1, <2>2, <2>3, <2>4, <2>5 DEF TimerInv, LoopInv
<1> QED BY <1>3, <1>7, <1>8, <1>10 DEF TimerInv

-----------------------------------------------------------------------------
\* The invariant holds of the driver of the interrupt, for any tasks, bounds
\* and margin: what install and uninstall have stored, what the handler has
\* found so far and the time that is left agree.
THEOREM TimerInvariance == ASSUME ~Threaded PROVE Spec => []TimerInv
<1>1. Init => TimerInv BY TimerInit
<1>2. TimerInv /\ [Next]_vars => TimerInv'
  <2> SUFFICES ASSUME TimerInv, [Next]_vars PROVE TimerInv' OBVIOUS
  <2>1. CASE RunLoop
    BY <2>1, NextTaskInv, TaskReturnsInv, UninstallInv, CallInstallInv, InstallInv,
       ReturnInv, StoreInv DEF RunLoop, Steps
  <2>2. ASSUME NEW h \in Handlers, Interrupt(h) \/ Handler(h) PROVE TimerInv'
    BY <2>2, InterruptInv, ServeInv, ReadTickInv, WriteTickInv, TestInv, ClaimInv,
       CallInv, LeaveInv DEF Handler
  <2>3. CASE UNCHANGED vars
    BY <2>3, ZenonT(60) DEF vars, timer_vars, loop_vars, TimerInv, TypeOK, HandlerInv, LoopInv, Ticking,
                Calling, Running, Armed, now, watched, due, Due, Nothing, Installed,
                Uninstalling, Installing
  <2> QED BY <2>1, <2>2, <2>3 DEF Next
<1> QED BY <1>1, <1>2, PTL DEF Spec

-----------------------------------------------------------------------------
\* The run loop starts and stops to watch a task in one step each.
LEMMA LoopImplements ==
  ASSUME ~Threaded, TimerInv, RunLoop
  PROVE  UNCHANGED P!vars \/ P!Release \/ \E t \in Tasks : P!Watch(t)
<1> USE TimerAssumption DEF TimerAssumption
<1>1. PICK from : LoopStep(from)
  BY DEF RunLoop, Steps, NextTask, TaskReturns, Uninstall, CallInstall, Install, Return, Store
<1>2. /\ Running /\ blamed = NoTask /\ blamed' = NoTask /\ now = tick
      /\ Armed <=> preempt_at_tick # 0 /\ user_func /\ ~active
      /\ active => pc \in {"uninstalling", "installing"}
      /\ \A h \in Handlers : ~Calling(h) /\ ~Calling(h)'
  BY <1>1, LoopAlone DEF TimerInv, LoopInv, Calling, LoopStep
<1>3. Running'
  BY DEF RunLoop, Steps, NextTask, TaskReturns, Uninstall, CallInstall, Install, Return,
         Store, LoopStep, LoopRuns, Running, AfterReturn
<1>4. now' = now BY <1>1, <1>2, <1>3, LoopAlone
<1>5. Armed' <=> preempt_at_tick' # 0 /\ user_func' /\ ~active' BY <1>2 DEF Armed
<1>6. ASSUME watched' = watched, watched # NoTask => preempt_at_tick' = preempt_at_tick
      PROVE  UNCHANGED P!vars
  BY <1>2, <1>4, <1>6 DEF P!vars, due
<1>7. ASSUME watched # NoTask, watched' = NoTask PROVE P!Release
  BY <1>2, <1>4, <1>7 DEF P!Release, due
<1>8. CASE NextTask \/ CallInstall \/ Install
  <2>1. watched = NoTask /\ watched' = NoTask
    BY <1>8 DEF NextTask, CallInstall, Install, LoopStep, watched
  <2> QED BY <1>6, <2>1
<1>9. CASE TaskReturns
  <2>1. pc = "run" /\ Installed /\ user_data = task
    BY <1>9 DEF TaskReturns, LoopStep, TimerInv, LoopInv
  <2>2. UNCHANGED <<preempt_at_tick, user_func, user_data, active>> /\ pc' = "uninstall" /\ task' = NoTask
    BY <1>9 DEF TaskReturns
  <2>3. Armed' BY <1>2, <1>5, <2>1, <2>2 DEF Installed, TimerInv, TypeOK
  <2>4. watched' = watched BY <2>1, <2>2, <2>3 DEF watched
  <2> QED BY <1>6, <2>2, <2>4
<1>10. CASE Uninstall
  <2>1. /\ UNCHANGED <<preempt_at_tick, user_func, user_data, task>>
        /\ pc = "uninstall" /\ pc' = "uninstalling" /\ ~active
    BY <1>10 DEF Uninstall, LoopStep
  <2>2. Armed' => Armed BY <1>2, <1>5, <2>1
  <2>3. watched' = watched \/ watched' = NoTask BY <2>1, <2>2 DEF watched
  <2> QED BY <1>6, <1>7, <2>1, <2>3
<1>11. CASE \E s \in {"at", "func", "data"} : Store(s)
  <2>1. PICK s \in {"at", "func", "data"} : Store(s) BY <1>11
  <2>2. s \in stores /\ UNCHANGED <<active, pc, task>> BY <2>1 DEF Store
  <2>3. pc \in {"uninstalling", "installing"} BY <1>2, <2>2 DEF TimerInv, LoopInv
  <2>4. CASE pc = "installing" \/ task # NoTask
    <3>1. watched = NoTask /\ watched' = NoTask BY <2>2, <2>3, <2>4 DEF watched
    <3> QED BY <1>6, <3>1
  <2>5. CASE pc = "uninstalling" /\ task = NoTask
    <3>1. user_data' = user_data
      BY <2>1, <2>2, <2>5 DEF Store, TimerInv, LoopInv, Uninstalling
    <3>2. Armed' => Armed /\ preempt_at_tick' = preempt_at_tick
      BY <1>2, <1>5, <2>1, <2>2, <2>5 DEF Store
    <3>3. watched = IF Armed THEN user_data ELSE NoTask BY <2>5 DEF watched
    <3>4. watched' = IF Armed' THEN user_data' ELSE NoTask BY <2>2, <2>5 DEF watched
    <3> QED BY <1>6, <1>7, <3>1, <3>2, <3>3, <3>4
  <2> QED BY <2>3, <2>4, <2>5
<1>12. CASE Return
  <2>1. UNCHANGED <<preempt_at_tick, user_data, task, event_time>> /\ stores = {} /\ pc' = AfterReturn
    BY <1>12 DEF Return
  <2>2. CASE pc = "uninstalling"
    <3>1. watched = NoTask BY <1>2, <2>1, <2>2 DEF TimerInv, LoopInv, Uninstalling, watched
    <3>2. watched' = NoTask BY <2>1, <2>2 DEF AfterReturn, watched
    <3> QED BY <1>6, <3>1, <3>2
  <2>3. CASE pc = "installing"
    <3>1. /\ task \in Tasks /\ preempt_at_tick = event_time
          /\ tick < event_time /\ event_time <= tick + Bound[task] + FudgeMargin
      BY <2>1, <2>3 DEF TimerInv, LoopInv, Installing
    <3>2. watched = NoTask /\ watched' = task BY <2>1, <2>3 DEF AfterReturn, watched
    <3>3. due' = event_time BY <2>1, <3>1, <3>2 DEF due
    <3>4. tick \in Nat /\ event_time \in Nat BY DEF TimerInv, TypeOK
    <3>5. Bound[task] \in Nat /\ FudgeMargin \in Nat BY <3>1
    <3>6. event_time \in tick + 1 .. tick + (Bound[task] + FudgeMargin) BY <3>1, <3>4, <3>5
    <3>7. P!Watch(task) BY <1>2, <1>4, <3>1, <3>2, <3>3, <3>6 DEF P!Watch
    <3> QED BY <3>1, <3>7
  <2> QED BY <1>12, <2>2, <2>3 DEF Return
<1> QED BY <1>8, <1>9, <1>10, <1>11, <1>12 DEF RunLoop, Steps

\* A tick passes when the handler leaves, or ends the system.
LEMMA HandlerImplements ==
  ASSUME ~Threaded, TimerInv, NEW h \in Handlers, Interrupt(h) \/ Handler(h)
  PROVE  UNCHANGED P!vars \/ P!Tick
<1>1. CASE Leave(h)
  <2>1. HandlerStep(h, "leave", "idle") BY <1>1 DEF Leave
  <2>2. UNCHANGED <<tick, preempt_at_tick, user_func, user_data, active, pc, task, blamed>>
    BY <1>1 DEF Leave, loop_vars
  <2>3. at[h] = "leave" /\ at'[h] = "idle" /\ Running /\ Running' /\ blamed = NoTask
    BY <2>1, <2>2, HandlerMoves DEF Running, TimerInv, LoopInv
  <2>4. now = tick - 1 /\ now' = tick BY <2>1, <2>2, <2>3, HandlerMoves DEF Ticking
  <2>5. Armed' <=> Armed BY <2>1, <2>2, HandlerMoves
  <2>6. watched' = watched /\ due' = due BY <2>2, <2>5 DEF watched, due
  <2>7. watched # NoTask => tick < due BY <2>3 DEF TimerInv, HandlerInv
  <2>8. tick \in Nat /\ due \in Nat BY DEF TimerInv, TypeOK, due
  <2>9. now' = now + 1 /\ ~(watched # NoTask /\ now' >= due) BY <2>4, <2>7, <2>8
  <2> QED BY <2>2, <2>3, <2>6, <2>9 DEF P!Tick
<1>2. CASE Call(h)
  <2>1. HandlerStep(h, "call", "call") BY <1>2 DEF Call
  <2>2. /\ UNCHANGED <<tick, preempt_at_tick, user_func, user_data, active, task>>
        /\ pc' = "killed" /\ blamed' = user_data /\ user_data \in Tasks
        /\ \/ pc = "run" /\ user_data = task
           \/ pc \in {"uninstall", "uninstalling"} /\ task = NoTask
    BY <1>2, CallBlames DEF Call, timer_vars
  <2>3. at[h] = "call" /\ Running /\ ~Running' /\ blamed = NoTask
    BY <2>1, <2>2, HandlerMoves DEF Running, TimerInv, LoopInv
  <2>4. now = tick - 1 /\ now' = tick
    BY <2>1, <2>2, <2>3, HandlerMoves DEF Ticking, now
  <2>5. preempt_at_tick # 0 /\ user_func /\ tick >= preempt_at_tick
    BY <2>3 DEF TimerInv, HandlerInv, Due
  <2>6. watched = user_data /\ watched' = user_data
    BY <2>1, <2>2, <2>5, HandlerMoves DEF watched
  <2>7. user_data # NoTask BY <2>2, TimerAssumption DEF TimerAssumption
  <2>8. due = preempt_at_tick /\ due' = due BY <2>2, <2>6, <2>7 DEF due
  <2>9. tick \in Nat BY DEF TimerInv, TypeOK
  <2>10. now' = now + 1 /\ now' >= due BY <2>4, <2>5, <2>8, <2>9
  <2> QED BY <2>2, <2>3, <2>6, <2>7, <2>8, <2>10 DEF P!Tick
<1> QED
  BY <1>1, <1>2, InterruptInv, ServeInv, ReadTickInv, WriteTickInv, TestInv, ClaimInv
  DEF Handler

\* The driver of the interrupt implements module Preemptor, for any tasks,
\* bounds and margin: no task that runs goes unwatched, and at its due tick the
\* system ends and the task is blamed, wherever the interrupt comes.
THEOREM Implements == ASSUME ~Threaded PROVE Spec => WatchesTasks
<1>1. Init => P!Init
  BY DEF Init, P!Init, now, watched, due, Ticking, Running
<1>2. TimerInv /\ [Next]_vars => [P!Next]_(P!vars)
  <2> SUFFICES ASSUME TimerInv, [Next]_vars PROVE [P!Next]_(P!vars) OBVIOUS
  <2>1. CASE RunLoop BY <2>1, LoopImplements DEF P!Next
  <2>2. ASSUME NEW h \in Handlers, Interrupt(h) \/ Handler(h) PROVE [P!Next]_(P!vars)
    BY <2>2, HandlerImplements DEF P!Next
  <2>3. CASE UNCHANGED vars
    BY <2>3 DEF vars, timer_vars, loop_vars, P!vars, now, watched, due, Armed, Running,
                Ticking, Calling
  <2> QED BY <2>1, <2>2, <2>3 DEF Next
<1>3. Spec => []TimerInv BY TimerInvariance
<1> QED BY <1>1, <1>2, <1>3, PTL DEF Spec, WatchesTasks, P!Spec

=============================================================================
