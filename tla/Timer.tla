------------------------------- MODULE Timer -------------------------------
(***************************************************************************)
(* The timer service every SIP transaction is built on:                    *)
(* org.zoolu.tools.Timer on top of InnerTimerST, whose tasks all run on    *)
(* ONE static java.util.Timer thread.  Nothing in Timer is synchronized:   *)
(* halt() runs on the thread that received a message (or on the user's),   *)
(* onInnerTimeout() on the timer thread, and they meet on the fields       *)
(* `active' and `listener'.                                                *)
(*                                                                         *)
(* A Timer object is started at most once (a transaction that restarts a   *)
(* timer creates a new one) and may be halted at any moment, before or     *)
(* after it was started.  When a task is due is abstracted: any scheduled  *)
(* task may be the next one the thread runs.                               *)
(***************************************************************************)
EXTENDS Naturals

CONSTANT Timers        \* the Timer objects of the process

VARIABLES
  active,              \* Timer.active
  listener,            \* Timer.listener # null
  task,                \* the InnerTimerST of each timer in the java.util.Timer
  thread,              \* what the timer thread does with the running task
  haltedAt,            \* history: the task states in which halt() was called
  fired                \* history: how often onTimeout was entered, per timer

timerVars == <<active, listener, task, thread, haltedAt, fired>>

TaskStates == {"none", "scheduled", "running", "done"}

TimerTypeOK ==
  /\ active   \in [Timers -> BOOLEAN]
  /\ listener \in [Timers -> BOOLEAN]
  /\ task     \in [Timers -> TaskStates]
  /\ thread   \in {"idle", "calling", "firing", "dead"}
  /\ haltedAt \in [Timers -> SUBSET TaskStates]
  /\ fired    \in [Timers -> Nat]

TimerInit ==
  /\ active   = [t \in Timers |-> FALSE]
  /\ listener = [t \in Timers |-> TRUE]
  /\ task     = [t \in Timers |-> "none"]
  /\ thread   = "idle"
  /\ haltedAt = [t \in Timers |-> {}]
  /\ fired    = [t \in Timers |-> 0]

-----------------------------------------------------------------------------
(* start(): `active' is set before the task is scheduled; on a java.util.Timer
   whose thread has died schedule() throws and no task is queued. *)
Start(t) ==
  /\ task[t] = "none"
  /\ ~active[t]
  /\ active' = [active EXCEPT ![t] = TRUE]
  /\ task' = [task EXCEPT ![t] = IF thread = "dead" THEN "none" ELSE "scheduled"]
  /\ UNCHANGED <<listener, thread, haltedAt, fired>>

(* halt(): clears both fields; it neither cancels the task nor waits for it. *)
Halt(t) ==
  /\ active'   = [active EXCEPT ![t] = FALSE]
  /\ listener' = [listener EXCEPT ![t] = FALSE]
  /\ haltedAt' = [haltedAt EXCEPT ![t] = @ \cup {task[t]}]
  /\ UNCHANGED <<task, thread, fired>>

(* Faulty variant of RunTask: the test reads `active' only. *)
RunTaskActiveOnly(t) ==
  /\ thread = "idle"
  /\ task[t] = "scheduled"
  /\ IF active[t]
       THEN thread' = "calling" /\ task' = [task EXCEPT ![t] = "running"]
       ELSE UNCHANGED thread /\ task' = [task EXCEPT ![t] = "done"]
  /\ UNCHANGED <<active, listener, haltedAt, fired>>

(* run() and the test of onInnerTimeout(): the task is taken off the queue and
   `active && listener != null' is read.  A timer halted before is dropped. *)
RunTask(t) ==
  /\ thread = "idle"
  /\ task[t] = "scheduled"
  /\ IF active[t] /\ listener[t]
       THEN /\ thread' = "calling"
            /\ task' = [task EXCEPT ![t] = "running"]
            /\ UNCHANGED <<active, listener>>
       ELSE /\ task' = [task EXCEPT ![t] = "done"]
            /\ active' = [active EXCEPT ![t] = FALSE]
            /\ listener' = [listener EXCEPT ![t] = FALSE]
            /\ UNCHANGED thread
  /\ UNCHANGED <<haltedAt, fired>>

(* `listener.onTimeout(this)' after the test.  The field is read a second
   time; a compiler may keep the value of the first read.  So the call is
   made even when halt() has cleared the field in between ... *)
Call(t) ==
  /\ thread = "calling" /\ task[t] = "running"
  /\ thread' = "firing"
  /\ fired' = [fired EXCEPT ![t] = @ + 1]
  /\ UNCHANGED <<active, listener, task, haltedAt>>

(* ... or it dereferences null: InnerTimerST.run() catches nothing, and a
   task that throws ends the only java.util.Timer thread. *)
CallNull(t) ==
  /\ thread = "calling" /\ task[t] = "running"
  /\ ~listener[t]
  /\ thread' = "dead"
  /\ UNCHANGED <<active, listener, task, haltedAt, fired>>

(* Faulty variant of Return: the thread never comes back for the next task. *)
ReturnHolding(t) ==
  /\ thread = "firing" /\ task[t] = "running"
  /\ task' = [task EXCEPT ![t] = "done"]
  /\ UNCHANGED <<active, listener, thread, haltedAt, fired>>

(* onTimeout() has returned. *)
Return(t) ==
  /\ thread = "firing" /\ task[t] = "running"
  /\ thread' = "idle"
  /\ task' = [task EXCEPT ![t] = "done"]
  /\ active' = [active EXCEPT ![t] = FALSE]
  /\ listener' = [listener EXCEPT ![t] = FALSE]
  /\ UNCHANGED <<haltedAt, fired>>

ThreadStep(t) == RunTask(t) \/ Call(t) \/ CallNull(t) \/ Return(t)

TimerNext == \E t \in Timers : Start(t) \/ Halt(t) \/ ThreadStep(t)

(* The thread runs every due task; no user is obliged to start or halt. *)
TimerSpec == TimerInit /\ [][TimerNext]_timerVars /\ \A t \in Timers : WF_timerVars(ThreadStep(t))

-----------------------------------------------------------------------------
(* A timer halted before its task began to run is silent for ever, whether it
   was started before or after halt().  InviteTransactionClient relies on it
   when it halts end_to, and it is as much of the comment on halt() as the
   code keeps. *)
EarlyHaltSilences ==
  \A t \in Timers : haltedAt[t] \cap {"none", "scheduled"} # {} => fired[t] = 0

(* The timer thread is lost only to a halt() that hit a timer between the test
   of onInnerTimeout() and its call: no other use of the API can stop it. *)
DeadOnlyByLateHalt ==
  thread = "dead" => \E t \in Timers : "running" \in haltedAt[t]

(* While the thread lives, a started timer that is not halted fires: one task
   cannot keep the thread from the others. *)
StartedFires ==
  \A t \in Timers :
    task[t] = "scheduled" ~> (fired[t] = 1 \/ haltedAt[t] # {} \/ thread = "dead")
=============================================================================
