------------------------------ MODULE MainLoop ------------------------------
(***************************************************************************)
(* The main loop that runs every Lwt thread: OS.Main.run and the queue of  *)
(* sleeping threads (mirage-platform/lib/main.ml and time.ml), and         *)
(* caml_block_kernel (mirage-platform/runtime/kernel/kmod.c), in which the *)
(* kernel thread sleeps.                                                   *)
(*                                                                         *)
(* Lwt.wakeup runs the thread it wakes at once, until it sleeps again or   *)
(* ends, and so do the threads it cancels: the loop goes on when no thread *)
(* is ready.  Only the clock moves at any time.                            *)
(*                                                                         *)
(* Units of time are what Clock.time counts, microseconds in the code.     *)
(***************************************************************************)
EXTENDS Integers

CONSTANTS
  Sleepers,    \* Lwt threads that sleep
  Main,        \* the one the program ends with
  Sleeps,      \* sleep records, each reused when it has left the queue
  Delays,      \* arguments of Time.sleep (0 is a yield)
  Day,         \* what the loop sleeps when nobody else does (a day)
  Hz,          \* ticks in a second
  Tick,        \* units in a tick
  IntHalf,     \* 2^31: the range of a C int is -IntHalf .. IntHalf - 1
  MaxTime,     \* bound: the clock stops there, deadlines are not beyond it
  MaxCancels,  \* bound on cancellations
  None

ASSUME MainLoopAssumption ==
  /\ Main \in Sleepers
  /\ Delays \subseteq Nat /\ 0 \in Delays
  /\ Day \in Nat
  /\ Hz \in Nat \ {0} /\ Tick \in Nat \ {0}
  /\ IntHalf \in Nat \ {0}
  /\ MaxTime \in Nat /\ MaxCancels \in Nat

Second == Tick * Hz

VARIABLES
  now,      \* Clock.time
  thread,   \* what each thread does
  sleep,    \* the sleep records: those of new_sleeps and of sleep_queue
  loop,     \* where the loop is
  until,    \* when the kernel thread is woken, if it sleeps
  cancels   \* cancellations so far

loopVars == <<now, thread, sleep, loop, until, cancels>>

Sleep == [thread : Sleepers, time : Nat, canceled : BOOLEAN, in : {"new", "queue"}]
ASSUME NoneAssumption == None \notin Sleep

LoopInit ==
  /\ now = 0
  /\ thread = [t \in Sleepers |-> "ready"]
  /\ sleep = [s \in Sleeps |-> None]
  /\ loop = "restart"
  /\ until = 0
  /\ cancels = 0

Used(s) == sleep[s] # None
Queued(s) == Used(s) /\ sleep[s].in = "queue"
Unused == {s \in Sleeps : ~Used(s)}
Waits(s, t) == Used(s) /\ sleep[s].thread = t /\ ~sleep[s].canceled

-----------------------------------------------------------------------------
(* time.ml and the threads                                                 *)

\* The record of a new sleep.
NewSleep(t, d, place) ==
  [thread |-> t, time |-> IF d = 0 THEN 0 ELSE now + d, canceled |-> FALSE, in |-> place]

\* Mutant: a sleep goes straight to the queue the loop is working on.
TimeSleepAtOnce(t, d) ==
  /\ thread[t] = "ready" /\ now + d <= MaxTime
  /\ Unused # {}
  /\ sleep' = [sleep EXCEPT ![CHOOSE s \in Unused : TRUE] = NewSleep(t, d, "queue")]
  /\ thread' = [thread EXCEPT ![t] = "sleeping"]
  /\ UNCHANGED <<now, loop, until, cancels>>

\* sleep
TimeSleep(t, d) ==
  /\ thread[t] = "ready" /\ now + d <= MaxTime
  /\ Unused # {}
  /\ sleep' = [sleep EXCEPT ![CHOOSE s \in Unused : TRUE] = NewSleep(t, d, "new")]
  /\ thread' = [thread EXCEPT ![t] = "sleeping"]
  /\ UNCHANGED <<now, loop, until, cancels>>

Finish(t) ==
  /\ thread[t] = "ready"
  /\ thread' = [thread EXCEPT ![t] = "done"]
  /\ UNCHANGED <<now, sleep, loop, until, cancels>>

\* Mutant: the sleep record of a canceled thread is not marked.
CancelUnmarked(t, s) ==
  /\ thread[t] = "ready" /\ cancels < MaxCancels
  /\ Used(s) /\ ~sleep[s].canceled
  /\ thread' = [thread EXCEPT ![sleep[s].thread] = "ready"]
  /\ cancels' = cancels + 1
  /\ UNCHANGED <<now, sleep, loop, until>>

\* Lwt.cancel or Lwt.pick ends the sleep of another thread (with_timeout).
Cancel(t, s) ==
  /\ thread[t] = "ready" /\ cancels < MaxCancels
  /\ Used(s) /\ ~sleep[s].canceled
  /\ sleep' = [sleep EXCEPT ![s].canceled = TRUE]
  /\ thread' = [thread EXCEPT ![sleep[s].thread] = "ready"]
  /\ cancels' = cancels + 1
  /\ UNCHANGED <<now, loop, until>>

Program(t) == Finish(t) \/ \E d \in Delays : TimeSleep(t, d)

-----------------------------------------------------------------------------
(* main.ml, aux                                                            *)

\* Every thread that was woken has run.
Quiet == \A t \in Sleepers : thread[t] # "ready"

\* lookup_min
FirstSleep(s) == Queued(s) /\ \A r \in Sleeps : Queued(r) => sleep[s].time <= sleep[r].time

InThePast(s) == sleep[s].time = 0 \/ sleep[s].time <= now

\* restart_threads wakes the first of the queue ...
Restart(s) ==
  /\ loop = "restart" /\ Quiet
  /\ FirstSleep(s) /\ ~sleep[s].canceled /\ InThePast(s)
  /\ sleep' = [sleep EXCEPT ![s] = None]
  /\ thread' = [thread EXCEPT ![sleep[s].thread] = "ready"]
  /\ UNCHANGED <<now, loop, until, cancels>>

\* ... or drops it, and so does get_next_timeout ...
DropCanceled(s) ==
  /\ loop \in {"restart", "next"} /\ Quiet
  /\ FirstSleep(s) /\ sleep[s].canceled
  /\ sleep' = [sleep EXCEPT ![s] = None]
  /\ UNCHANGED <<now, thread, loop, until, cancels>>

\* ... until nothing of that is left: then Lwt.poll.
RestartEnd ==
  /\ loop = "restart" /\ Quiet
  /\ \A s \in Sleeps : FirstSleep(s) => ~sleep[s].canceled /\ ~InThePast(s)
  /\ loop' = IF thread[Main] = "done" THEN "done" ELSE "select"
  /\ UNCHANGED <<now, thread, sleep, until, cancels>>

\* Mutant: the timeout is taken before the new sleeps are queued.
SelectLate ==
  /\ loop = "select"
  /\ loop' = "next"
  /\ UNCHANGED <<now, thread, sleep, until, cancels>>

\* select_next queues the new sleeps.
Select ==
  /\ loop = "select"
  /\ sleep' = [s \in Sleeps |->
                 IF Used(s) THEN [sleep[s] EXCEPT !.in = "queue"] ELSE None]
  /\ loop' = "next"
  /\ UNCHANGED <<now, thread, until, cancels>>

\* An integer as a C int holds it.
ToInt(z) == ((z + IntHalf) % (2 * IntHalf)) - IntHalf

\* The ticks that caml_block_kernel asks pause for, which makes at least one
\* of them: the product overflows for the longer timeouts.
Ticks(timeout) ==
  LET ticks == ToInt(ToInt(timeout) * Hz) \div Second
  IN  IF ticks < 1 THEN 1 ELSE ticks

Block(timeout) == until' = now + Ticks(timeout) * Tick

\* The timeout of get_next_timeout, and the sleep.
BlockKernel ==
  /\ loop = "next"
  /\ \/ \E s \in Sleeps :
          /\ FirstSleep(s) /\ ~sleep[s].canceled
          /\ Block(IF sleep[s].time <= now THEN 0 ELSE sleep[s].time - now)
     \/ (\A s \in Sleeps : ~Queued(s)) /\ Block(Day)
  /\ loop' = "blocked"
  /\ UNCHANGED <<now, thread, sleep, cancels>>

\* pause ends: within the last tick, or later.
Unblock ==
  /\ loop = "blocked"
  /\ now > until - Tick \/ now = MaxTime
  /\ loop' = "returned" /\ until' = 0
  /\ UNCHANGED <<now, thread, sleep, cancels>>

\* mirage_kthread_body calls again, unless it was told to stop (Kmod).
Call ==
  /\ loop = "returned"
  /\ loop' = "restart"
  /\ UNCHANGED <<now, thread, sleep, until, cancels>>

Loop ==
  \/ \E s \in Sleeps : Restart(s) \/ DropCanceled(s)
  \/ RestartEnd \/ Select \/ BlockKernel \/ Unblock \/ Call

ClockTick ==
  /\ now < MaxTime
  /\ now' = now + 1
  /\ UNCHANGED <<thread, sleep, loop, until, cancels>>

-----------------------------------------------------------------------------
LoopNext ==
  \/ \E t \in Sleepers : Program(t)
  \/ \E t \in Sleepers, s \in Sleeps : Cancel(t, s)
  \/ Loop
  \/ ClockTick

LoopSpec == LoopInit /\ [][LoopNext]_loopVars

(***************************************************************************)
(* The kernel runs the thread of the loop, time passes, and a thread that  *)
(* was woken sleeps again or ends.                                         *)
(***************************************************************************)
LoopFairness ==
  /\ WF_loopVars(Loop) /\ WF_loopVars(ClockTick)
  /\ \A t \in Sleepers : WF_loopVars(Program(t))

LoopFairSpec == LoopSpec /\ LoopFairness

-----------------------------------------------------------------------------
LoopTypeOK ==
  /\ now \in 0 .. MaxTime
  /\ thread \in [Sleepers -> {"ready", "sleeping", "done"}]
  /\ sleep \in [Sleeps -> Sleep \cup {None}]
  /\ loop \in {"restart", "select", "next", "blocked", "returned", "done"}
  /\ until \in Nat
  /\ cancels \in 0 .. MaxCancels

(***************************************************************************)
(* A thread that sleeps is found by the loop exactly once, and one that    *)
(* does not is not found: no thread is lost, none is woken out of a sleep  *)
(* that it was canceled from, whatever it did since (time.ml:45-51,        *)
(* 74-83, 100-105).                                                        *)
(***************************************************************************)
SleeperIsFoundOnce ==
  \A t \in Sleepers :
    LET mine == {s \in Sleeps : Waits(s, t)}
    IN  IF thread[t] = "sleeping" THEN \E s \in Sleeps : mine = {s} ELSE mine = {}

(***************************************************************************)
(* The kernel thread never sleeps past a deadline by a tick: every sleep   *)
(* is in the queue by then, the canceled ones do not hide the first, and a *)
(* product that overflows only makes the sleep shorter (main.ml:38-46,     *)
(* time.ml:90-105, kmod.c:229-231).                                        *)
(***************************************************************************)
BlocksUpToDeadline ==
  [][loop = "next" /\ loop' = "blocked" =>
       \A s \in Sleeps : Used(s) /\ ~sleep[s].canceled =>
         until' <= Tick + IF sleep[s].time <= now THEN now ELSE sleep[s].time]_loopVars

(***************************************************************************)
(* OS.Main.run returns to the kernel again and again, so that a stop is    *)
(* seen, also with threads that yield all the time (kmod.c:96,             *)
(* time.ml:43-53, 74-83).                                                  *)
(***************************************************************************)
RunReturns == []<>(loop \in {"returned", "done"})

(***************************************************************************)
(* A thread that sleeps is woken, unless the program ends first.           *)
(***************************************************************************)
SleeperIsWoken ==
  \A t \in Sleepers : thread[t] = "sleeping" ~> (thread[t] # "sleeping" \/ loop = "done")

=============================================================================
