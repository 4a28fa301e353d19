------------------------------- MODULE Timer -------------------------------
(***************************************************************************)
(* The timer of the kernel (task/timer.cc) with the system calls that use  *)
(* it (alarm and sleep in syscalls/sthread.cc) and the ends of sleeps by   *)
(* ticks, signals and the end of the thread.  The listeners form a delta   *)
(* list: every entry holds the time after the one before it.  A thread may *)
(* have an alarm and sleep at once, that is, two entries in the list, and  *)
(* removeThread takes out the first one it finds.                          *)
(*                                                                         *)
(* Everything under TimerBase::lock is one action.  pc tells where a       *)
(* thread is: in user mode, between the two calls of alarm, blocked in     *)
(* sleep, unblocked and not yet out of sleep, dying, or gone (its id is    *)
(* free).                                                                  *)
(***************************************************************************)
EXTENDS Integers, Sequences

CONSTANTS
  Threads,        \* thread-ids
  CPUs,           \* CPUs that get timer interrupts
  CPU0,           \* the CPU that looks after the listeners
  ListenerCount,  \* LISTENER_COUNT
  TimeInc,        \* milliseconds between two interrupts
  TimeSlice,      \* TIMESLICE
  MaxMsecs,       \* the largest time_t
  Durations       \* times that threads ask for

ASSUME TimerAssumption ==
  /\ CPU0 \in CPUs
  /\ ListenerCount \in Nat
  /\ MaxMsecs \in Nat
  /\ TimeInc \in Nat \ {0} /\ TimeSlice \in Nat /\ TimeInc <= TimeSlice
  /\ Durations \subseteq 0..MaxMsecs

VARIABLES
  listener,       \* the list: sequence of [tid, time, block]
  pc,             \* where a thread is
  sigs,           \* pending signals of a thread: SIGALRM and any other
  handler,        \* whether a thread has a handler for SIGALRM
  slice           \* milliseconds since the last reschedule on a CPU

vars == <<listener, pc, sigs, handler, slice>>

Listener == [tid : Threads, time : 0..MaxMsecs, block : BOOLEAN]
Signal == {"SIGALRM", "other"}
PC == {"user", "alarm", "sleep", "ready", "zombie", "dead"}

Init ==
  /\ listener = <<>>
  /\ pc = [t \in Threads |-> "user"]
  /\ sigs = [t \in Threads |-> {}]
  /\ handler = [t \in Threads |-> FALSE]
  /\ slice = [c \in CPUs |-> 0]

(* The time left of every entry: the sum of the times up to it. *)
Due(s) ==
  LET due[i \in 0..Len(s)] == IF i = 0 THEN 0 ELSE due[i - 1] + s[i].time
  IN  due

(***************************************************************************)
(* TimerBase::sleepFor: the new entry goes before the first one that ends  *)
(* later, which then only holds the time after the new one.                *)
(***************************************************************************)
inserted_keeps(s, i, t, d, b) ==
  [j \in 1..(Len(s) + 1) |->
     IF j < i THEN s[j]
     ELSE IF j = i THEN [tid |-> t, time |-> d - Due(s)[i - 1], block |-> b]
     ELSE s[j - 1]]

inserted(s, i, t, d, b) ==
  [j \in 1..(Len(s) + 1) |->
     IF j < i THEN s[j]
     ELSE IF j = i THEN [tid |-> t, time |-> d - Due(s)[i - 1], block |-> b]
     ELSE IF j = i + 1
          THEN [s[i] EXCEPT !.time = @ - (d - Due(s)[i - 1])]
     ELSE s[j - 1]]

sleepFor(t, d, b) ==
  /\ Len(listener) < ListenerCount
  /\ \E i \in 1..(Len(listener) + 1) :
       /\ \A j \in 1..(i - 1) : Due(listener)[j] <= d
       /\ i <= Len(listener) => Due(listener)[i] > d
       /\ listener' = inserted(listener, i, t, d, b)

(***************************************************************************)
(* TimerBase::removeThread: the first entry of the thread, whatever it is  *)
(* for; its time goes to the next one.                                     *)
(***************************************************************************)
removed_drops(s, i) ==
  [j \in 1..(Len(s) - 1) |-> IF j < i THEN s[j] ELSE s[j + 1]]

removed(s, i) ==
  [j \in 1..(Len(s) - 1) |->
     IF j < i THEN s[j]
     ELSE IF j = i THEN [s[i + 1] EXCEPT !.time = @ + s[i].time]
     ELSE s[j + 1]]

removeThread(t) ==
  \/ \E i \in 1..Len(listener) :
       /\ listener[i].tid = t
       /\ \A j \in 1..(i - 1) : listener[j].tid # t
       /\ listener' = removed(listener, i)
  \/ /\ \A i \in 1..Len(listener) : listener[i].tid # t
     /\ UNCHANGED listener

(***************************************************************************)
(* TimerBase::intrpt on the CPU that looks after the listeners: the        *)
(* entries whose time is over leave the list; sleepers are unblocked, for  *)
(* alarms there is a SIGALRM if the thread has a handler.                  *)
(***************************************************************************)
Over(n, b) == {listener[i].tid : i \in {k \in 1..n : listener[k].block = b}}

unblocked_first(n) ==
  IF n = 0 THEN {}
  ELSE {listener[i].tid : i \in {k \in 1..1 : listener[k].block}}
         \cup {t \in Over(n, FALSE) : handler[t]}
unblocked(n) == Over(n, TRUE) \cup {t \in Over(n, FALSE) : handler[t]}

passed_stale(s, n) == [i \in 1..(Len(s) - n) |-> s[n + i]]

passed(s, n) ==
  [i \in 1..(Len(s) - n) |->
     IF i = 1 THEN [s[n + 1] EXCEPT !.time = @ - (TimeInc - Due(s)[n])]
     ELSE s[n + i]]

reschedule_late(c, found) ==
  slice' = [slice EXCEPT ![c] =
              IF found \/ @ + TimeInc > TimeSlice THEN 0 ELSE @ + TimeInc]

reschedule(c, found) ==
  slice' = [slice EXCEPT ![c] =
              IF found \/ @ + TimeInc >= TimeSlice THEN 0 ELSE @ + TimeInc]

intrptFirst ==
  \E n \in 0..Len(listener) :
    /\ \A j \in 1..n : Due(listener)[j] <= TimeInc
    /\ n < Len(listener) => Due(listener)[n + 1] > TimeInc
    /\ listener' = passed(listener, n)
    /\ sigs' = [t \in Threads |->
                  IF t \in Over(n, FALSE) /\ handler[t]
                  THEN sigs[t] \cup {"SIGALRM"} ELSE sigs[t]]
    /\ pc' = [t \in Threads |->
                IF pc[t] = "sleep" /\ t \in unblocked(n) THEN "ready" ELSE pc[t]]
    /\ reschedule(CPU0, Over(n, TRUE) # {})
    /\ UNCHANGED handler

intrpt(c) ==
  \/ c = CPU0 /\ intrptFirst
  \/ /\ c # CPU0
     /\ reschedule(c, FALSE)
     /\ UNCHANGED <<listener, pc, sigs, handler>>

(***************************************************************************)
(* Syscalls::alarm: an old entry is removed first; the lock is free in     *)
(* between.  The new one fails if there is no free listener.               *)
(***************************************************************************)
alarm(t) ==
  /\ pc[t] = "user"
  /\ removeThread(t)
  /\ pc' = [pc EXCEPT ![t] = "alarm"]
  /\ UNCHANGED <<sigs, handler, slice>>

alarmSet(t, d) ==
  /\ pc[t] = "alarm"
  /\ \/ sleepFor(t, d, FALSE)
     \/ Len(listener) = ListenerCount /\ UNCHANGED listener
  /\ pc' = [pc EXCEPT ![t] = "user"]
  /\ UNCHANGED <<sigs, handler, slice>>

(***************************************************************************)
(* Syscalls::sleep: block() is called with the lock held; the switch does  *)
(* not block if a signal is pending.  Afterwards the thread takes itself   *)
(* out of the list.                                                        *)
(***************************************************************************)
sleep(t, d) ==
  /\ pc[t] = "user"
  /\ \/ /\ sleepFor(t, d, TRUE)
        /\ pc' = [pc EXCEPT ![t] = IF sigs[t] = {} THEN "sleep" ELSE "ready"]
     \/ /\ Len(listener) = ListenerCount
        /\ UNCHANGED <<listener, pc>>
  /\ UNCHANGED <<sigs, handler, slice>>

sleepEnd_keeps(t) ==
  /\ pc[t] = "ready"
  /\ pc' = [pc EXCEPT ![t] = "user"]
  /\ UNCHANGED <<listener, sigs, handler, slice>>

sleepEnd(t) ==
  /\ pc[t] = "ready"
  /\ removeThread(t)
  /\ pc' = [pc EXCEPT ![t] = "user"]
  /\ UNCHANGED <<sigs, handler, slice>>

(***************************************************************************)
(* Signals::setHandler for SIGALRM, Signals::addSignalFor for another      *)
(* signal that the thread listens to, and Signals::checkAndStart, which    *)
(* resets the handler.                                                     *)
(***************************************************************************)
setHandler(t, h) ==
  /\ pc[t] = "user"
  /\ handler' = [handler EXCEPT ![t] = h]
  /\ UNCHANGED <<listener, pc, sigs, slice>>

addSignalFor(t) ==
  /\ pc[t] # "dead"
  /\ sigs' = [sigs EXCEPT ![t] = @ \cup {"other"}]
  /\ pc' = [pc EXCEPT ![t] = IF @ = "sleep" THEN "ready" ELSE @]
  /\ UNCHANGED <<listener, handler, slice>>

checkAndStart(t, s) ==
  /\ pc[t] = "user"
  /\ s \in sigs[t]
  /\ sigs' = [sigs EXCEPT ![t] = @ \ {s}]
  /\ handler' = [handler EXCEPT ![t] = @ /\ s # "SIGALRM"]
  /\ UNCHANGED <<listener, pc, slice>>

(***************************************************************************)
(* ThreadBase::terminate takes the thread out of the list; the terminator  *)
(* kills it, and its id may be used for a new thread.                      *)
(***************************************************************************)
terminate(t) ==
  /\ pc[t] = "user"
  /\ removeThread(t)
  /\ pc' = [pc EXCEPT ![t] = "zombie"]
  /\ UNCHANGED <<sigs, handler, slice>>

kill(t) ==
  /\ pc[t] = "zombie"
  /\ pc' = [pc EXCEPT ![t] = "dead"]
  /\ UNCHANGED <<listener, sigs, handler, slice>>

create(t) ==
  /\ pc[t] = "dead"
  /\ pc' = [pc EXCEPT ![t] = "user"]
  /\ sigs' = [sigs EXCEPT ![t] = {}]
  /\ handler' = [handler EXCEPT ![t] = FALSE]
  /\ UNCHANGED <<listener, slice>>

ThreadNext(t) ==
  \/ \E d \in Durations : alarmSet(t, d) \/ sleep(t, d)
  \/ \E h \in BOOLEAN : setHandler(t, h)
  \/ \E s \in Signal : checkAndStart(t, s)
  \/ alarm(t)
  \/ sleepEnd(t)
  \/ addSignalFor(t)
  \/ terminate(t)
  \/ kill(t)
  \/ create(t)

Next ==
  \/ \E c \in CPUs : intrpt(c)
  \/ \E t \in Threads : ThreadNext(t)

Spec == Init /\ [][Next]_vars

(***************************************************************************)
(* The timer interrupt comes again and again; a thread in the kernel is    *)
(* not preempted and gets the CPU again once it is ready.                  *)
(***************************************************************************)
FairSpec ==
  /\ Spec
  /\ WF_vars(intrpt(CPU0))
  /\ \A t \in Threads : WF_vars(sleepEnd(t))

-----------------------------------------------------------------------------
(***************************************************************************)
(* Types; no time gets negative or longer than a time_t, and every CPU is  *)
(* told to reschedule before more than TIMESLICE has passed.               *)
(***************************************************************************)
TypeOK ==
  /\ listener \in Seq(Listener)
  /\ Len(listener) <= ListenerCount
  /\ pc \in [Threads -> PC]
  /\ sigs \in [Threads -> SUBSET Signal]
  /\ handler \in [Threads -> BOOLEAN]
  /\ slice \in [CPUs -> 0..(TimeSlice - 1)]

(***************************************************************************)
(* The sum that the loop of sleepFor computes in a time_t never overflows: *)
(* no entry is further away than the longest time one can ask for.         *)
(***************************************************************************)
DueInRange == \A i \in 0..Len(listener) : Due(listener)[i] \in 0..MaxMsecs

(***************************************************************************)
(* A thread that has ended has no entry, so that intrpt never looks up a   *)
(* thread that is gone and no new thread with its id gets its alarm.  The  *)
(* single removeThread of terminate is enough for that, although a thread  *)
(* that sleeps with an alarm is in the list twice.                         *)
(***************************************************************************)
Entries(t) == {i \in 1..Len(listener) : listener[i].tid = t}
GoneHasNoEntry == \A t \in Threads : pc[t] \in {"zombie", "dead"} => Entries(t) = {}

(***************************************************************************)
(* A thread that is blocked in sleep() has an entry that will unblock it   *)
(* and no pending signal, even if it has an alarm that may be taken out of *)
(* the list in its place.                                                  *)
(***************************************************************************)
SleeperHasEntry ==
  \A t \in Threads : pc[t] = "sleep" =>
    /\ sigs[t] = {}
    /\ \E i \in Entries(t) : listener[i].block

(***************************************************************************)
(* The list with its differences implements timers with a time left each:  *)
(* ticks end them in time and in order, and neither insertions nor         *)
(* removals change the time left of the others.                            *)
(***************************************************************************)
Left == [i \in 1..Len(listener) |->
           [tid |-> listener[i].tid, left |-> Due(listener)[i],
            block |-> listener[i].block]]
Asleep == {t \in Threads : pc[t] = "sleep"}
Alarmed == {t \in Threads : "SIGALRM" \in sigs[t]}

C == INSTANCE Countdown WITH timers <- Left, asleep <- Asleep, alarmed <- Alarmed

TimersCountDown == C!Spec

(***************************************************************************)
(* Every sleep ends, however many timers are inserted before and whoever   *)
(* is interrupted meanwhile.                                               *)
(***************************************************************************)
SleepReturns == \A t \in Threads : pc[t] = "sleep" ~> pc[t] = "user"
=============================================================================
