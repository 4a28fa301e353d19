----------------------------- MODULE Countdown -----------------------------
(***************************************************************************)
(* What the timer promises, without its list: every timer has a time left, *)
(* only a tick changes it, and a tick ends exactly the timers whose time   *)
(* is over.  A sleeper is woken up, the owner of an alarm gets a signal if *)
(* it listens.                                                             *)
(***************************************************************************)
EXTENDS Integers, Sequences

CONSTANTS
  Threads,      \* threads that sleep or set alarms
  TimeInc,      \* milliseconds per tick
  Durations     \* times in milliseconds that threads ask for

VARIABLES
  timers,       \* sequence of [tid, left, block], ordered by left
  asleep,       \* threads that sleep until a timer or a signal ends it
  alarmed       \* threads with a pending SIGALRM

vars == <<timers, asleep, alarmed>>

Init ==
  /\ timers = <<>>
  /\ asleep = {}
  /\ alarmed = {}

(* s without its i-th element, and with e as its new i-th element. *)
Without(s, i) == [j \in 1..(Len(s) - 1) |-> IF j < i THEN s[j] ELSE s[j + 1]]
With(s, i, e) ==
  [j \in 1..(Len(s) + 1) |->
     IF j < i THEN s[j] ELSE IF j = i THEN e ELSE s[j - 1]]

(***************************************************************************)
(* A new timer goes behind those that end earlier or at the same time.  It *)
(* puts its thread to sleep or not; a thread with a signal stays awake.    *)
(***************************************************************************)
Start(t, d, b) ==
  /\ \E i \in 1..(Len(timers) + 1) :
       /\ \A j \in 1..Len(timers) : (j < i) <=> (timers[j].left <= d)
       /\ timers' = With(timers, i, [tid |-> t, left |-> d, block |-> b])
  /\ asleep' \in {asleep} \cup (IF b THEN {asleep \cup {t}} ELSE {})
  /\ UNCHANGED alarmed

(* The first timer of thread t goes away, if there is one. *)
Cancel(t) ==
  /\ \/ \E i \in 1..Len(timers) :
          /\ timers[i].tid = t
          /\ \A j \in 1..(i - 1) : timers[j].tid # t
          /\ timers' = Without(timers, i)
     \/ /\ \A i \in 1..Len(timers) : timers[i].tid # t
        /\ UNCHANGED timers
  /\ UNCHANGED <<asleep, alarmed>>

(***************************************************************************)
(* TimeInc milliseconds have passed: n timers are over.                    *)
(***************************************************************************)
Tick ==
  \E n \in 0..Len(timers) :
    /\ \A i \in 1..Len(timers) : (i <= n) <=> (timers[i].left <= TimeInc)
    /\ timers' = [i \in 1..(Len(timers) - n) |->
                    [timers[i + n] EXCEPT !.left = @ - TimeInc]]
    /\ \E heard \in SUBSET {timers[i].tid : i \in {k \in 1..n : ~timers[k].block}} :
         /\ alarmed' = alarmed \cup heard
         /\ asleep' = asleep \ (heard \cup
              {timers[i].tid : i \in {k \in 1..n : timers[k].block}})

(* Another signal ends a sleep; a SIGALRM is taken or dies with its thread. *)
Interrupt(t) == asleep' = asleep \ {t} /\ UNCHANGED <<timers, alarmed>>
Deliver(t) == alarmed' = alarmed \ {t} /\ UNCHANGED <<timers, asleep>>

Next ==
  \/ Tick
  \/ \E t \in Threads :
       \/ Interrupt(t)
       \/ Deliver(t)
       \/ Cancel(t)
       \/ \E d \in Durations, b \in BOOLEAN : Start(t, d, b)

Spec == Init /\ [][Next]_vars
=============================================================================
