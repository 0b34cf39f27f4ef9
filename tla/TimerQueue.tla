----------------------------- MODULE TimerQueue -----------------------------
(***************************************************************************)
(* net/TimerQueue.cpp and net/Timer.*: the timers of one EventLoop, a set  *)
(* ordered by expiration, and the single timerfd that is armed for the     *)
(* earliest of them.                                                       *)
(*                                                                         *)
(* Everything but addTimer runs on the loop thread.  Another thread's      *)
(* addTimer computes the expiration at once and has addTimerInLoop run     *)
(* later by doPendingFunctor (AddTimerFromOther, then AddTimerInLoop); on  *)
(* the loop thread itself, in a callback or a functor, addTimer inserts    *)
(* directly (AddTimerFromLoop).  Callbacks take time: the clock may        *)
(* advance between any two steps.  One tick of the clock stands for the    *)
(* 100 microseconds that howMuchTimeFromNow never goes below.              *)
(***************************************************************************)
EXTENDS Integers

CONSTANTS
  Timers,               \* the Timer objects of a run
  Delays,               \* delays callers ask for; 0 is a time already past
  MaxTime               \* bound on the clock

ASSUME DelaysAssumption == Delays \subseteq Nat
ASSUME MaxTimeAssumption == MaxTime \in Nat

VARIABLES
  now,                  \* Timestamp::now()
  expiration,           \* Timer::expiration_
  interval,             \* Timer::interval_
  timers,               \* timers_
  armedAt,              \* when the timerfd will expire; 0 when it is disarmed
  readable,             \* the timerfd has expired and was not read since
  timerPc,              \* the loop thread: outside, about to be, in handleRead
  readNow,              \* handleRead's local now
  expired,              \* handleRead's local vector of expired timers
  toRun,                \* those whose callback has not been called yet
  free,                 \* timers not created yet
  adding,               \* timers whose addTimerInLoop is queued on the loop
  start,                \* when addTimer was called
  runs                  \* how often the callback has been called

fdVars == <<armedAt, readable>>
readVars == <<timerPc, readNow, expired, toRun>>
timerVars == <<now, expiration, interval, timers, fdVars, readVars, free,
               adding, start, runs>>

\* The types; a timer is in one place at a time, and only handleRead holds
\* timers outside timers_.
TimerTypeOK ==
  /\ now \in Nat
  /\ expiration \in [Timers -> Nat]
  /\ interval \in [Timers -> Nat]
  /\ armedAt \in Nat
  /\ readable \in BOOLEAN
  /\ timerPc \in {"outside", "active", "handleRead"}
  /\ readNow \in Nat
  /\ start \in [Timers -> Nat]
  /\ runs \in [Timers -> Nat]
  /\ timers \subseteq Timers
  /\ expired \subseteq Timers
  /\ toRun \subseteq expired
  /\ free \subseteq Timers
  /\ adding \subseteq Timers
  /\ timers \cap expired = {}
  /\ timers \cap (free \cup adding) = {}
  /\ expired \cap (free \cup adding) = {}
  /\ free \cap adding = {}
  /\ timerPc # "handleRead" => expired = {}
  /\ timerPc = "handleRead" => readNow <= now

TimerInit ==
  /\ now = 0
  /\ expiration = [t \in Timers |-> 0]
  /\ interval = [t \in Timers |-> 0]
  /\ timers = {}
  /\ armedAt = 0
  /\ readable = FALSE
  /\ timerPc = "outside"
  /\ readNow = 0
  /\ expired = {}
  /\ toRun = {}
  /\ free = Timers
  /\ adding = {}
  /\ start = [t \in Timers |-> 0]
  /\ runs = [t \in Timers |-> 0]

-----------------------------------------------------------------------------
(* The timerfd.                                                            *)

\* howMuchTimeFromNow: when the timerfd expires if it is armed for e now.
FireTime(e) == IF e > now THEN e ELSE now + 1

\* timerfd_settime also forgets an expiration nobody has read.
ResetTimerfd(e) ==
  /\ armedAt' = FireTime(e)
  /\ readable' = FALSE

\* Time passes; the kernel makes the timerfd readable when it expires.
Tick ==
  /\ now < MaxTime
  /\ now' = now + 1
  /\ IF armedAt = now + 1
       THEN readable' = TRUE /\ armedAt' = 0
       ELSE UNCHANGED fdVars
  /\ UNCHANGED <<expiration, interval, timers, readVars, free, adding, start,
                 runs>>

-----------------------------------------------------------------------------
(* Adding a timer.                                                         *)

EarliestChanged_OnlyIfEmpty(when) == timers = {}
EarliestChanged(when) == \A u \in timers : when < expiration[u]

\* insert, and the re-arming that only an earlier expiration needs.
Insert(t, when) ==
  /\ timers' = timers \cup {t}
  /\ IF EarliestChanged(when) THEN ResetTimerfd(when) ELSE UNCHANGED fdVars

\* runTimer and runAfter make a timer that does not repeat; runRepeat's first
\* expiration is one interval away.
Create(t, delay, repeat) ==
  /\ t \in free
  /\ free' = free \ {t}
  /\ expiration' = [expiration EXCEPT ![t] = now + delay]
  /\ interval' = [interval EXCEPT ![t] = IF repeat THEN delay ELSE 0]
  /\ start' = [start EXCEPT ![t] = now]

\* addTimer on the loop thread: in another channel's callback or a functor,
\* or in a timer's callback.
AddTimerFromLoop(t, delay, repeat) ==
  /\ timerPc = "handleRead" => expired # toRun
  /\ Create(t, delay, repeat)
  /\ Insert(t, now + delay)
  /\ UNCHANGED <<now, readVars, adding, runs>>

AddTimerFromOther(t, delay, repeat) ==
  /\ Create(t, delay, repeat)
  /\ adding' = adding \cup {t}
  /\ UNCHANGED <<now, timers, fdVars, readVars, runs>>

AddTimerInLoop(t) ==
  /\ timerPc = "outside"
  /\ t \in adding
  /\ adding' = adding \ {t}
  /\ Insert(t, expiration[t])
  /\ UNCHANGED <<now, expiration, interval, readVars, free, start, runs>>

-----------------------------------------------------------------------------
(* handleRead.                                                             *)

\* epoll_wait reports the timerfd; callbacks of other channels may run first.
PollReturns ==
  /\ timerPc = "outside"
  /\ readable
  /\ timerPc' = "active"
  /\ UNCHANGED <<now, expiration, interval, timers, fdVars, readNow, expired,
                 toRun, free, adding, start, runs>>

Expired_OneTooMany(t) == expiration[t] <= now + 1
Expired(t) == expiration[t] <= now

\* getExpired: copy the expired timers out and erase them from the set.
TakeExpired ==
  /\ expired' = {t \in timers : Expired(t)}
  /\ timers' = timers \ expired'

\* handleRead up to the first callback: read the clock and the timerfd, and
\* take the expired timers out of the set.
HandleRead ==
  /\ timerPc = "active"
  /\ timerPc' = "handleRead"
  /\ readNow' = now
  /\ readable' = FALSE
  /\ TakeExpired
  /\ toRun' = expired'
  /\ UNCHANGED <<now, expiration, interval, armedAt, free, adding, start, runs>>

\* The callbacks are called in the order of the expirations.
RunCallback(t) ==
  /\ t \in toRun
  /\ \A u \in toRun : expiration[t] <= expiration[u]
  /\ toRun' = toRun \ {t}
  /\ runs' = [runs EXCEPT ![t] = @ + 1]
  /\ UNCHANGED <<now, expiration, interval, timers, fdVars, timerPc, readNow,
                 expired, free, adding, start>>

Restart_AtOnce(t) == readNow
Restart(t) == readNow + interval[t]

\* reset arms the timerfd for the earliest timer left, if there is one.
Rearm ==
  IF timers' = {}
    THEN UNCHANGED fdVars
    ELSE \E e \in {expiration'[t] : t \in timers'} :
           (\A u \in timers' : e <= expiration'[u]) /\ ResetTimerfd(e)

\* reset: repeating timers go back into the set, the others are deleted.
Reset ==
  /\ timerPc = "handleRead"
  /\ toRun = {}
  /\ LET repeating == {t \in expired : interval[t] > 0} IN
     /\ timers' = timers \cup repeating
     /\ expiration' = [t \in Timers |->
                         IF t \in repeating THEN Restart(t) ELSE expiration[t]]
  /\ Rearm
  /\ expired' = {}
  /\ timerPc' = "outside"
  /\ readNow' = 0
  /\ UNCHANGED <<now, interval, toRun, free, adding, start, runs>>

-----------------------------------------------------------------------------
TimerNext ==
  \/ Tick
  \/ \E t \in Timers, d \in Delays, r \in BOOLEAN :
       AddTimerFromLoop(t, d, r) \/ AddTimerFromOther(t, d, r)
  \/ \E t \in Timers : AddTimerInLoop(t) \/ RunCallback(t)
  \/ PollReturns
  \/ HandleRead
  \/ Reset

TimerSpec == TimerInit /\ [][TimerNext]_timerVars

-----------------------------------------------------------------------------
\* No timer is overlooked.  Whenever handleRead is not running, the one
\* timerfd covers every timer in timers_: it is readable, or it will be when
\* the timer expires (at the next tick, if that is past).  This must survive
\* addTimer re-arming an fd that has expired but was not read, timers added
\* by callbacks while handleRead holds the expired ones, and callbacks so
\* slow that a repeating timer is late when it is put back.
Covered(t) ==
  readable \/ (armedAt > now /\ armedAt <= FireTime(expiration[t]))
AllTimersCovered == timerPc # "handleRead" => \A t \in timers : Covered(t)

\* No callback is called before its time has come.
NeverEarly ==
  [][\A t \in Timers : runs'[t] # runs[t] => expiration[t] <= now]_timerVars

\* A repeating timer is not called more often than its interval allows, and
\* any other only once, however late and however bunched the calls are.
NeverTooOften ==
  \A t \in Timers :
    IF interval[t] = 0 THEN runs[t] <= 1
    ELSE t \notin free => runs[t] * interval[t] <= now - start[t]

=============================================================================
