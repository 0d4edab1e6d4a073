------------------------------ MODULE UacpiSync ------------------------------
(***************************************************************************)
(* The waits of the uACPI host interface (acpi/uacpi.rs): acquire_mutex,   *)
(* a SpinLock with a deadline, and wait_for_event, a counter that is       *)
(* decremented in a loop of load and compare_exchange, while other callers *)
(* release the mutex and handlers signal the event.                        *)
(*                                                                         *)
(* Time is what tsc::current_time_ns returns.  Only differences matter: a  *)
(* stored instant is kept as the time left until it, and Tick makes all of *)
(* these smaller.  The unit is a millisecond; MS ticks make one.           *)
(***************************************************************************)
EXTENDS Integers, FiniteSets

CONSTANTS Callers,        \* whoever calls uACPI
          MutexTimeouts,  \* timeouts acquire_mutex is called with, ms
          EventTimeouts,  \* timeouts wait_for_event is called with, ms
          Infinite,       \* 0xFFFF
          MS,             \* clock readings in a millisecond
          EventSleep,     \* the 10 ms wait_for_event sleeps between two looks
          MaxSignals      \* bound: calls of signal_event

ASSUME SyncAssumption ==
  /\ (MutexTimeouts \cup EventTimeouts) \ {Infinite} \subseteq Nat
  /\ Infinite \in Nat
  /\ MS \in Nat \ {0} /\ EventSleep \in Nat \ {0} /\ MaxSignals \in Nat
  /\ IsFiniteSet(Callers)

VARIABLES
  locked,     \* the SpinLock of the mutex
  counter,    \* SimpleEvent::counter
  pc,         \* what each caller is doing
  timeout,    \* the argument of its call
  budget,     \* acquire_mutex: deadline - now
  remaining,  \* wait_for_event: the variable of that name
  left,       \* uacpi_kernel_sleep: end - now
  value,      \* SimpleEvent::decrement: the value loaded
  result,     \* what its last call returned
  owns,       \* it has acquired the mutex and not released it
  \* History: time since the call, capped at its timeout; signals sent, taken
  \* by waits and thrown away.
  waited, signalled, taken, discarded

event == <<counter, value, signalled, taken, discarded>>
mutex == <<locked, owns>>
clocks == <<budget, left, waited>>
vars == <<event, mutex, clocks, pc, timeout, remaining, result>>

Goto(c, l) == pc' = [pc EXCEPT ![c] = l]
locals == <<timeout, budget, remaining, waited>>

\* The call returns r, and its arguments and locals are gone.
Return(c, r) ==
  /\ Goto(c, "idle") /\ result' = [result EXCEPT ![c] = r]
  /\ timeout' = [timeout EXCEPT ![c] = 0]
  /\ budget' = [budget EXCEPT ![c] = 0]
  /\ remaining' = [remaining EXCEPT ![c] = 0]
  /\ waited' = [waited EXCEPT ![c] = 0]

\* The time since the call started that the properties tell apart.
Cap(c) == IF timeout[c] = Infinite THEN 0 ELSE timeout[c] * MS

\* current_time_ns has advanced.
Tick ==
  /\ budget' = [c \in Callers |-> IF budget[c] > 0 THEN budget[c] - 1 ELSE 0]
  /\ left' = [c \in Callers |-> IF left[c] > 0 THEN left[c] - 1 ELSE 0]
  /\ waited' = [c \in Callers |-> IF pc[c] # "idle" /\ waited[c] < Cap(c)
                                   THEN waited[c] + 1 ELSE waited[c]]
  /\ UNCHANGED <<event, mutex, pc, timeout, remaining, result>>

Call(c, t, l) ==
  /\ pc[c] = "idle"
  /\ timeout' = [timeout EXCEPT ![c] = t]
  /\ waited' = [waited EXCEPT ![c] = 0]
  /\ result' = [result EXCEPT ![c] = "none"]
  /\ Goto(c, l)

-----------------------------------------------------------------------------
(* uacpi_kernel_acquire_mutex *)

CallAcquire(c) ==
  /\ ~owns[c]
  /\ \E t \in MutexTimeouts :
       Call(c, t, IF t = Infinite THEN "lock" ELSE IF t = 0 THEN "once" ELSE "time")
  /\ UNCHANGED <<event, mutex, budget, left, remaining>>

\* SpinLock::try_lock
TryLock(c) == ~locked /\ locked' = TRUE /\ owns' = [owns EXCEPT ![c] = TRUE]

\* The attempt that gets the mutex, of each of the three modes.
Locks(c) ==
  /\ pc[c] \in {"lock", "once", "try"}
  /\ TryLock(c)
  /\ Return(c, "OK")
  /\ UNCHANGED <<event, left>>

OnceFails(c) ==
  /\ pc[c] = "once" /\ locked
  /\ Return(c, "TIMEOUT")
  /\ UNCHANGED <<event, mutex, left>>

\* The start of the loop with a deadline: time + timeout.
ReadTime(c) ==
  /\ pc[c] = "time"
  /\ budget' = [budget EXCEPT ![c] = timeout[c] * MS]
  /\ Goto(c, "check")
  /\ UNCHANGED <<event, mutex, left, waited, timeout, remaining, result>>

CheckTime(c) ==
  /\ pc[c] = "check"
  /\ \/ budget[c] > 0 /\ Goto(c, "try") /\ UNCHANGED <<result, locals>>
     \/ budget[c] <= 0 /\ Return(c, "TIMEOUT")
  /\ UNCHANGED <<event, mutex, left>>

TryFails(c) ==
  /\ pc[c] = "try" /\ locked
  /\ Goto(c, "sleeps")
  /\ UNCHANGED <<event, mutex, clocks, timeout, remaining, result>>

\* uacpi_kernel_release_mutex, called by uACPI for a mutex it acquired.
Release(c) ==
  /\ pc[c] = "idle" /\ owns[c]
  /\ locked' = FALSE
  /\ owns' = [owns EXCEPT ![c] = FALSE]
  /\ UNCHANGED <<event, clocks, pc, timeout, remaining, result>>

-----------------------------------------------------------------------------
(* uacpi_kernel_wait_for_event *)

CallWait(c) ==
  /\ \E t \in EventTimeouts :
       /\ Call(c, t, "load")
       /\ remaining' = [remaining EXCEPT ![c] = IF t = Infinite THEN 0 ELSE t]
  /\ UNCHANGED <<event, mutex, budget, left>>

\* SimpleEvent::decrement, when there is something to take, ...
Load(c) ==
  /\ pc[c] = "load" /\ counter # 0
  /\ value' = [value EXCEPT ![c] = counter]
  /\ Goto(c, "exchange")
  /\ UNCHANGED <<counter, signalled, taken, discarded, mutex, clocks, timeout, remaining, result>>

\* Mutant: the value loaded before is decremented, whatever the counter is now.
Exchange_Store(c) ==
  /\ pc[c] = "exchange"
  /\ counter' = value[c] - 1
  /\ taken' = taken + 1
  /\ Return(c, "TRUE")
  /\ UNCHANGED <<value, signalled, discarded, mutex, left>>

Exchange(c) ==
  /\ pc[c] = "exchange"
  /\ value' = [value EXCEPT ![c] = 0]
  /\ \/ /\ counter = value[c]
        /\ counter' = value[c] - 1
        /\ taken' = taken + 1
        /\ Return(c, "TRUE")
     \/ /\ counter # value[c]
        /\ Goto(c, "load")
        /\ UNCHANGED <<counter, taken, result, locals>>
  /\ UNCHANGED <<signalled, discarded, mutex, left>>

\* Mutant: the time that is left is checked before the sleep is counted.
LoadsZero_Early(c) ==
  /\ pc[c] = "load" /\ counter = 0
  /\ IF timeout[c] # Infinite /\ remaining[c] <= EventSleep
     THEN Return(c, "FALSE")
     ELSE Goto(c, "dozes") /\ UNCHANGED <<result, locals>>
  /\ UNCHANGED <<event, mutex, left>>

\* ... and when there is not: the loop gives up or sleeps.
LoadsZero(c) ==
  /\ pc[c] = "load" /\ counter = 0
  /\ IF timeout[c] # Infinite /\ remaining[c] <= 0
     THEN Return(c, "FALSE")
     ELSE Goto(c, "dozes") /\ UNCHANGED <<result, locals>>
  /\ UNCHANGED <<event, mutex, left>>

\* uacpi_kernel_signal_event, from a handler or from anyone.
Signal ==
  /\ signalled < MaxSignals
  /\ counter' = counter + 1
  /\ signalled' = signalled + 1
  /\ UNCHANGED <<value, taken, discarded, mutex, clocks, pc, timeout, remaining, result>>

\* uacpi_kernel_reset_event
Reset ==
  /\ counter > 0
  /\ counter' = 0
  /\ discarded' = discarded + counter
  /\ UNCHANGED <<value, signalled, taken, mutex, clocks, pc, timeout, remaining, result>>

-----------------------------------------------------------------------------
(* uacpi_kernel_sleep *)

Sleep(c) ==
  /\ \/ pc[c] = "sleeps" /\ left' = [left EXCEPT ![c] = MS] /\ Goto(c, "sleeping")
     \/ pc[c] = "dozes" /\ left' = [left EXCEPT ![c] = EventSleep * MS] /\ Goto(c, "dozing")
  /\ UNCHANGED <<event, mutex, budget, waited, timeout, remaining, result>>

\* Mutant: the deadline of acquire_mutex is computed again after each sleep.
Wake_Restarts(c) ==
  /\ left[c] <= 0
  /\ \/ pc[c] = "sleeping" /\ Goto(c, "time") /\ UNCHANGED remaining
     \/ /\ pc[c] = "dozing" /\ Goto(c, "load")
        /\ remaining' = [remaining EXCEPT ![c] = @ - EventSleep]
  /\ UNCHANGED <<event, mutex, clocks, timeout, result>>

\* Mutant: the counter is not looked at again.
Wake_SleepsOn(c) ==
  /\ left[c] <= 0
  /\ \/ pc[c] = "sleeping" /\ Goto(c, "check")
     \/ pc[c] = "dozing" /\ Goto(c, "dozes")
  /\ UNCHANGED <<event, mutex, clocks, timeout, remaining, result>>

Wake(c) ==
  /\ left[c] <= 0
  /\ \/ pc[c] = "sleeping" /\ Goto(c, "check") /\ UNCHANGED remaining
     \/ /\ pc[c] = "dozing" /\ Goto(c, "load")
        /\ remaining' = IF timeout[c] = Infinite THEN remaining
                        ELSE [remaining EXCEPT ![c] = @ - EventSleep]
  /\ UNCHANGED <<event, mutex, clocks, timeout, result>>

-----------------------------------------------------------------------------
create_mutex == locked = FALSE /\ owns = [c \in Callers |-> FALSE]
create_event == counter = 0 /\ signalled = 0 /\ taken = 0 /\ discarded = 0

Init ==
  /\ create_mutex /\ create_event
  /\ value = [c \in Callers |-> 0]
  /\ pc = [c \in Callers |-> "idle"] /\ timeout = [c \in Callers |-> 0]
  /\ budget = [c \in Callers |-> 0] /\ left = [c \in Callers |-> 0]
  /\ waited = [c \in Callers |-> 0] /\ remaining = [c \in Callers |-> 0]
  /\ result = [c \in Callers |-> "none"]

Step(c) ==
  \/ Locks(c) \/ OnceFails(c) \/ ReadTime(c) \/ CheckTime(c) \/ TryFails(c)
  \/ Load(c) \/ Exchange(c) \/ LoadsZero(c) \/ Sleep(c) \/ Wake(c)

Next ==
  \/ Tick \/ Signal \/ Reset
  \/ \E c \in Callers : CallAcquire(c) \/ CallWait(c) \/ Release(c) \/ Step(c)

Spec == Init /\ [][Next]_vars

\* The clock runs, and so does every caller.
FairSpec == Spec /\ WF_vars(Tick) /\ \A c \in Callers : WF_vars(Step(c))
-----------------------------------------------------------------------------
Acquiring == {"lock", "once", "time", "check", "try", "sleeps", "sleeping"}
Waiting == {"load", "exchange", "dozes", "dozing"}

\* Types, and which call a caller is in.
TypeOK ==
  /\ locked \in BOOLEAN /\ owns \in [Callers -> BOOLEAN]
  /\ counter \in Nat /\ value \in [Callers -> Nat]
  /\ signalled \in 0..MaxSignals /\ taken \in Nat /\ discarded \in Nat
  /\ pc \in [Callers -> {"idle"} \cup Acquiring \cup Waiting]
  /\ timeout \in [Callers -> MutexTimeouts \cup EventTimeouts \cup {0}]
  /\ budget \in [Callers -> Nat] /\ left \in [Callers -> Nat]
  /\ waited \in [Callers -> Nat] /\ remaining \in [Callers -> Int]
  /\ result \in [Callers -> {"none", "OK", "TIMEOUT", "TRUE", "FALSE"}]

(***************************************************************************)
(* A mutex has one owner, however its callers time out: acquire_mutex      *)
(* returns OK to nobody else until release_mutex.                          *)
(***************************************************************************)
OneOwner == \A c, d \in Callers : owns[c] => locked /\ (owns[d] => c = d)

(***************************************************************************)
(* No signal is lost and none is taken twice, whatever comes between the   *)
(* load and the compare_exchange of SimpleEvent::decrement: each one is    *)
(* still counted, was taken by one wait, or was thrown away by             *)
(* reset_event.                                                            *)
(***************************************************************************)
SignalsConserved == signalled = counter + taken + discarded

(***************************************************************************)
(* acquire_mutex and wait_for_event never fail before their timeout is     *)
(* over, and a wait that fails has seen the counter at zero after that.    *)
(***************************************************************************)
FailsOnlyLate ==
  [][\A c \in Callers :
       result[c] = "none" /\ result'[c] \in {"TIMEOUT", "FALSE"} =>
         /\ waited[c] = Cap(c)
         /\ result'[c] = "FALSE" => counter = 0]_vars

\* What makes that so: time already waited and time still to wait add up, and
\* only a value other than zero is exchanged.
Budgeted(c) ==
  /\ waited[c] <= Cap(c)
  /\ pc[c] = "exchange" => value[c] > 0
  /\ pc[c] = "once" => timeout[c] = 0
  /\ pc[c] = "time" => timeout[c] # Infinite
  /\ pc[c] \in {"check", "try", "sleeps", "sleeping"} => waited[c] + budget[c] >= Cap(c)
  /\ pc[c] \in Waiting /\ timeout[c] # Infinite =>
       \/ waited[c] = Cap(c)
       \/ pc[c] # "dozing" /\ waited[c] + remaining[c] * MS >= Cap(c)
       \/ pc[c] = "dozing" /\ waited[c] + left[c] + (remaining[c] - EventSleep) * MS >= Cap(c)

IInv == TypeOK /\ OneOwner /\ SignalsConserved /\ \A c \in Callers : Budgeted(c)

(***************************************************************************)
(* A call with a timeout other than 0xFFFF returns, whatever the others    *)
(* do with the mutex or the event.                                         *)
(***************************************************************************)
FiniteCallsReturn ==
  \A c \in Callers : pc[c] # "idle" /\ timeout[c] # Infinite ~> pc[c] = "idle"

(***************************************************************************)
(* A caller that waits while the event is signalled does not sleep on: it  *)
(* returns, unless somebody else takes the signal first.                   *)
(***************************************************************************)
SignalNoticed == \A c \in Callers : pc[c] \in Waiting /\ counter > 0 ~> pc[c] = "idle" \/ counter = 0
=============================================================================
