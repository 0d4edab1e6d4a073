--------------------------- MODULE UacpiSyncProofs ---------------------------
(***************************************************************************)
(* Proofs about UacpiSync, for any callers, timeouts and clock: the mutex  *)
(* has one owner, no signal is lost or taken twice, and no call fails      *)
(* before its time.                                                        *)
(***************************************************************************)
EXTENDS UacpiSync, TLAPS

\* Zenon proves the leaves that name no prover.
USE ZenonT(60)

\* Milliseconds and nanoseconds: what the proofs use of multiplication.
LEMMA Products ==
  ASSUME NEW a \in Int, NEW b \in Int, NEW m \in Nat
  PROVE  /\ a * m \in Int /\ (a - b) * m = a * m - b * m
         /\ a <= 0 => a * m <= 0
         /\ a >= 0 => a * m >= 0
  BY SMTT(60)

\* The timeout of a call is a number, and so is the cap of its history.
LEMMA Caps ==
  ASSUME TypeOK, NEW c \in Callers
  PROVE  /\ timeout[c] \in Nat /\ Cap(c) \in Nat
         /\ timeout[c] # Infinite => Cap(c) = timeout[c] * MS
<1>1. timeout[c] \in Nat
  BY SMTT(60), SyncAssumption DEF TypeOK
<1>2. timeout[c] * MS \in Nat
  BY SMTT(60), <1>1, SyncAssumption, Products
<1> QED BY <1>1, <1>2 DEF Cap

\* A caller that takes no step keeps its share of the invariant.
LEMMA Bystander ==
  ASSUME NEW d \in Callers, Budgeted(d),
         pc'[d] = pc[d], value'[d] = value[d], timeout'[d] = timeout[d], waited'[d] = waited[d],
         budget'[d] = budget[d], remaining'[d] = remaining[d], left'[d] = left[d]
  PROVE  Budgeted(d)'
  BY DEF Budgeted, Cap

\* A call that returns has its share of the invariant, and disturbs no other's.
LEMMA Returned ==
  ASSUME TypeOK, NEW c \in Callers, NEW r \in {"OK", "TIMEOUT", "TRUE", "FALSE"}, Return(c, r)
  PROVE  /\ pc' \in [Callers -> {"idle"} \cup Acquiring \cup Waiting]
         /\ timeout' \in [Callers -> MutexTimeouts \cup EventTimeouts \cup {0}]
         /\ budget' \in [Callers -> Nat] /\ waited' \in [Callers -> Nat]
         /\ remaining' \in [Callers -> Int]
         /\ result' \in [Callers -> {"none", "OK", "TIMEOUT", "TRUE", "FALSE"}]
         /\ \A d \in Callers \ {c} :
              /\ pc'[d] = pc[d] /\ timeout'[d] = timeout[d] /\ waited'[d] = waited[d]
              /\ budget'[d] = budget[d] /\ remaining'[d] = remaining[d]
         /\ Budgeted(c)'
<1>1. /\ pc' \in [Callers -> {"idle"} \cup Acquiring \cup Waiting] /\ pc'[c] = "idle"
      /\ \A d \in Callers \ {c} : pc'[d] = pc[d]
  BY DEF TypeOK, Return, Goto
<1>2. /\ timeout' \in [Callers -> MutexTimeouts \cup EventTimeouts \cup {0}] /\ timeout'[c] = 0
      /\ \A d \in Callers \ {c} : timeout'[d] = timeout[d]
  BY DEF TypeOK, Return
<1>3. /\ budget' \in [Callers -> Nat] /\ waited' \in [Callers -> Nat] /\ waited'[c] = 0
      /\ \A d \in Callers \ {c} : waited'[d] = waited[d] /\ budget'[d] = budget[d]
  BY DEF TypeOK, Return
<1>4. /\ remaining' \in [Callers -> Int] /\ \A d \in Callers \ {c} : remaining'[d] = remaining[d]
      /\ result' \in [Callers -> {"none", "OK", "TIMEOUT", "TRUE", "FALSE"}]
  BY SMTT(60) DEF TypeOK, Return
<1>5. Cap(c)' \in Nat
  BY SMTT(60), <1>2, SyncAssumption, Products DEF Cap
<1>6. Budgeted(c)'
  BY SMTT(60), <1>1, <1>3, <1>5 DEF Budgeted, Waiting
<1> QED BY <1>1, <1>2, <1>3, <1>4, <1>6

\* Calls, tries and sleeps of acquire_mutex.
LEMMA AcquireInv ==
  ASSUME IInv, NEW c \in Callers,
         CallAcquire(c) \/ Locks(c) \/ OnceFails(c) \/ ReadTime(c) \/ CheckTime(c) \/ TryFails(c)
                       \/ Release(c)
  PROVE  IInv'
<1>1. TypeOK /\ OneOwner /\ SignalsConserved /\ (\A d \in Callers : Budgeted(d)) /\ UNCHANGED event
  BY DEF IInv, CallAcquire, Locks, OnceFails, ReadTime, CheckTime, TryFails, Release
<1>2. SignalsConserved'
  BY <1>1 DEF SignalsConserved, event
<1>3. OneOwner'
  BY <1>1 DEF TypeOK, OneOwner, CallAcquire, Locks, OnceFails, ReadTime, CheckTime, TryFails, Release,
              TryLock, mutex
<1>4. Cap(c) \in Nat /\ timeout[c] \in Nat /\ (timeout[c] # Infinite => Cap(c) = timeout[c] * MS)
  BY <1>1, Caps
<1>5. \A d \in Callers \ {c} : Budgeted(d)'
  <2> SUFFICES ASSUME NEW d \in Callers \ {c} PROVE Budgeted(d)'
    OBVIOUS
  <2>1. value'[d] = value[d] /\ left'[d] = left[d]
    BY <1>1 DEF event, CallAcquire, Locks, OnceFails, ReadTime, CheckTime, TryFails, Release, clocks
  <2>2. /\ pc'[d] = pc[d] /\ timeout'[d] = timeout[d] /\ waited'[d] = waited[d]
        /\ budget'[d] = budget[d] /\ remaining'[d] = remaining[d]
    <3>1. CASE CallAcquire(c) \/ ReadTime(c) \/ TryFails(c) \/ Release(c)
      BY <1>1, <3>1 DEF TypeOK, CallAcquire, ReadTime, TryFails, Release, Call, Goto, clocks
    <3>2. CASE CheckTime(c) /\ Goto(c, "try") /\ UNCHANGED locals
      BY <1>1, <3>2 DEF TypeOK, Goto, locals
    <3>3. CASE \E r \in {"OK", "TIMEOUT"} : Return(c, r)
      BY <1>1, <3>3, Returned
    <3> QED BY <3>1, <3>2, <3>3 DEF Locks, OnceFails, CheckTime
  <2> QED BY <1>1, <2>1, <2>2, Bystander
<1>6. CASE CallAcquire(c)
  <2>1. PICK t \in MutexTimeouts :
          Call(c, t, IF t = Infinite THEN "lock" ELSE IF t = 0 THEN "once" ELSE "time")
    BY <1>6 DEF CallAcquire
  <2>2. /\ timeout'[c] = t /\ waited'[c] = 0 /\ pc'[c] \in {"lock", "once", "time"}
        /\ (pc'[c] = "once" => t = 0) /\ (pc'[c] = "time" => t # Infinite)
    BY <1>1, <2>1 DEF Call, Goto, TypeOK
  <2>3. TypeOK'
    BY <1>1, <1>6, <2>1 DEF TypeOK, CallAcquire, Call, Goto, event, mutex, Acquiring
  <2>4. Cap(c)' \in Nat
    BY SMTT(60), <2>2, SyncAssumption, Products DEF Cap
  <2>5. Budgeted(c)'
    BY SMTT(60), <2>2, <2>4 DEF Budgeted, Waiting
  <2> QED BY <1>2, <1>3, <1>5, <2>3, <2>5 DEF IInv
<1>7. CASE ReadTime(c)
  <2>1. /\ pc[c] = "time" /\ pc'[c] = "check" /\ budget'[c] = timeout[c] * MS
        /\ waited' = waited /\ timeout' = timeout
    BY <1>1, <1>7 DEF ReadTime, Goto, TypeOK
  <2>2. timeout[c] # Infinite /\ waited[c] <= Cap(c) /\ waited[c] \in Nat
    BY <1>1, <2>1 DEF Budgeted, TypeOK
  <2>3. Cap(c)' = Cap(c)
    BY <2>1 DEF Cap
  <2>4. Budgeted(c)'
    BY SMTT(60), <1>4, <2>1, <2>2, <2>3 DEF Budgeted, Waiting
  <2>5. budget' \in [Callers -> Nat]
    BY <1>1, <1>4, <1>7, <2>2 DEF ReadTime, TypeOK
  <2>6. TypeOK'
    BY <1>1, <1>7, <2>5 DEF TypeOK, ReadTime, Goto, event, mutex, Acquiring
  <2> QED BY <1>2, <1>3, <1>5, <2>4, <2>6 DEF IInv
<1>8. CASE (CheckTime(c) /\ Goto(c, "try") /\ UNCHANGED <<result, locals>>) \/ TryFails(c) \/ Release(c)
  <2>1. TypeOK'
    <3>3. CASE CheckTime(c) /\ Goto(c, "try") /\ UNCHANGED <<result, locals>>
      BY <1>1, <3>3 DEF TypeOK, CheckTime, Goto, event, mutex, locals, Acquiring
    <3>4. CASE TryFails(c)
      BY <1>1, <3>4 DEF TypeOK, TryFails, Goto, event, mutex, clocks, Acquiring
    <3>5. CASE Release(c)
      BY <1>1, <3>5 DEF TypeOK, Release, event, clocks
    <3> QED BY <1>8, <3>3, <3>4, <3>5
  <2>2. /\ pc'[c] \in {"idle", "try", "sleeps"}
        /\ pc'[c] \in {"try", "sleeps"} => pc[c] \in {"check", "try"}
        /\ waited' = waited /\ timeout' = timeout /\ budget' = budget
    BY <1>1, <1>8 DEF TypeOK, CheckTime, TryFails, Release, Goto, locals, clocks
  <2>3. Cap(c)' = Cap(c)
    BY <2>2 DEF Cap
  <2>4. Budgeted(c)'
    BY <1>1, <2>2, <2>3 DEF Budgeted, Waiting
  <2> QED BY <1>2, <1>3, <1>5, <2>1, <2>4 DEF IInv
<1>9. CASE (Locks(c) \/ OnceFails(c) \/ CheckTime(c)) /\ \E r \in {"OK", "TIMEOUT"} : Return(c, r)
  <2>1. locked' \in BOOLEAN /\ owns' \in [Callers -> BOOLEAN] /\ left' = left
    BY <1>1, <1>9 DEF TypeOK, Locks, OnceFails, CheckTime, TryLock, mutex
  <2>2. TypeOK' /\ Budgeted(c)'
    BY <1>1, <1>9, <2>1, Returned DEF TypeOK, event
  <2> QED BY <1>2, <1>3, <1>5, <2>2 DEF IInv
<1> QED BY <1>6, <1>7, <1>8, <1>9 DEF Locks, OnceFails, CheckTime
\* Calls of wait_for_event, and the loads that find a counter or zero.
LEMMA WaitInv ==
  ASSUME IInv, NEW c \in Callers, CallWait(c) \/ Load(c) \/ LoadsZero(c) \/ Exchange(c)
  PROVE  IInv'
<1>1. TypeOK /\ OneOwner /\ SignalsConserved /\ (\A d \in Callers : Budgeted(d)) /\ UNCHANGED mutex
  BY DEF IInv, CallWait, Load, LoadsZero, Exchange
<1>2. OneOwner'
  BY <1>1 DEF OneOwner, mutex
<1>3. Cap(c) \in Nat /\ timeout[c] \in Nat /\ (timeout[c] # Infinite => Cap(c) = timeout[c] * MS)
  BY <1>1, Caps
<1>4. \A d \in Callers \ {c} : Budgeted(d)'
  <2> SUFFICES ASSUME NEW d \in Callers \ {c} PROVE Budgeted(d)'
    OBVIOUS
  <2>1. value'[d] = value[d] /\ left'[d] = left[d]
    BY <1>1 DEF TypeOK, CallWait, Load, LoadsZero, Exchange, clocks, event
  <2>2. /\ pc'[d] = pc[d] /\ timeout'[d] = timeout[d] /\ waited'[d] = waited[d]
        /\ budget'[d] = budget[d] /\ remaining'[d] = remaining[d]
    <3>1. CASE CallWait(c) \/ Load(c)
      BY <1>1, <3>1 DEF TypeOK, CallWait, Load, Call, Goto, clocks
    <3>2. CASE (Goto(c, "dozes") \/ Goto(c, "load")) /\ UNCHANGED locals
      BY <1>1, <3>2 DEF TypeOK, Goto, locals
    <3>3. CASE \E r \in {"TRUE", "FALSE"} : Return(c, r)
      BY <1>1, <3>3, Returned
    <3> QED BY <3>1, <3>2, <3>3 DEF LoadsZero, Exchange
  <2> QED BY <1>1, <2>1, <2>2, Bystander
<1>5. CASE CallWait(c)
  <2>1. PICK t \in EventTimeouts :
          /\ Call(c, t, "load")
          /\ remaining' = [remaining EXCEPT ![c] = IF t = Infinite THEN 0 ELSE t]
    BY <1>5 DEF CallWait
  <2>2. t \in Nat
    BY SyncAssumption
  <2>3. /\ timeout'[c] = t /\ waited'[c] = 0 /\ pc'[c] = "load"
        /\ (t # Infinite => remaining'[c] = t)
    BY <1>1, <2>1 DEF Call, Goto, TypeOK
  <2>4. TypeOK'
    BY SMTT(60), <1>1, <1>5, <2>1, <2>2 DEF TypeOK, CallWait, Call, Goto, event, mutex, Waiting
  <2>5. Cap(c)' \in Nat /\ (t # Infinite => Cap(c)' = t * MS)
    BY SMTT(60), <2>2, <2>3, SyncAssumption, Products DEF Cap
  <2>6. Budgeted(c)'
    BY SMTT(60), <2>2, <2>3, <2>5 DEF Budgeted, Waiting
  <2>7. SignalsConserved'
    BY <1>1, <1>5 DEF SignalsConserved, CallWait, event
  <2> QED BY <1>2, <1>4, <2>4, <2>6, <2>7 DEF IInv
<1>6. CASE Load(c)
  <2>1. /\ pc[c] = "load" /\ pc'[c] = "exchange" /\ value'[c] > 0
        /\ UNCHANGED <<timeout, waited, remaining, left>>
    BY SMTT(60), <1>1, <1>6 DEF Load, Goto, TypeOK, clocks
  <2>2. TypeOK'
    BY <1>1, <1>6 DEF TypeOK, Load, Goto, mutex, clocks, Waiting
  <2>3. Cap(c)' = Cap(c)
    BY <2>1 DEF Cap
  <2>4. Budgeted(c)'
    BY <1>1, <2>1, <2>3 DEF Budgeted, Waiting
  <2>5. SignalsConserved'
    BY <1>1, <1>6 DEF SignalsConserved, Load
  <2> QED BY <1>2, <1>4, <2>2, <2>4, <2>5 DEF IInv
<1>7. CASE LoadsZero(c)
  <2>1. SignalsConserved'
    BY <1>1, <1>7 DEF SignalsConserved, LoadsZero, event
  <2>2. CASE Return(c, "FALSE")
    <3>1. TypeOK' /\ Budgeted(c)'
      BY <1>1, <1>7, <2>2, Returned DEF TypeOK, LoadsZero, event, mutex
    <3> QED BY <1>2, <1>4, <2>1, <3>1 DEF IInv
  <2>3. CASE Goto(c, "dozes") /\ UNCHANGED <<result, locals>>
    <3>1. pc[c] = "load" /\ pc'[c] = "dozes" /\ UNCHANGED <<timeout, waited, remaining, left>>
      BY <1>1, <1>7, <2>3 DEF LoadsZero, Goto, TypeOK, locals
    <3>2. TypeOK'
      BY <1>1, <1>7, <2>3 DEF TypeOK, LoadsZero, Goto, mutex, locals, event, Waiting
    <3>3. Cap(c)' = Cap(c)
      BY <3>1 DEF Cap
    <3>4. Budgeted(c)'
      BY <1>1, <3>1, <3>3 DEF Budgeted, Waiting
    <3> QED BY <1>2, <1>4, <2>1, <3>2, <3>4 DEF IInv
  <2> QED BY <1>7, <2>2, <2>3 DEF LoadsZero
<1>8. CASE Exchange(c)
  <2>1. value[c] > 0 /\ value[c] \in Nat
    BY <1>1, <1>8 DEF Exchange, Budgeted, TypeOK
  <2>2. counter' \in Nat /\ taken' \in Nat /\ counter' + taken' = counter + taken
    BY SMTT(60), <1>1, <1>8, <2>1 DEF Exchange, TypeOK
  <2>3. value' \in [Callers -> Nat] /\ left' = left /\ UNCHANGED <<signalled, discarded>>
    BY <1>1, <1>8 DEF Exchange, TypeOK
  <2>4. SignalsConserved'
    BY <1>1, <2>2, <2>3 DEF SignalsConserved, TypeOK
  <2>5. CASE Return(c, "TRUE")
    <3>1. TypeOK' /\ Budgeted(c)'
      BY <1>1, <2>2, <2>3, <2>5, Returned DEF TypeOK, mutex
    <3> QED BY <1>2, <1>4, <2>4, <3>1 DEF IInv
  <2>6. CASE Goto(c, "load") /\ UNCHANGED <<result, locals>>
    <3>1. pc[c] = "exchange" /\ pc'[c] = "load" /\ UNCHANGED <<timeout, waited, remaining, left>>
      BY <1>1, <1>8, <2>6 DEF Exchange, Goto, TypeOK, locals
    <3>2. TypeOK'
      BY <1>1, <2>2, <2>3, <2>6 DEF TypeOK, Goto, mutex, locals, Waiting
    <3>3. Cap(c)' = Cap(c)
      BY <3>1 DEF Cap
    <3>4. Budgeted(c)'
      BY <1>1, <3>1, <3>3 DEF Budgeted, Waiting
    <3> QED BY <1>2, <1>4, <2>4, <3>2, <3>4 DEF IInv
  <2> QED BY <1>8, <2>5, <2>6 DEF Exchange
<1> QED BY <1>5, <1>6, <1>7, <1>8

\* uacpi_kernel_sleep, on behalf of either loop.
LEMMA SleepInv ==
  ASSUME IInv, NEW c \in Callers, Sleep(c) \/ Wake(c)
  PROVE  IInv'
<1>1. /\ TypeOK /\ OneOwner /\ SignalsConserved /\ (\A d \in Callers : Budgeted(d))
      /\ UNCHANGED <<event, mutex, budget, waited, timeout, result>>
  BY DEF IInv, Sleep, Wake, clocks
<1>2. OneOwner' /\ SignalsConserved'
  BY <1>1 DEF OneOwner, SignalsConserved, mutex, event
<1>3. Cap(c) \in Nat /\ timeout[c] \in Nat /\ (timeout[c] # Infinite => Cap(c) = timeout[c] * MS)
  BY <1>1, Caps
<1>4. \A d \in Callers \ {c} : Budgeted(d)'
  <2> SUFFICES ASSUME NEW d \in Callers \ {c} PROVE Budgeted(d)'
    OBVIOUS
  <2>1. pc'[d] = pc[d] /\ remaining'[d] = remaining[d] /\ left'[d] = left[d]
    BY <1>1 DEF TypeOK, Sleep, Wake, Goto, clocks
  <2>2. value'[d] = value[d]
    BY <1>1 DEF event
  <2> QED BY <1>1, <2>1, <2>2, Bystander
<1>5. Cap(c)' = Cap(c) /\ waited'[c] = waited[c] /\ budget'[c] = budget[c] /\ timeout'[c] = timeout[c]
  BY <1>1 DEF Cap
<1>6. MS \in Nat /\ EventSleep \in Nat /\ remaining[c] \in Int /\ EventSleep * MS \in Nat
      /\ waited[c] \in Nat /\ budget[c] \in Nat
  BY SMTT(60), <1>1, SyncAssumption, Products DEF TypeOK
<1>7. (remaining[c] - EventSleep) * MS = remaining[c] * MS - EventSleep * MS /\ remaining[c] * MS \in Int
  BY SMTT(60), <1>6, Products
<1>8. CASE Sleep(c)
  <2>1. TypeOK'
    BY SMTT(60), <1>1, <1>6, <1>8 DEF TypeOK, Sleep, Goto, event, mutex, Acquiring, Waiting
  <2>2. CASE pc[c] = "sleeps"
    <3>1. pc'[c] = "sleeping"
      BY <1>1, <1>8, <2>2 DEF Sleep, Goto, TypeOK
    <3>2. Budgeted(c)'
      BY <1>1, <1>5, <2>2, <3>1 DEF Budgeted, Waiting
    <3> QED BY <1>2, <1>4, <2>1, <3>2 DEF IInv
  <2>3. CASE pc[c] = "dozes"
    <3>1. pc'[c] = "dozing" /\ left'[c] = EventSleep * MS /\ remaining' = remaining
      BY <1>1, <1>8, <2>3 DEF Sleep, Goto, TypeOK
    <3>2. timeout[c] # Infinite =>
            waited[c] = Cap(c) \/ waited[c] + remaining[c] * MS >= Cap(c)
      BY <1>1, <2>3 DEF Budgeted, Waiting
    <3>3. timeout[c] # Infinite =>
            waited[c] = Cap(c) \/ waited[c] + left'[c] + (remaining[c] - EventSleep) * MS >= Cap(c)
      BY SMTT(60), <1>3, <1>6, <1>7, <3>1, <3>2
    <3>4. waited[c] <= Cap(c)
      BY <1>1 DEF Budgeted
    <3>5. Budgeted(c)'
      BY <1>5, <3>1, <3>3, <3>4 DEF Budgeted, Waiting
    <3> QED BY <1>2, <1>4, <2>1, <3>5 DEF IInv
  <2> QED BY <1>8, <2>2, <2>3 DEF Sleep
<1>9. CASE Wake(c)
  <2>1. left[c] = 0
    BY SMTT(60), <1>1, <1>9 DEF Wake, TypeOK
  <2>2. TypeOK'
    <3>1. remaining' \in [Callers -> Int]
      BY SMTT(60), <1>1, <1>6, <1>9 DEF TypeOK, Wake
    <3> QED BY <1>1, <1>9, <3>1 DEF TypeOK, Wake, Goto, event, mutex, clocks, Acquiring, Waiting
  <2>3. CASE pc[c] = "sleeping"
    <3>1. pc'[c] = "check"
      BY <1>1, <1>9, <2>3 DEF Wake, Goto, TypeOK
    <3>2. Budgeted(c)'
      BY <1>1, <1>5, <2>3, <3>1 DEF Budgeted, Waiting
    <3> QED BY <1>2, <1>4, <2>2, <3>2 DEF IInv
  <2>4. CASE pc[c] = "dozing"
    <3>1. pc'[c] = "load" /\ (timeout[c] # Infinite => remaining'[c] = remaining[c] - EventSleep)
      BY <1>1, <1>9, <2>4 DEF Wake, Goto, TypeOK
    <3>2. timeout[c] # Infinite =>
            waited[c] = Cap(c) \/ waited[c] + 0 + (remaining[c] - EventSleep) * MS >= Cap(c)
      BY <1>1, <2>1, <2>4 DEF Budgeted, Waiting
    <3>3. timeout[c] # Infinite => waited[c] = Cap(c) \/ waited[c] + remaining'[c] * MS >= Cap(c)
      BY SMTT(60), <1>6, <1>7, <3>1, <3>2
    <3>4. waited[c] <= Cap(c)
      BY <1>1 DEF Budgeted
    <3>5. Budgeted(c)'
      BY <1>5, <3>1, <3>3, <3>4 DEF Budgeted, Waiting
    <3> QED BY <1>2, <1>4, <2>2, <3>5 DEF IInv
  <2> QED BY <1>9, <2>3, <2>4 DEF Wake
<1> QED BY <1>8, <1>9
\* What is waited grows by what the deadlines come closer.
LEMMA TickInv == ASSUME IInv, Tick PROVE IInv'
<1>1. /\ TypeOK /\ OneOwner /\ SignalsConserved /\ (\A d \in Callers : Budgeted(d))
      /\ UNCHANGED <<locked, owns, counter, value, signalled, taken, discarded, pc, timeout,
                     remaining, result>>
  BY DEF IInv, Tick, event, mutex
<1>2. OneOwner' /\ SignalsConserved'
  BY <1>1 DEF OneOwner, SignalsConserved
<1>3. TypeOK'
  <2>1. \A c \in Callers : budget[c] \in Nat /\ left[c] \in Nat /\ waited[c] \in Nat
    BY <1>1 DEF TypeOK
  <2>2. budget' \in [Callers -> Nat] /\ left' \in [Callers -> Nat] /\ waited' \in [Callers -> Nat]
    BY SMTT(60), <2>1 DEF Tick
  <2> QED BY <1>1, <2>2 DEF TypeOK
<1>4. ASSUME NEW c \in Callers PROVE Budgeted(c)'
  <2>1. Cap(c) \in Nat /\ Cap(c)' = Cap(c) /\ Budgeted(c)
    BY <1>1, Caps DEF Cap
  <2>2. budget[c] \in Nat /\ left[c] \in Nat /\ waited[c] \in Nat /\ remaining[c] \in Int
    BY <1>1 DEF TypeOK
  <2>3. /\ budget'[c] = IF budget[c] > 0 THEN budget[c] - 1 ELSE 0
        /\ left'[c] = IF left[c] > 0 THEN left[c] - 1 ELSE 0
        /\ waited'[c] = IF pc[c] # "idle" /\ waited[c] < Cap(c) THEN waited[c] + 1 ELSE waited[c]
    BY DEF Tick
  <2>4. PICK x \in Int : x = remaining[c] * MS
    BY <2>2, SyncAssumption, Products
  <2>5. PICK y \in Int : y = (remaining[c] - EventSleep) * MS
    BY SMTT(60), <2>2, SyncAssumption, Products
  <2>6. waited'[c] <= Cap(c) /\ waited'[c] \in Nat
    BY SMTT(60), <2>1, <2>2, <2>3 DEF Budgeted
  <2>7. pc[c] \in {"check", "try", "sleeps", "sleeping"} => waited'[c] + budget'[c] >= Cap(c)
    BY SMTT(60), <2>1, <2>2, <2>3 DEF Budgeted
  <2>8. pc[c] \in Waiting /\ timeout[c] # Infinite =>
          \/ waited'[c] = Cap(c)
          \/ pc[c] # "dozing" /\ waited'[c] + x >= Cap(c)
          \/ pc[c] = "dozing" /\ waited'[c] + left'[c] + y >= Cap(c)
    <3>1. pc[c] \in Waiting => pc[c] # "idle"
      BY DEF Waiting
    <3> QED BY SMTT(60), <2>1, <2>2, <2>3, <2>4, <2>5, <3>1 DEF Budgeted
  <2> QED BY <1>1, <2>1, <2>4, <2>5, <2>6, <2>7, <2>8 DEF Budgeted
<1> QED BY <1>2, <1>3, <1>4 DEF IInv

\* signal_event and reset_event keep the count of the signals.
LEMMA EventInv == ASSUME IInv, Signal \/ Reset PROVE IInv'
<1>1. /\ TypeOK /\ OneOwner /\ SignalsConserved /\ (\A d \in Callers : Budgeted(d))
      /\ UNCHANGED <<locked, owns, value, taken, budget, left, waited, pc, timeout,
                     remaining, result>>
  BY DEF IInv, Signal, Reset, mutex, clocks
<1>2. OneOwner'
  BY <1>1 DEF OneOwner
<1>3. SignalsConserved'
  BY SMTT(60), <1>1 DEF SignalsConserved, Signal, Reset, TypeOK
<1>4. TypeOK'
  BY SMTT(60), <1>1, SyncAssumption DEF TypeOK, Signal, Reset
<1>5. \A c \in Callers : Budgeted(c)'
  BY <1>1, Bystander
<1> QED BY <1>2, <1>3, <1>4, <1>5 DEF IInv

\* Every step preserves the inductive invariant.
LEMMA Inductive == ASSUME IInv, [Next]_vars PROVE IInv'
<1>1. CASE UNCHANGED vars
  <2>1. UNCHANGED <<locked, owns, counter, value, signalled, taken, discarded, budget, left,
                    waited, pc, timeout, remaining, result>>
    BY <1>1 DEF vars, event, mutex, clocks
  <2>2. TypeOK' /\ OneOwner' /\ SignalsConserved'
    BY <2>1 DEF IInv, TypeOK, OneOwner, SignalsConserved
  <2>3. \A c \in Callers : Budgeted(c)'
    BY <2>1, Bystander DEF IInv
  <2> QED BY <2>2, <2>3 DEF IInv
<1>2. ASSUME NEW c \in Callers, CallAcquire(c) \/ CallWait(c) \/ Release(c) \/ Step(c) PROVE IInv'
  BY <1>2, AcquireInv, WaitInv, SleepInv DEF Step
<1> QED BY <1>1, <1>2, TickInv, EventInv DEF Next

\* The inductive invariant holds before the first call.
LEMMA Initially == Init => IInv
<1> SUFFICES ASSUME Init PROVE IInv
  OBVIOUS
<1>1. TypeOK
  <2>1. /\ counter \in Nat /\ value \in [Callers -> Nat] /\ signalled \in 0..MaxSignals
        /\ taken \in Nat /\ discarded \in Nat
    BY SMTT(60), SyncAssumption DEF Init, create_event
  <2>4. locked \in BOOLEAN /\ owns \in [Callers -> BOOLEAN]
    BY DEF Init, create_mutex
  <2>2. /\ budget \in [Callers -> Nat] /\ left \in [Callers -> Nat] /\ waited \in [Callers -> Nat]
        /\ remaining \in [Callers -> Int]
    BY SMTT(60) DEF Init
  <2>3. /\ pc \in [Callers -> {"idle"} \cup Acquiring \cup Waiting]
        /\ timeout \in [Callers -> MutexTimeouts \cup EventTimeouts \cup {0}]
        /\ result \in [Callers -> {"none", "OK", "TIMEOUT", "TRUE", "FALSE"}]
    BY DEF Init
  <2> QED BY <2>1, <2>2, <2>3, <2>4 DEF TypeOK
<1>2. OneOwner /\ SignalsConserved
  BY SMTT(60) DEF Init, create_mutex, create_event, OneOwner, SignalsConserved
<1>3. \A c \in Callers : Budgeted(c)
  <2> SUFFICES ASSUME NEW c \in Callers PROVE Budgeted(c)
    OBVIOUS
  <2>1. Cap(c) \in Nat
    BY <1>1, Caps
  <2>2. pc[c] = "idle" /\ waited[c] = 0
    BY DEF Init
  <2> QED BY SMTT(60), <2>1, <2>2 DEF Budgeted, Waiting
<1> QED BY <1>1, <1>2, <1>3 DEF IInv

\* The inductive invariant holds in every reachable state.
LEMMA Invariant == Spec => []IInv
  BY Initially, Inductive, PTL DEF Spec

-----------------------------------------------------------------------------
(***************************************************************************)
(* However many callers wait, and whatever signal_event and reset_event do *)
(* between the load and the compare_exchange of SimpleEvent::decrement, no *)
(* signal is lost and none is taken twice.                                 *)
(***************************************************************************)
THEOREM SignalsAlwaysConserved == Spec => []SignalsConserved
<1>1. IInv => SignalsConserved
  BY DEF IInv
<1> QED BY <1>1, Invariant, PTL

\* acquire_mutex gives the mutex to one caller at a time, in all its modes.
THEOREM MutexHasOneOwner == Spec => []OneOwner
<1>1. IInv => OneOwner
  BY DEF IInv
<1> QED BY <1>1, Invariant, PTL

(***************************************************************************)
(* Neither call gives up before the clock says that its timeout is over,   *)
(* for every timeout, multiple of the sleep or not.                        *)
(***************************************************************************)
THEOREM NeverFailsEarly == Spec => FailsOnlyLate
<1> DEFINE Late == \A c \in Callers :
                     result[c] = "none" /\ result'[c] \in {"TIMEOUT", "FALSE"} =>
                       /\ waited[c] = Cap(c)
                       /\ result'[c] = "FALSE" => counter = 0
<1>1. ASSUME IInv, [Next]_vars PROVE Late
  <2> SUFFICES ASSUME NEW c \in Callers, result[c] = "none", result'[c] \in {"TIMEOUT", "FALSE"}
               PROVE  waited[c] = Cap(c) /\ (result'[c] = "FALSE" => counter = 0)
    OBVIOUS
  <2>1. /\ TypeOK /\ Budgeted(c) /\ Cap(c) \in Nat /\ waited[c] \in Nat /\ budget[c] \in Nat
        /\ remaining[c] \in Int /\ waited[c] <= Cap(c)
    BY <1>1, Caps DEF IInv, TypeOK, Budgeted
  <2>2. OnceFails(c) \/ CheckTime(c) \/ LoadsZero(c)
    <3>1. result'[c] # result[c]
      OBVIOUS
    <3>2. PICK d \in Callers : CallAcquire(d) \/ CallWait(d) \/ Release(d) \/ Step(d)
      BY <1>1, <3>1 DEF Next, Tick, Signal, Reset, vars
    <3>3. CASE CallAcquire(d) \/ CallWait(d)
      BY <2>1, <3>3 DEF CallAcquire, CallWait, Call, TypeOK
    <3>4. CASE Release(d) \/ ReadTime(d) \/ TryFails(d) \/ Load(d) \/ Sleep(d) \/ Wake(d)
      BY <3>1, <3>4 DEF Release, ReadTime, TryFails, Load, Sleep, Wake
    <3>5. CASE Locks(d) \/ Exchange(d)
      BY <2>1, <3>1, <3>5 DEF Locks, Exchange, Return, TypeOK
    <3>6. CASE OnceFails(d) \/ CheckTime(d) \/ LoadsZero(d)
      BY SMTT(60), <2>1, <3>1, <3>6 DEF OnceFails, CheckTime, LoadsZero, Return, TypeOK
    <3> QED BY <3>2, <3>3, <3>4, <3>5, <3>6 DEF Step
  <2>3. CASE OnceFails(c)
    <3>1. timeout[c] = 0 /\ result'[c] = "TIMEOUT"
      BY <2>1, <2>3 DEF OnceFails, Budgeted, Return, TypeOK
    <3>2. Cap(c) = 0
      BY SMTT(60), <3>1, SyncAssumption DEF Cap
    <3> QED BY SMTT(60), <2>1, <3>1, <3>2
  <2>4. CASE CheckTime(c)
    <3>1. budget[c] <= 0 /\ pc[c] = "check" /\ result'[c] = "TIMEOUT"
      BY <2>1, <2>4 DEF CheckTime, Return, TypeOK
    <3> QED BY SMTT(60), <2>1, <3>1 DEF Budgeted
  <2>5. CASE LoadsZero(c)
    <3>1. pc[c] = "load" /\ counter = 0 /\ timeout[c] # Infinite /\ remaining[c] <= 0
      BY <2>1, <2>5 DEF LoadsZero, Return, TypeOK
    <3>2. remaining[c] * MS <= 0 /\ remaining[c] * MS \in Int
      BY <2>1, <3>1, SyncAssumption, Products
    <3>3. waited[c] = Cap(c) \/ waited[c] + remaining[c] * MS >= Cap(c)
      BY <2>1, <3>1 DEF Budgeted, Waiting
    <3>4. PICK r \in Int : r = remaining[c] * MS /\ r <= 0
      BY <3>2
    <3>5. waited[c] = Cap(c)
      BY SMTT(60), <2>1, <3>3, <3>4
    <3> QED BY <3>1, <3>5
  <2> QED BY <2>2, <2>3, <2>4, <2>5
<1>2. IInv /\ [Next]_vars => [Late]_vars
  BY <1>1
<1>3. Spec => [][Late]_vars
  BY <1>2, Invariant, PTL DEF Spec
<1> QED BY <1>3 DEF FailsOnlyLate
=============================================================================
