----------------------------- MODULE LocksProofs -----------------------------
(***************************************************************************)
(* Proofs about Locks, for any CPUs, any locks and any nestings of them:   *)
(* mutual exclusion, the interrupt flag given back, no handler inside a    *)
(* critical section, no handler waiting for the thread it suspended, and,  *)
(* with nestings in the order of Rank, never all CPUs waiting.             *)
(***************************************************************************)
EXTENDS Locks, WellFoundedInduction, TLAPS

\* Zenon proves the leaves that name no prover.
USE ZenonT(60)

Held == Seq([lock : Sections, flags : BOOLEAN])
PcSet == {"idle"} \cup Entering \cup Leaving

-----------------------------------------------------------------------------
(* Facts about the two ends of a section. *)

\* The length of a sequence without its last element.
LEMMA FrontLen ==
  ASSUME NEW S, NEW s \in Seq(S), s # <<>>, NEW n \in Nat, n = Len(s) - 1
  PROVE  Len(SubSeq(s, 1, n)) = n
<1>1. CASE n = 0
  BY SMTT(60), <1>1
<1>2. CASE n # 0
  BY SMTT(60), <1>2
<1> QED BY <1>1, <1>2

\* Only the empty sequence has no element.
LEMMA EmptyLen ==
  ASSUME NEW S, NEW s \in Seq(S)
  PROVE  s = <<>> <=> Len(s) = 0
BY SMTT(60)

\* What is left of a stack of sections when its innermost one is left.
LEMMA Popped ==
  ASSUME NEW s \in Held, s # <<>>, NEW t, t = SubSeq(s, 1, Len(s) - 1)
  PROVE  /\ t \in Held /\ Len(s) \in Nat \ {0} /\ Len(t) = Len(s) - 1
         /\ \A i \in 1..Len(t) : t[i] = s[i]
<1> DEFINE S == [lock : Sections, flags : BOOLEAN]
<1>1. s \in Seq(S) /\ Len(s) \in Nat \ {0} /\ Len(s) - 1 \in Nat
  BY SMTT(60) DEF Held
<1> HIDE DEF S
<1>2. t \in Seq(S) /\ \A i \in 1..Len(s) - 1 : t[i] = s[i]
  BY SMTT(60), <1>1
<1>3. Len(t) = Len(s) - 1
  BY <1>1, FrontLen
<1> QED BY <1>1, <1>2, <1>3 DEF S, Held

\* Entering a section pushes it and takes it from the plan.
LEMMA EnteredFacts ==
  ASSUME TypeOK, NEW c \in CPUs, NEW fl \in BOOLEAN, pc[c] \in Entering, Entered(c, fl)
  PROVE  /\ held' \in [CPUs -> Held] /\ plan' \in [CPUs -> Seq(Sections)]
         /\ flags' \in [CPUs -> BOOLEAN] /\ pc' \in [CPUs -> PcSet]
         /\ \A d \in CPUs \ {c} : /\ held'[d] = held[d] /\ plan'[d] = plan[d]
                                  /\ pc'[d] = pc[d] /\ flags'[d] = flags[d]
         /\ Len(held[c]) \in Nat /\ Len(held'[c]) = Len(held[c]) + 1 /\ held'[c] # <<>>
         /\ held'[c][Len(held[c]) + 1] = [lock |-> Wants(c), flags |-> fl]
         /\ \A i \in 1..Len(held[c]) : held'[c][i] = held[c][i]
         /\ pc'[c] \in {"inside", "try"} /\ (plan'[c] # <<>> <=> pc'[c] = "try")
         /\ \A i \in DOMAIN plan'[c] : \E j \in DOMAIN plan[c] : plan'[c][i] = plan[c][j]
         /\ \E j \in DOMAIN plan[c] : Wants(c) = plan[c][j]
         /\ Wants(c) \in Sections
<1>1. plan[c] \in Seq(Sections) /\ plan[c] # <<>> /\ held[c] \in Held
  BY DEF TypeOK, Held
<1>2. /\ Tail(plan[c]) \in Seq(Sections) /\ Wants(c) \in Sections
      /\ \A i \in DOMAIN Tail(plan[c]) : \E j \in DOMAIN plan[c] : Tail(plan[c])[i] = plan[c][j]
      /\ \E j \in DOMAIN plan[c] : Wants(c) = plan[c][j]
  BY SMTT(60), <1>1 DEF Wants
<1>3. [lock |-> Wants(c), flags |-> fl] \in [lock : Sections, flags : BOOLEAN]
  BY <1>2
<1> DEFINE e == [lock |-> Wants(c), flags |-> fl]
           t == Append(held[c], e)
<1>4. /\ t \in Held /\ Len(held[c]) \in Nat /\ Len(t) = Len(held[c]) + 1 /\ t # <<>>
      /\ t[Len(held[c]) + 1] = e /\ \A i \in 1..Len(held[c]) : t[i] = held[c][i]
  <2> HIDE DEF e
  <2> QED BY SMTT(60), <1>1, <1>3 DEF Held, e
<1>5. held' = [held EXCEPT ![c] = t]
  BY DEF Entered
<1> HIDE DEF t, e
<1>6. held' \in [CPUs -> Held] /\ held'[c] = t /\ \A d \in CPUs \ {c} : held'[d] = held[d]
  BY <1>4, <1>5 DEF TypeOK, Held
<1>7. /\ plan' \in [CPUs -> Seq(Sections)] /\ plan'[c] = Tail(plan[c])
      /\ \A d \in CPUs \ {c} : plan'[d] = plan[d]
  BY <1>2 DEF Entered, TypeOK
<1>8. /\ flags' \in [CPUs -> BOOLEAN] /\ \A d \in CPUs \ {c} : flags'[d] = flags[d]
  BY DEF Entered, TypeOK
<1>9. /\ pc' \in [CPUs -> PcSet] /\ pc'[c] = (IF Tail(plan[c]) = <<>> THEN "inside" ELSE "try")
      /\ \A d \in CPUs \ {c} : pc'[d] = pc[d]
  BY DEF Entered, TypeOK, Goto, PcSet, Entering, Leaving
<1>10. pc'[c] \in {"inside", "try"} /\ (Tail(plan[c]) # <<>> <=> pc'[c] = "try")
  <2>1. CASE Tail(plan[c]) = <<>>
    BY <1>9, <2>1
  <2>2. CASE Tail(plan[c]) # <<>>
    BY <1>9, <2>2
  <2> QED BY <2>1, <2>2
<1>11. held'[c][Len(held[c]) + 1] = [lock |-> Wants(c), flags |-> fl]
  BY <1>4, <1>6 DEF e
<1>12. /\ Len(held[c]) \in Nat /\ Len(held'[c]) = Len(held[c]) + 1 /\ held'[c] # <<>>
       /\ \A i \in 1..Len(held[c]) : held'[c][i] = held[c][i]
  BY <1>4, <1>6
<1>13. \A d \in CPUs \ {c} : /\ held'[d] = held[d] /\ plan'[d] = plan[d]
                             /\ pc'[d] = pc[d] /\ flags'[d] = flags[d]
  BY <1>6, <1>7, <1>8, <1>9
<1>14. /\ plan'[c] # <<>> <=> pc'[c] = "try"
       /\ \A i \in DOMAIN plan'[c] : \E j \in DOMAIN plan[c] : plan'[c][i] = plan[c][j]
  BY <1>2, <1>7, <1>10
<1> QED BY <1>2, <1>6, <1>7, <1>8, <1>9, <1>10, <1>11, <1>12, <1>13, <1>14

\* The sections that stay are among those that were there.
LEMMA Inner == ASSUME NEW n \in Nat \ {0} PROVE \A i \in 1..n - 1 : i \in 1..n
  BY SMTT(60)

\* Leaving a section pops it.
LEMMA LeftFacts ==
  ASSUME TypeOK, NEW c \in CPUs, pc[c] \in Leaving, Left(c)
  PROVE  /\ held' \in [CPUs -> Held] /\ pc' \in [CPUs -> PcSet]
         /\ \A d \in CPUs \ {c} : held'[d] = held[d] /\ pc'[d] = pc[d]
         /\ Len(held[c]) \in Nat \ {0} /\ Len(held'[c]) = Len(held[c]) - 1
         /\ \A i \in 1..Len(held'[c]) : held'[c][i] = held[c][i]
         /\ pc'[c] = (IF Len(held[c]) = 1 THEN "idle" ELSE "inside")
         /\ (held'[c] = <<>> <=> Len(held[c]) = 1)
<1> DEFINE t == SubSeq(held[c], 1, Len(held[c]) - 1)
<1>1. held[c] \in Held /\ held[c] # <<>>
  BY DEF TypeOK, Held
<1>2. /\ t \in Held /\ Len(held[c]) \in Nat \ {0} /\ Len(t) = Len(held[c]) - 1
      /\ \A i \in 1..Len(t) : t[i] = held[c][i]
  BY <1>1, Popped
<1>3. held' = [held EXCEPT ![c] = t]
  BY DEF Left
<1> HIDE DEF t
<1>4. held' \in [CPUs -> Held] /\ held'[c] = t /\ \A d \in CPUs \ {c} : held'[d] = held[d]
  BY <1>2, <1>3 DEF TypeOK, Held
<1>5. /\ pc' \in [CPUs -> PcSet] /\ pc'[c] = (IF Len(held[c]) = 1 THEN "idle" ELSE "inside")
      /\ \A d \in CPUs \ {c} : pc'[d] = pc[d]
  BY DEF Left, TypeOK, Goto, PcSet, Entering, Leaving
<1>6. t = <<>> <=> Len(t) = 0
  BY <1>2, EmptyLen DEF Held
<1> QED BY SMTT(60), <1>2, <1>4, <1>5, <1>6

-----------------------------------------------------------------------------
(* Ownership: what a step may do to the owners of the locks. *)

\* A successful compare_exchange adds its caller as the only owner.
LEMMA Take ==
  ASSUME TypeOK, MutualExclusion, NEW w \in Agents, NEW l \in Locks, CompareExchange(l),
         \A v \in Agents, m \in Locks : Owns(v, m)' => Owns(v, m) \/ (v = w /\ m = l)
  PROVE  MutualExclusion' /\ locked' \in [Locks -> BOOLEAN]
<1>1. ~locked[l] /\ locked' \in [Locks -> BOOLEAN] /\ locked'[l] = TRUE
      /\ \A m \in Locks \ {l} : locked'[m] = locked[m]
  BY DEF CompareExchange, TypeOK
<1>2. SUFFICES ASSUME NEW m \in Locks, NEW u \in Agents, NEW v \in Agents, Owns(u, m)'
               PROVE  locked'[m] /\ (Owns(v, m)' => u = v)
  BY <1>1 DEF MutualExclusion
<1> HIDE DEF Owns
<1>3. \A x \in Agents : Owns(x, m) => locked[m] /\ \A y \in Agents : Owns(y, m) => x = y
  BY DEF MutualExclusion
<1> QED BY <1>1, <1>2, <1>3

\* A release by the owner leaves none.
LEMMA Give ==
  ASSUME TypeOK, MutualExclusion, NEW w \in Agents, NEW l \in Locks, Owns(w, l),
         locked' = [locked EXCEPT ![l] = FALSE],
         \A v \in Agents, m \in Locks : Owns(v, m)' => Owns(v, m) /\ ~(v = w /\ m = l)
  PROVE  MutualExclusion' /\ locked' \in [Locks -> BOOLEAN]
<1>1. locked' \in [Locks -> BOOLEAN] /\ \A m \in Locks \ {l} : locked'[m] = locked[m]
  BY DEF TypeOK
<1>2. SUFFICES ASSUME NEW m \in Locks, NEW u \in Agents, NEW v \in Agents, Owns(u, m)'
               PROVE  locked'[m] /\ (Owns(v, m)' => u = v)
  BY <1>1 DEF MutualExclusion
<1>3. \A k \in Locks, x \in Agents : Owns(x, k) => locked[k] /\ \A y \in Agents : Owns(y, k) => x = y
  BY DEF MutualExclusion
<1>4. m # l
  BY <1>2, <1>3
<1> QED BY <1>1, <1>2, <1>3, <1>4

\* Nothing else changes an owner.
LEMMA Keep ==
  ASSUME TypeOK, MutualExclusion, locked' = locked,
         \A v \in Agents, m \in Locks : Owns(v, m)' => Owns(v, m)
  PROVE  MutualExclusion' /\ locked' \in [Locks -> BOOLEAN]
<1>1. locked' \in [Locks -> BOOLEAN]
  BY DEF TypeOK
<1>2. SUFFICES ASSUME NEW m \in Locks, NEW u \in Agents, NEW v \in Agents, Owns(u, m)'
               PROVE  locked'[m] /\ (Owns(v, m)' => u = v)
  BY <1>1 DEF MutualExclusion
<1>3. \A k \in Locks, x \in Agents : Owns(x, k) => locked[k] /\ \A y \in Agents : Owns(y, k) => x = y
  BY DEF MutualExclusion
<1> QED BY <1>1, <1>2, <1>3

\* Who owned and owns l, thread by thread and handler by handler.
LEMMA OwnsSplit ==
  ASSUME NEW w \in Agents, NEW l
  PROVE  /\ Owns(w, l) <=> \/ w[2] = "thread" /\ ThreadOwns(w[1], l)
                           \/ w[2] = "isr" /\ IsrOwns(w[1], l)
         /\ w[1] \in CPUs /\ w = <<w[1], w[2]>>
  BY SMTT(60) DEF Owns, Agents

\* A CPU that takes no step keeps its locks, ...
LEMMA OtherOwns ==
  ASSUME NEW d \in CPUs, held'[d] = held[d], plan'[d] = plan[d], pc'[d] = pc[d], isr'[d] = isr[d]
  PROVE  \A l : (ThreadOwns(d, l)' <=> ThreadOwns(d, l)) /\ (IsrOwns(d, l)' <=> IsrOwns(d, l))
  BY DEF ThreadOwns, IsrOwns, Keeps, Wants

\* ... and its books, as long as nobody writes the saved_if of a lock it owns.
LEMMA OtherBooks ==
  ASSUME NEW d \in CPUs, held'[d] = held[d], plan'[d] = plan[d], pc'[d] = pc[d], isr'[d] = isr[d],
         Bookkeeping(d), flags_if'[d] = flags_if[d], enabled'[d] = enabled[d],
         flags'[d] = flags[d], restore'[d] = restore[d],
         \A l \in IntLocks : ThreadOwns(d, l) => saved_if'[l] = saved_if[l]
  PROVE  Bookkeeping(d)'
<1>1. \A i \in DOMAIN held[d] :
        held[d][i].lock \in IntLocks /\ Keeps(d, i)
          => saved_if'[held[d][i].lock] = saved_if[held[d][i].lock]
  BY DEF ThreadOwns
<1>2. pc[d] = "mask" => saved_if'[Wants(d)] = saved_if[Wants(d)]
  BY DEF ThreadOwns, Bookkeeping
<1> QED BY SMTT(60), <1>1, <1>2 DEF Bookkeeping, Wants, Innermost, ThreadIf, Runs, Keeps

\* A step leaves the CPU d alone.
Untouched(d) ==
  /\ held'[d] = held[d] /\ plan'[d] = plan[d] /\ pc'[d] = pc[d] /\ isr'[d] = isr[d]
  /\ flags_if'[d] = flags_if[d] /\ enabled'[d] = enabled[d]
  /\ flags'[d] = flags[d] /\ restore'[d] = restore[d]

\* What a step of c means for the other CPUs.
LEMMA Others ==
  ASSUME IInv, NEW c \in CPUs, \A d \in CPUs \ {c} : Untouched(d),
         \A l \in IntLocks : saved_if'[l] = saved_if[l] \/ ThreadOwns(c, l)
  PROVE  /\ \A d \in CPUs \ {c} : Bookkeeping(d)'
         /\ \A v \in Agents : \A m : v[1] # c => (Owns(v, m)' <=> Owns(v, m))
<1>1. ASSUME NEW d \in CPUs \ {c}, NEW l \in IntLocks, ThreadOwns(d, l)
      PROVE  saved_if'[l] = saved_if[l]
  <2>1. SUFFICES ASSUME ThreadOwns(c, l) PROVE FALSE
    OBVIOUS
  <2>2. <<c, "thread">> \in Agents /\ <<d, "thread">> \in Agents /\ l \in Locks
    BY DEF Agents, Locks
  <2>3. Owns(<<c, "thread">>, l) /\ Owns(<<d, "thread">>, l)
    BY <1>1, <2>1 DEF Owns
  <2>4. <<c, "thread">> = <<d, "thread">>
    BY <2>2, <2>3 DEF IInv, MutualExclusion
  <2> QED BY <2>4
<1>2. ASSUME NEW d \in CPUs \ {c} PROVE Bookkeeping(d)'
  BY <1>1, OtherBooks DEF Untouched, IInv
<1>3. ASSUME NEW v \in Agents, NEW m, v[1] # c PROVE Owns(v, m)' <=> Owns(v, m)
  <2>1. v[1] \in CPUs \ {c}
    BY <1>3, OwnsSplit
  <2>2. (ThreadOwns(v[1], m)' <=> ThreadOwns(v[1], m)) /\ (IsrOwns(v[1], m)' <=> IsrOwns(v[1], m))
    BY <2>1, OtherOwns DEF Untouched
  <2> QED BY <2>2 DEF Owns
<1> QED BY <1>2, <1>3

\* What the acting thread owns after a step that suspends nobody.
LEMMA ThreadStep ==
  ASSUME NEW c \in CPUs, isr'[c] = isr[c]
  PROVE  \A v \in Agents : \A m : v[1] = c =>
           /\ v = <<c, "thread">> \/ v = <<c, "isr">>
           /\ v = <<c, "thread">> => (Owns(v, m) <=> ThreadOwns(c, m)) /\ (Owns(v, m)' <=> ThreadOwns(c, m)')
           /\ v = <<c, "isr">> => (Owns(v, m)' <=> Owns(v, m))
  BY SMTT(60) DEF Owns, Agents, IsrOwns

-----------------------------------------------------------------------------
(* One lemma per action. *)

\* Starting an operation takes nothing: the books stay right.
LEMMA BeginInv == ASSUME IInv, NEW c \in CPUs, Begin(c) PROVE IInv'
<1>1. PICK p \in Seq(Sections) \ {<<>>} :
        /\ plan' = [plan EXCEPT ![c] = p]
        /\ enabled[c] => \A i \in DOMAIN p : p[i] # Slot
  <2>1. PICK p \in IF enabled[Bsp] THEN RunPlans ELSE BootPlans \cup RunPlans :
          plan' = [plan EXCEPT ![c] = p]
    BY DEF Begin
  <2>2. enabled[c] => p \in RunPlans
    BY <2>1 DEF Begin, Started
  <2>3. p \in Seq(Sections) \ {<<>>}
    BY <2>1, LocksAssumption
  <2> QED BY <2>1, <2>2, <2>3, LocksAssumption
<1>2. Runs(c) /\ pc[c] = "idle" /\ held[c] = <<>> /\ TypeOK /\ Bookkeeping(c) /\ MutualExclusion
  BY DEF Begin, IInv, TypeOK
<1>3. TypeOK'
  BY <1>1, <1>2 DEF Begin, TypeOK, Goto, Entering, Leaving
<1>4. \A d \in CPUs \ {c} : Untouched(d)
  BY <1>1, <1>2 DEF Untouched, Begin, TypeOK, Goto
<1>5. /\ \A d \in CPUs \ {c} : Bookkeeping(d)'
      /\ \A v \in Agents : \A m : v[1] # c => (Owns(v, m)' <=> Owns(v, m))
  BY <1>4, Others DEF Begin
<1>6. /\ pc'[c] = "try" /\ plan'[c] = p /\ held'[c] = <<>> /\ isr' = isr
      /\ \A m : ~ThreadOwns(c, m)'
  BY SMTT(60), <1>1, <1>2 DEF Begin, TypeOK, Goto, ThreadOwns
<1>7. MutualExclusion'
  <2>1. \A v \in Agents, m \in Locks : Owns(v, m)' => Owns(v, m)
    BY <1>5, <1>6, ThreadStep
  <2> QED BY <1>2, <2>1, Keep DEF Begin
<1>8. Bookkeeping(c)'
  BY SMTT(60), <1>1, <1>2, <1>6 DEF Begin, Bookkeeping, ThreadIf, Runs
<1> QED BY <1>3, <1>5, <1>7, <1>8 DEF IInv

\* IntLock::lock takes its flag by compare_exchange: the thread becomes the owner, the flag still to be saved.
LEMMA IntCasInv == ASSUME IInv, NEW c \in CPUs, IntCas(c) PROVE IInv'
<1>1. /\ Runs(c) /\ pc[c] = "try" /\ TypeOK /\ Bookkeeping(c) /\ MutualExclusion
      /\ Wants(c) \in IntLocks /\ Wants(c) \in Locks /\ CompareExchange(Wants(c)) /\ ~locked[Wants(c)]
  BY DEF IntCas, IInv, Locks, CompareExchange
<1>2. \A d \in CPUs \ {c} : Untouched(d)
  BY <1>1 DEF Untouched, IntCas, TypeOK, Goto
<1>3. /\ \A d \in CPUs \ {c} : Bookkeeping(d)'
      /\ \A v \in Agents : \A m : v[1] # c => (Owns(v, m)' <=> Owns(v, m))
  BY <1>2, Others DEF IntCas
<1>4. /\ pc'[c] = "save" /\ isr' = isr
      /\ \A m : ThreadOwns(c, m)' => ThreadOwns(c, m) \/ m = Wants(c)
  BY <1>1 DEF IntCas, TypeOK, Goto, ThreadOwns, Keeps, Wants
<1>5. MutualExclusion' /\ locked' \in [Locks -> BOOLEAN]
  <2>1. \A v \in Agents, m \in Locks :
          Owns(v, m)' => Owns(v, m) \/ (v = <<c, "thread">> /\ m = Wants(c))
    BY <1>3, <1>4, ThreadStep
  <2>2. <<c, "thread">> \in Agents
    BY DEF Agents
  <2> QED BY <1>1, <2>1, <2>2, Take
<1>6. TypeOK'
  BY <1>1, <1>5 DEF IntCas, TypeOK, Goto, Entering, Leaving
<1>7. \A i \in DOMAIN held[c] : held[c][i].lock # Wants(c)
  <2>1. SUFFICES ASSUME NEW i \in DOMAIN held[c], held[c][i].lock = Wants(c) PROVE FALSE
    OBVIOUS
  <2>2. Owns(<<c, "thread">>, Wants(c)) /\ <<c, "thread">> \in Agents
    BY <1>1, <2>1 DEF Owns, ThreadOwns, Keeps, Agents
  <2> QED BY <1>1, <2>2 DEF MutualExclusion
<1>8. Bookkeeping(c)'
  BY <1>1, <1>4, <1>7 DEF IntCas, Bookkeeping, ThreadIf, Runs, Wants, Keeps
<1> QED BY <1>3, <1>5, <1>6, <1>8 DEF IInv

\* IntLock::lock stores the interrupt flag it read before it masks.
LEMMA IntSaveInv == ASSUME IInv, NEW c \in CPUs, IntSave(c) PROVE IInv'
<1>1. /\ Runs(c) /\ pc[c] = "save" /\ TypeOK /\ Bookkeeping(c) /\ MutualExclusion
      /\ Wants(c) \in IntLocks
  BY DEF IntSave, IInv, Bookkeeping
<1>2. \A d \in CPUs \ {c} : Untouched(d)
  BY <1>1 DEF Untouched, IntSave, TypeOK, Goto
<1>3. /\ saved_if' \in [IntLocks -> BOOLEAN] /\ saved_if'[Wants(c)] = flags_if[c]
      /\ \A l \in IntLocks \ {Wants(c)} : saved_if'[l] = saved_if[l]
  BY <1>1 DEF IntSave, TypeOK
<1>4. ThreadOwns(c, Wants(c))
  BY <1>1 DEF ThreadOwns
<1>5. /\ \A d \in CPUs \ {c} : Bookkeeping(d)'
      /\ \A v \in Agents : \A m : v[1] # c => (Owns(v, m)' <=> Owns(v, m))
  BY <1>2, <1>3, <1>4, Others
<1>6. /\ pc'[c] = "mask" /\ isr' = isr /\ \A m : ThreadOwns(c, m)' => ThreadOwns(c, m)
  BY <1>1 DEF IntSave, TypeOK, Goto, ThreadOwns, Keeps, Wants
<1>7. MutualExclusion'
  <2>1. \A v \in Agents, m \in Locks : Owns(v, m)' => Owns(v, m)
    BY <1>5, <1>6, ThreadStep
  <2> QED BY <1>1, <2>1, Keep DEF IntSave
<1>8. TypeOK'
  BY <1>1, <1>3 DEF IntSave, TypeOK, Goto, Entering, Leaving
<1>9. Bookkeeping(c)'
  BY SMTT(60), <1>1, <1>3, <1>6 DEF IntSave, Bookkeeping, ThreadIf, Runs, Wants, Keeps
<1> QED BY <1>5, <1>7, <1>8, <1>9 DEF IInv

\* uACPI's lock_spinlock and critical_section read the interrupt flag before anything else.
LEMMA ReadFlagsInv == ASSUME IInv, NEW c \in CPUs, ReadFlags(c) PROVE IInv'
<1>1. /\ Runs(c) /\ pc[c] = "try" /\ TypeOK /\ Bookkeeping(c) /\ MutualExclusion
      /\ Wants(c) \in {Acpi, Critical}
  BY DEF ReadFlags, IInv
<1>2. \A d \in CPUs \ {c} : Untouched(d)
  BY <1>1 DEF Untouched, ReadFlags, TypeOK, Goto
<1>3. /\ \A d \in CPUs \ {c} : Bookkeeping(d)'
      /\ \A v \in Agents : \A m : v[1] # c => (Owns(v, m)' <=> Owns(v, m))
  BY <1>2, Others DEF ReadFlags
<1>4. /\ pc'[c] = "cli" /\ isr' = isr /\ flags'[c] = flags_if[c] /\ flags' \in [CPUs -> BOOLEAN]
      /\ \A m : ThreadOwns(c, m)' => ThreadOwns(c, m)
  BY <1>1 DEF ReadFlags, TypeOK, Goto, ThreadOwns, Keeps
<1>5. MutualExclusion'
  <2>1. \A v \in Agents, m \in Locks : Owns(v, m)' => Owns(v, m)
    BY <1>3, <1>4, ThreadStep
  <2> QED BY <1>1, <2>1, Keep DEF ReadFlags
<1>6. TypeOK'
  BY <1>1, <1>4 DEF ReadFlags, TypeOK, Goto, Entering, Leaving
<1>7. Bookkeeping(c)'
  BY <1>1, <1>4 DEF ReadFlags, Bookkeeping, ThreadIf, Runs, Wants, Keeps
<1> QED BY <1>3, <1>5, <1>6, <1>7 DEF IInv

\* uacpi_kernel_lock_spinlock masks before it takes the lock.
LEMMA AcpiMaskInv == ASSUME IInv, NEW c \in CPUs, AcpiMask(c) PROVE IInv'
<1>1. /\ Runs(c) /\ pc[c] = "cli" /\ TypeOK /\ Bookkeeping(c) /\ MutualExclusion /\ Wants(c) = Acpi
  BY DEF AcpiMask, IInv
<1>2. \A d \in CPUs \ {c} : Untouched(d)
  BY <1>1 DEF Untouched, AcpiMask, TypeOK, Goto
<1>3. /\ \A d \in CPUs \ {c} : Bookkeeping(d)'
      /\ \A v \in Agents : \A m : v[1] # c => (Owns(v, m)' <=> Owns(v, m))
  BY <1>2, Others DEF AcpiMask
<1>4. /\ pc'[c] = "cas" /\ isr' = isr /\ flags_if'[c] = FALSE /\ flags_if' \in [CPUs -> BOOLEAN]
      /\ \A m : ThreadOwns(c, m)' => ThreadOwns(c, m)
  BY <1>1 DEF AcpiMask, TypeOK, Goto, ThreadOwns, Keeps
<1>5. MutualExclusion'
  <2>1. \A v \in Agents, m \in Locks : Owns(v, m)' => Owns(v, m)
    BY <1>3, <1>4, ThreadStep
  <2> QED BY <1>1, <2>1, Keep DEF AcpiMask
<1>6. TypeOK'
  BY <1>1, <1>4 DEF AcpiMask, TypeOK, Goto, Entering, Leaving
<1>7. Bookkeeping(c)'
  BY <1>1, <1>4 DEF AcpiMask, Bookkeeping, ThreadIf, Runs, Wants, Keeps
<1> QED BY <1>3, <1>5, <1>6, <1>7 DEF IInv

\* Entering a section whose lock is not held yet, with the flag the outermost
\* section found, keeps the books.
LEMMA EnterBooks ==
  ASSUME IInv, NEW c \in CPUs, NEW fl \in BOOLEAN, Runs(c), pc[c] \in Entering, Entered(c, fl),
         UNCHANGED <<isr, enabled, saved_if, restore>>,
         flags_if' \in [CPUs -> BOOLEAN], ~flags_if'[c],
         \A d \in CPUs \ {c} : flags_if'[d] = flags_if[d],
         Wants(c) # Critical => \A i \in DOMAIN held[c] : held[c][i].lock # Wants(c),
         Wants(c) \in IntLocks => (saved_if[Wants(c)] <=> held[c] = <<>> /\ enabled[c]),
         Wants(c) \in {Acpi, Critical} => (fl <=> held[c] = <<>> /\ enabled[c])
  PROVE  /\ \A d \in CPUs : Bookkeeping(d)'
         /\ \A v \in Agents, m \in Locks :
              Owns(v, m)' => Owns(v, m) \/ (v = <<c, "thread">> /\ m = Wants(c))
         /\ locked' \in [Locks -> BOOLEAN] /\ irqs' = irqs => TypeOK'
<1> DEFINE n == Len(held[c])
<1>1. TypeOK /\ Bookkeeping(c) /\ held[c] \in Held
  BY DEF IInv, TypeOK, Held
<1>2. /\ held' \in [CPUs -> Held] /\ plan' \in [CPUs -> Seq(Sections)]
      /\ flags' \in [CPUs -> BOOLEAN] /\ pc' \in [CPUs -> PcSet]
      /\ \A d \in CPUs \ {c} : /\ held'[d] = held[d] /\ plan'[d] = plan[d]
                               /\ pc'[d] = pc[d] /\ flags'[d] = flags[d]
      /\ n \in Nat /\ Len(held'[c]) = n + 1 /\ held'[c] # <<>>
      /\ held'[c][n + 1] = [lock |-> Wants(c), flags |-> fl]
      /\ \A i \in 1..n : held'[c][i] = held[c][i]
      /\ pc'[c] \in {"inside", "try"} /\ (plan'[c] # <<>> <=> pc'[c] = "try")
      /\ \A i \in DOMAIN plan'[c] : \E j \in DOMAIN plan[c] : plan'[c][i] = plan[c][j]
      /\ \E j \in DOMAIN plan[c] : Wants(c) = plan[c][j]
      /\ Wants(c) \in Sections
  BY <1>1, EnteredFacts
<1>3. DOMAIN held'[c] = 1..n + 1 /\ DOMAIN held[c] = 1..n /\ (held[c] = <<>> <=> n = 0)
  BY SMTT(60), <1>1, <1>2 DEF Held
<1> HIDE DEF n
<1>4. /\ \A d \in CPUs \ {c} : Bookkeeping(d)'
      /\ \A v \in Agents : \A m : v[1] # c => (Owns(v, m)' <=> Owns(v, m))
  <2>1. /\ \A d \in CPUs \ {c} : Untouched(d)
        /\ \A l \in IntLocks : saved_if'[l] = saved_if[l] \/ ThreadOwns(c, l)
    BY <1>2 DEF Untouched
  <2> QED BY <2>1, Others
<1>5. \A m : ThreadOwns(c, m)' => ThreadOwns(c, m) \/ m = Wants(c)
  <2> SUFFICES ASSUME NEW m, ThreadOwns(c, m)' PROVE ThreadOwns(c, m) \/ m = Wants(c)
    OBVIOUS
  <2>1. PICK i \in 1..n + 1 : held'[c][i].lock = m
    BY <1>2, <1>3 DEF ThreadOwns
  <2>2. CASE i = n + 1
    BY SMTT(60), <1>2, <2>1, <2>2
  <2>3. CASE i \in 1..n
    BY <1>2, <1>3, <2>1, <2>3 DEF ThreadOwns, Keeps, Entering
  <2> QED BY SMTT(60), <1>2, <2>2, <2>3
<1>6. \A v \in Agents, m \in Locks :
        Owns(v, m)' => Owns(v, m) \/ (v = <<c, "thread">> /\ m = Wants(c))
  BY <1>4, <1>5, ThreadStep
<1>7. locked' \in [Locks -> BOOLEAN] /\ irqs' = irqs => TypeOK'
  <2>1. ASSUME NEW d \in CPUs
        PROVE  /\ (plan'[d] # <<>>) <=> (pc'[d] \in Entering)
               /\ pc'[d] = "idle" => held'[d] = <<>>
               /\ pc'[d] \in Leaving => held'[d] # <<>>
    <3>1. CASE d = c
      BY <1>2, <3>1 DEF Entering
    <3>2. CASE d # c
      BY SMTT(60), <1>1, <1>2, <3>2 DEF TypeOK
    <3> QED BY <3>1, <3>2
  <2> QED BY <1>1, <1>2, <2>1 DEF TypeOK, Held, PcSet
<1>8. Bookkeeping(c)'
  <2>1. /\ \A i \in 1..n : held'[c][i] = held[c][i]
        /\ held'[c][n + 1].lock = Wants(c) /\ held'[c][n + 1].flags = fl /\ n \in Nat
    <3>1. held'[c][n + 1] = [lock |-> Wants(c), flags |-> fl]
      BY <1>2
    <3>2. held'[c][n + 1].lock = Wants(c) /\ held'[c][n + 1].flags = fl
      BY SMTT(60), <3>1
    <3>3. n \in Nat /\ \A i \in 1..n : held'[c][i] = held[c][i]
      BY <1>2
    <3> QED BY <3>2, <3>3
  <2>2. \A i, j \in 1..n + 1 :
          held'[c][i].lock = held'[c][j].lock /\ held'[c][i].lock # Critical => i = j
    <3>1. /\ \A i, j \in 1..n :
               held[c][i].lock = held[c][j].lock /\ held[c][i].lock # Critical => i = j
          /\ Wants(c) # Critical => \A i \in 1..n : held[c][i].lock # Wants(c)
      BY <1>1, <1>3 DEF Bookkeeping
    <3> QED BY SMTT(60), <2>1, <3>1
  <2>3. enabled[c] => /\ \A i \in DOMAIN plan[c] : plan[c][i] # Slot
                      /\ \A i \in 1..n : held[c][i].lock # Slot
    BY <1>1, <1>3 DEF Bookkeeping
  <2>4. enabled'[c] => /\ \A i \in DOMAIN plan'[c] : plan'[c][i] # Slot
                       /\ \A i \in 1..n + 1 : held'[c][i].lock # Slot
    <3>1. enabled[c] => (\A i \in DOMAIN plan'[c] : plan'[c][i] # Slot) /\ Wants(c) # Slot
      <4>1. /\ \A i \in DOMAIN plan'[c] : \E j \in DOMAIN plan[c] : plan'[c][i] = plan[c][j]
            /\ \E j \in DOMAIN plan[c] : Wants(c) = plan[c][j]
        BY <1>2
      <4> HIDE DEF Wants
      <4> QED BY SMTT(60), <2>3, <4>1
    <3>2. enabled'[c] = enabled[c]
      OBVIOUS
    <3> QED BY SMTT(60), <2>1, <2>3, <3>1, <3>2
  <2>5. \A i \in 1..n :
          /\ held[c][i].lock \in IntLocks => (saved_if[held[c][i].lock] <=> i = 1 /\ enabled[c])
          /\ held[c][i].lock \in {Acpi, Critical} => (held[c][i].flags <=> i = 1 /\ enabled[c])
    <3>1. \A i \in DOMAIN held[c] : Keeps(c, i)
      BY DEF Keeps, Entering
    <3> QED BY <1>1, <1>3, <3>1 DEF Bookkeeping
  <2>6. ASSUME NEW i \in 1..n + 1
        PROVE  /\ held'[c][i].lock \in IntLocks => (saved_if'[held'[c][i].lock] <=> i = 1 /\ enabled'[c])
               /\ held'[c][i].lock \in {Acpi, Critical} => (held'[c][i].flags <=> i = 1 /\ enabled'[c])
    <3>1. CASE i = n + 1
      BY SMTT(60), <1>3, <2>1, <3>1
    <3>2. CASE i \in 1..n
      BY <2>1, <2>5, <3>2
    <3> QED BY SMTT(60), <2>1, <3>1, <3>2
  <2> QED BY <1>1, <1>2, <1>3, <2>2, <2>4, <2>6 DEF Bookkeeping, ThreadIf, Runs
<1> QED BY <1>4, <1>6, <1>7, <1>8

\* IntLock::lock masks once it has the lock and has saved the flag.
LEMMA IntMaskInv == ASSUME IInv, NEW c \in CPUs, IntMask(c) PROVE IInv'
<1>1. /\ Runs(c) /\ pc[c] = "mask" /\ pc[c] \in Entering /\ Entered(c, FALSE)
      /\ TypeOK /\ Bookkeeping(c) /\ MutualExclusion
      /\ UNCHANGED <<isr, enabled, saved_if, restore>>
  BY DEF IntMask, IInv, Entering
<1>2. /\ flags_if' \in [CPUs -> BOOLEAN] /\ ~flags_if'[c]
      /\ \A d \in CPUs \ {c} : flags_if'[d] = flags_if[d]
  BY <1>1 DEF IntMask, TypeOK
<1>3. /\ \A i \in DOMAIN held[c] : held[c][i].lock # Wants(c)
      /\ Wants(c) \in IntLocks /\ (saved_if[Wants(c)] <=> held[c] = <<>> /\ enabled[c])
      /\ Wants(c) \notin {Acpi, Critical}
  BY <1>1, LocksAssumption DEF Bookkeeping, Locks
<1>4. /\ \A d \in CPUs : Bookkeeping(d)'
      /\ \A v \in Agents, m \in Locks :
           Owns(v, m)' => Owns(v, m) \/ (v = <<c, "thread">> /\ m = Wants(c))
      /\ locked' \in [Locks -> BOOLEAN] /\ irqs' = irqs => TypeOK'
  BY <1>1, <1>2, <1>3, EnterBooks
<1>5. Owns(<<c, "thread">>, Wants(c))
  BY <1>1 DEF Owns, ThreadOwns
<1>6. MutualExclusion' /\ TypeOK'
  BY <1>1, <1>4, <1>5, Keep DEF IntMask, TypeOK
<1> QED BY <1>4, <1>6 DEF IInv

\* critical_section masks, with the flag it read before.
LEMMA CriticalMaskInv == ASSUME IInv, NEW c \in CPUs, CriticalMask(c) PROVE IInv'
<1>1. /\ Runs(c) /\ pc[c] = "cli" /\ pc[c] \in Entering /\ Entered(c, flags[c])
      /\ TypeOK /\ Bookkeeping(c) /\ MutualExclusion /\ Wants(c) = Critical
      /\ UNCHANGED <<isr, enabled, saved_if, restore>>
  BY DEF CriticalMask, IInv, Entering
<1>2. /\ flags_if' \in [CPUs -> BOOLEAN] /\ ~flags_if'[c] /\ flags[c] \in BOOLEAN
      /\ \A d \in CPUs \ {c} : flags_if'[d] = flags_if[d]
  BY <1>1 DEF CriticalMask, TypeOK
<1>3. Wants(c) \notin Locks /\ Wants(c) \notin IntLocks /\ (flags[c] <=> held[c] = <<>> /\ enabled[c])
  BY <1>1, LocksAssumption DEF Bookkeeping, Locks
<1>4. /\ \A d \in CPUs : Bookkeeping(d)'
      /\ \A v \in Agents, m \in Locks :
           Owns(v, m)' => Owns(v, m) \/ (v = <<c, "thread">> /\ m = Wants(c))
      /\ locked' \in [Locks -> BOOLEAN] /\ irqs' = irqs => TypeOK'
  BY <1>1, <1>2, <1>3, EnterBooks
<1>5. MutualExclusion' /\ TypeOK'
  BY <1>1, <1>3, <1>4, Keep DEF CriticalMask, TypeOK
<1> QED BY <1>4, <1>5 DEF IInv

\* The spin of uACPI's lock succeeds: the masked thread becomes its owner.
LEMMA AcpiCasInv == ASSUME IInv, NEW c \in CPUs, AcpiCas(c) PROVE IInv'
<1>1. /\ Runs(c) /\ pc[c] = "cas" /\ pc[c] \in Entering /\ Entered(c, flags[c])
      /\ TypeOK /\ Bookkeeping(c) /\ MutualExclusion /\ CompareExchange(Acpi) /\ ~locked[Acpi]
      /\ UNCHANGED <<isr, enabled, saved_if, restore, flags_if, irqs>>
  BY DEF AcpiCas, IInv, Entering, CompareExchange
<1>2. Wants(c) = Acpi /\ Acpi \in Locks /\ Acpi \notin IntLocks /\ <<c, "thread">> \in Agents
  BY <1>1, LocksAssumption DEF Bookkeeping, Locks, Agents
<1>3. \A i \in DOMAIN held[c] : held[c][i].lock # Acpi
  <2>1. SUFFICES ASSUME NEW i \in DOMAIN held[c], held[c][i].lock = Acpi PROVE FALSE
    OBVIOUS
  <2>2. Owns(<<c, "thread">>, Acpi)
    BY <1>1, <2>1 DEF Owns, ThreadOwns, Keeps
  <2> QED BY <1>1, <1>2, <2>2 DEF MutualExclusion
<1>4. /\ flags_if' \in [CPUs -> BOOLEAN] /\ ~flags_if'[c] /\ flags[c] \in BOOLEAN
      /\ (flags[c] <=> held[c] = <<>> /\ enabled[c])
  BY <1>1 DEF TypeOK, Bookkeeping, ThreadIf
<1>5. /\ \A d \in CPUs : Bookkeeping(d)'
      /\ \A v \in Agents, m \in Locks :
           Owns(v, m)' => Owns(v, m) \/ (v = <<c, "thread">> /\ m = Wants(c))
      /\ locked' \in [Locks -> BOOLEAN] /\ irqs' = irqs => TypeOK'
  BY <1>1, <1>2, <1>3, <1>4, EnterBooks
<1>6. MutualExclusion' /\ TypeOK'
  BY <1>1, <1>2, <1>5, Take
<1> QED BY <1>5, <1>6 DEF IInv

\* The lock of a handler's slot is taken, by the thread or by the interrupt handler.
LEMMA SlotCasInv == ASSUME IInv, NEW c \in CPUs, SlotCas(c) PROVE IInv'
<1>1. /\ Runs(c) /\ pc[c] = "try" /\ pc[c] \in Entering /\ Entered(c, FALSE) /\ Wants(c) = Slot
      /\ TypeOK /\ Bookkeeping(c) /\ MutualExclusion /\ CompareExchange(Slot) /\ ~locked[Slot]
      /\ UNCHANGED <<isr, enabled, saved_if, restore, flags_if, irqs>>
  BY DEF SlotCas, IInv, Entering, CompareExchange
<1>2. /\ Slot \in Locks /\ Slot \notin IntLocks /\ Slot \notin {Acpi, Critical}
      /\ <<c, "thread">> \in Agents
  BY LocksAssumption DEF Locks, Agents
<1>3. \A i \in DOMAIN held[c] : held[c][i].lock # Slot
  <2>1. SUFFICES ASSUME NEW i \in DOMAIN held[c], held[c][i].lock = Slot PROVE FALSE
    OBVIOUS
  <2>2. Owns(<<c, "thread">>, Slot)
    BY <1>1, <2>1 DEF Owns, ThreadOwns, Keeps
  <2> QED BY <1>1, <1>2, <2>2 DEF MutualExclusion
<1>4. ~enabled[c]
  <2>1. plan[c] \in Seq(Sections) /\ plan[c] # <<>>
    BY <1>1 DEF TypeOK
  <2>2. 1 \in DOMAIN plan[c] /\ plan[c][1] = Slot
    BY SMTT(60), <1>1, <2>1 DEF Wants
  <2> QED BY <1>1, <2>2 DEF Bookkeeping
<1>5. flags_if' \in [CPUs -> BOOLEAN] /\ ~flags_if'[c]
  BY <1>1, <1>4 DEF TypeOK, Bookkeeping, ThreadIf
<1>6. /\ \A d \in CPUs : Bookkeeping(d)'
      /\ \A v \in Agents, m \in Locks :
           Owns(v, m)' => Owns(v, m) \/ (v = <<c, "thread">> /\ m = Wants(c))
      /\ locked' \in [Locks -> BOOLEAN] /\ irqs' = irqs => TypeOK'
  BY <1>1, <1>2, <1>3, <1>5, EnterBooks
<1>7. MutualExclusion' /\ TypeOK'
  BY <1>1, <1>2, <1>6, Take
<1> QED BY <1>6, <1>7 DEF IInv

\* IntLock::unlock reads the flag to restore, ...
LEMMA IntReadInv == ASSUME IInv, NEW c \in CPUs, IntRead(c) PROVE IInv'
<1>1. /\ Runs(c) /\ pc[c] = "inside" /\ TypeOK /\ Bookkeeping(c) /\ MutualExclusion
      /\ Innermost(c).lock \in IntLocks
  BY DEF IntRead, IInv
<1>2. held[c] \in Held /\ held[c] # <<>>
  BY <1>1 DEF TypeOK, Held, Leaving
<1>3. Len(held[c]) \in DOMAIN held[c] /\ Len(held[c]) \in Nat /\ Keeps(c, Len(held[c]))
  BY SMTT(60), <1>1, <1>2 DEF Held, Keeps
<1>4. saved_if[Innermost(c).lock] <=> Len(held[c]) = 1 /\ enabled[c]
  BY <1>1, <1>3 DEF Bookkeeping, Innermost
<1>5. \A d \in CPUs \ {c} : Untouched(d)
  BY <1>1 DEF Untouched, IntRead, TypeOK, Goto
<1>6. /\ \A d \in CPUs \ {c} : Bookkeeping(d)'
      /\ \A v \in Agents : \A m : v[1] # c => (Owns(v, m)' <=> Owns(v, m))
  BY <1>5, Others DEF IntRead
<1>7. /\ pc'[c] = "release" /\ isr' = isr /\ restore' \in [CPUs -> BOOLEAN]
      /\ restore'[c] = saved_if[Innermost(c).lock]
      /\ \A m : ThreadOwns(c, m)' => ThreadOwns(c, m)
  BY <1>1 DEF IntRead, TypeOK, Goto, ThreadOwns, Keeps
<1>8. MutualExclusion'
  <2>1. \A v \in Agents, m \in Locks : Owns(v, m)' => Owns(v, m)
    BY <1>6, <1>7, ThreadStep
  <2> QED BY <1>1, <2>1, Keep DEF IntRead
<1>9. TypeOK'
  BY <1>1, <1>7 DEF IntRead, TypeOK, Goto, Entering, Leaving
<1>10. Bookkeeping(c)'
  BY <1>1, <1>4, <1>7 DEF IntRead, Bookkeeping, ThreadIf, Runs, Innermost, Keeps
<1> QED BY <1>6, <1>8, <1>9, <1>10 DEF IInv

\* A release of the innermost lock, before the section is left.
LEMMA ReleaseOwns ==
  ASSUME IInv, NEW c \in CPUs, NEW l \in Locks, pc[c] \in {"inside", "release"},
         Innermost(c).lock = l, locked' = [locked EXCEPT ![l] = FALSE],
         pc'[c] \in {"unmask", "sti"}, held' = held, isr' = isr,
         \A v \in Agents : \A m : v[1] # c => (Owns(v, m)' <=> Owns(v, m))
  PROVE  MutualExclusion' /\ locked' \in [Locks -> BOOLEAN]
<1>1. TypeOK /\ MutualExclusion /\ Bookkeeping(c) /\ held[c] \in Held /\ held[c] # <<>>
  BY DEF IInv, TypeOK, Held, Leaving
<1>2. Len(held[c]) \in DOMAIN held[c] /\ Keeps(c, Len(held[c])) /\ <<c, "thread">> \in Agents
  BY SMTT(60), <1>1 DEF Held, Keeps, Agents
<1>3. Owns(<<c, "thread">>, l)
  BY <1>2 DEF Owns, ThreadOwns, Innermost
<1>4. l # Critical
  BY LocksAssumption
<1>5. \A m : ThreadOwns(c, m)' => ThreadOwns(c, m) /\ m # l
  <2>1. SUFFICES ASSUME NEW m, ThreadOwns(c, m)' PROVE ThreadOwns(c, m) /\ m # l
    OBVIOUS
  <2>2. PICK i \in DOMAIN held[c] : held[c][i].lock = m /\ i # Len(held[c])
    BY <2>1 DEF ThreadOwns, Keeps
  <2>3. ThreadOwns(c, m)
    BY <2>2 DEF ThreadOwns, Keeps
  <2>4. m # l
    BY <1>1, <1>2, <1>4, <2>2 DEF Bookkeeping, Innermost
  <2> QED BY <2>3, <2>4
<1>6. \A v \in Agents, m \in Locks : Owns(v, m)' => Owns(v, m) /\ ~(v = <<c, "thread">> /\ m = l)
  BY SMTT(60), <1>5, ThreadStep
<1>7. PICK w \in Agents :
        /\ Owns(w, l)
        /\ \A v \in Agents, m \in Locks : Owns(v, m)' => Owns(v, m) /\ ~(v = w /\ m = l)
  BY <1>2, <1>3, <1>6
<1> QED BY <1>1, <1>7, Give

\* The guard of an IntLock stores the lock's flag on drop: the owner is gone before it unmasks.
LEMMA IntReleaseInv == ASSUME IInv, NEW c \in CPUs, IntRelease(c) PROVE IInv'
<1>1. /\ Runs(c) /\ pc[c] = "release" /\ TypeOK /\ Bookkeeping(c) /\ Innermost(c).lock \in Locks
  BY DEF IntRelease, IInv, Bookkeeping, Locks
<1>2. \A d \in CPUs \ {c} : Untouched(d)
  BY <1>1 DEF Untouched, IntRelease, TypeOK, Goto
<1>3. /\ \A d \in CPUs \ {c} : Bookkeeping(d)'
      /\ \A v \in Agents : \A m : v[1] # c => (Owns(v, m)' <=> Owns(v, m))
  BY <1>2, Others DEF IntRelease
<1>4. pc'[c] = "unmask" /\ isr' = isr /\ held' = held
  BY <1>1 DEF IntRelease, TypeOK, Goto
<1>5. MutualExclusion' /\ locked' \in [Locks -> BOOLEAN]
  BY <1>1, <1>3, <1>4, ReleaseOwns DEF IntRelease
<1>6. TypeOK'
  BY <1>1, <1>5 DEF IntRelease, TypeOK, Goto, Entering, Leaving
<1>7. Bookkeeping(c)'
  BY <1>1, <1>4 DEF IntRelease, Bookkeeping, ThreadIf, Runs, Innermost, Keeps
<1> QED BY <1>3, <1>5, <1>6, <1>7 DEF IInv

\* uacpi_kernel_unlock_spinlock unlocks first and restores the flag afterwards.
LEMMA AcpiReleaseInv == ASSUME IInv, NEW c \in CPUs, AcpiRelease(c) PROVE IInv'
<1>1. /\ Runs(c) /\ pc[c] = "inside" /\ TypeOK /\ Bookkeeping(c)
      /\ Innermost(c).lock = Acpi /\ Acpi \in Locks
  BY DEF AcpiRelease, IInv, Locks
<1>2. \A d \in CPUs \ {c} : Untouched(d)
  BY <1>1 DEF Untouched, AcpiRelease, TypeOK, Goto
<1>3. /\ \A d \in CPUs \ {c} : Bookkeeping(d)'
      /\ \A v \in Agents : \A m : v[1] # c => (Owns(v, m)' <=> Owns(v, m))
  BY <1>2, Others DEF AcpiRelease
<1>4. pc'[c] = "sti" /\ isr' = isr /\ held' = held
  BY <1>1 DEF AcpiRelease, TypeOK, Goto
<1>5. MutualExclusion' /\ locked' \in [Locks -> BOOLEAN]
  BY <1>1, <1>3, <1>4, ReleaseOwns DEF AcpiRelease
<1>6. TypeOK'
  BY <1>1, <1>5 DEF AcpiRelease, TypeOK, Goto, Entering, Leaving
<1>7. Bookkeeping(c)'
  BY <1>1, <1>4 DEF AcpiRelease, Bookkeeping, ThreadIf, Runs, Innermost, Keeps
<1> QED BY <1>3, <1>5, <1>6, <1>7 DEF IInv

\* Leaving a section with the flag the outermost one found keeps the books.
LEMMA LeaveBooks ==
  ASSUME IInv, NEW c \in CPUs, Runs(c), pc[c] \in Leaving, Left(c),
         UNCHANGED <<isr, enabled, saved_if, plan, flags>>,
         restore' \in [CPUs -> BOOLEAN], flags_if' \in [CPUs -> BOOLEAN],
         \A d \in CPUs \ {c} : restore'[d] = restore[d] /\ flags_if'[d] = flags_if[d],
         flags_if'[c] <=> Len(held[c]) = 1 /\ enabled[c]
  PROVE  /\ \A d \in CPUs : Bookkeeping(d)'
         /\ \A v \in Agents, m \in Locks :
              Owns(v, m)' => Owns(v, m) /\ ~(v = <<c, "thread">> /\ m = Innermost(c).lock)
         /\ locked' \in [Locks -> BOOLEAN] /\ irqs' = irqs => TypeOK'
<1> DEFINE n == Len(held[c])
<1>1. TypeOK /\ Bookkeeping(c) /\ held[c] \in Held
  BY DEF IInv, TypeOK, Held
<1>2. /\ held' \in [CPUs -> Held] /\ pc' \in [CPUs -> PcSet]
      /\ \A d \in CPUs \ {c} : held'[d] = held[d] /\ pc'[d] = pc[d]
      /\ n \in Nat \ {0} /\ Len(held'[c]) = n - 1
      /\ \A i \in 1..Len(held'[c]) : held'[c][i] = held[c][i]
      /\ pc'[c] = (IF n = 1 THEN "idle" ELSE "inside")
      /\ (held'[c] = <<>> <=> n = 1)
  BY <1>1, LeftFacts
<1>3. /\ DOMAIN held'[c] = 1..n - 1 /\ DOMAIN held[c] = 1..n
      /\ \A i \in 1..n - 1 : held'[c][i] = held[c][i] /\ Keeps(c, i)
  <2>1. DOMAIN held'[c] = 1..n - 1 /\ DOMAIN held[c] = 1..n
    BY SMTT(60), <1>1, <1>2 DEF Held
  <2>2. \A i \in 1..n - 1 : held'[c][i] = held[c][i]
    BY <1>2
  <2> QED BY SMTT(60), <1>2, <2>1, <2>2 DEF Keeps
<1>4. Innermost(c) = held[c][n]
  BY DEF Innermost
<1> HIDE DEF n
<1>5. /\ \A d \in CPUs \ {c} : Bookkeeping(d)'
      /\ \A v \in Agents : \A m : v[1] # c => (Owns(v, m)' <=> Owns(v, m))
  <2>1. \A d \in CPUs \ {c} : Untouched(d)
    BY <1>2 DEF Untouched
  <2>2. \A l \in IntLocks : saved_if'[l] = saved_if[l] \/ ThreadOwns(c, l)
    OBVIOUS
  <2> QED BY <2>1, <2>2, Others
<1>6. /\ \A i, j \in 1..n :
           held[c][i].lock = held[c][j].lock /\ held[c][i].lock # Critical => i = j
      /\ enabled[c] => /\ \A i \in DOMAIN plan[c] : plan[c][i] # Slot
                       /\ \A i \in 1..n : held[c][i].lock # Slot
      /\ \A i \in 1..n - 1 :
           /\ held[c][i].lock \in IntLocks => (saved_if[held[c][i].lock] <=> i = 1 /\ enabled[c])
           /\ held[c][i].lock \in {Acpi, Critical} => (held[c][i].flags <=> i = 1 /\ enabled[c])
  <2>1. \A i, j \in 1..n :
          held[c][i].lock = held[c][j].lock /\ held[c][i].lock # Critical => i = j
    BY <1>1, <1>3 DEF Bookkeeping
  <2>2. enabled[c] => /\ \A i \in DOMAIN plan[c] : plan[c][i] # Slot
                      /\ \A i \in 1..n : held[c][i].lock # Slot
    BY <1>1, <1>3 DEF Bookkeeping
  <2>3. \A i \in 1..n - 1 :
          /\ held[c][i].lock \in IntLocks => (saved_if[held[c][i].lock] <=> i = 1 /\ enabled[c])
          /\ held[c][i].lock \in {Acpi, Critical} => (held[c][i].flags <=> i = 1 /\ enabled[c])
    <3>1. \A i \in 1..n - 1 : i \in DOMAIN held[c]
      BY <1>2, <1>3, Inner
    <3> QED BY <1>1, <1>3, <3>1 DEF Bookkeeping
  <2> QED BY <2>1, <2>2, <2>3
<1>7. \A m \in Locks : ThreadOwns(c, m)' => ThreadOwns(c, m) /\ m # Innermost(c).lock
  <2> SUFFICES ASSUME NEW m \in Locks, ThreadOwns(c, m)'
               PROVE  ThreadOwns(c, m) /\ m # Innermost(c).lock
    OBVIOUS
  <2>1. PICK i \in 1..n - 1 : held'[c][i].lock = m
    BY <1>2, <1>3 DEF ThreadOwns
  <2>2. held[c][i].lock = m /\ Keeps(c, i) /\ i \in DOMAIN held[c]
    BY SMTT(60), <1>2, <1>3, <2>1
  <2>3. m # Critical
    BY LocksAssumption
  <2> QED BY SMTT(60), <1>2, <1>4, <1>6, <2>1, <2>2, <2>3 DEF ThreadOwns
<1>8. \A v \in Agents, m \in Locks :
        Owns(v, m)' => Owns(v, m) /\ ~(v = <<c, "thread">> /\ m = Innermost(c).lock)
  BY <1>5, <1>7, ThreadStep
<1>9. locked' \in [Locks -> BOOLEAN] /\ irqs' = irqs => TypeOK'
  <2>1. ASSUME NEW d \in CPUs
        PROVE  /\ (plan'[d] # <<>>) <=> (pc'[d] \in Entering)
               /\ pc'[d] = "idle" => held'[d] = <<>>
               /\ pc'[d] \in Leaving => held'[d] # <<>>
    <3>1. CASE d = c
      BY <1>1, <1>2, <3>1 DEF Entering, Leaving, TypeOK
    <3>2. CASE d # c
      BY SMTT(60), <1>1, <1>2, <3>2 DEF TypeOK
    <3> QED BY <3>1, <3>2
  <2> QED BY <1>1, <1>2, <2>1 DEF TypeOK, Held, PcSet
<1>10. Bookkeeping(c)'
  <2>0. \A i \in 1..n - 1 : i \in 1..n
    BY <1>2, Inner
  <2>1. \A i, j \in 1..n - 1 :
          held'[c][i].lock = held'[c][j].lock /\ held'[c][i].lock # Critical => i = j
    <3>1. SUFFICES ASSUME NEW i \in 1..n - 1, NEW j \in 1..n - 1,
                          held'[c][i].lock = held'[c][j].lock, held'[c][i].lock # Critical
                   PROVE  i = j
      OBVIOUS
    <3>2. held[c][i].lock = held[c][j].lock /\ held[c][i].lock # Critical /\ i \in 1..n /\ j \in 1..n
      BY <1>3, <2>0, <3>1
    <3> QED BY <1>6, <3>2
  <2>2. enabled'[c] => /\ \A i \in DOMAIN plan'[c] : plan'[c][i] # Slot
                       /\ \A i \in 1..n - 1 : held'[c][i].lock # Slot
    BY <1>2, <2>0, <1>3, <1>6
  <2>3. \A i \in 1..n - 1 :
          /\ held'[c][i].lock \in IntLocks => (saved_if'[held'[c][i].lock] <=> i = 1 /\ enabled'[c])
          /\ held'[c][i].lock \in {Acpi, Critical} => (held'[c][i].flags <=> i = 1 /\ enabled'[c])
    BY <1>3, <1>6
  <2>4. flags_if'[c] <=> enabled'[c] /\ held'[c] = <<>>
    BY <1>2 DEF n
  <2> QED BY <1>1, <1>2, <1>3, <2>1, <2>2, <2>3, <2>4 DEF Bookkeeping, ThreadIf, Runs
<1> QED BY <1>5, <1>8, <1>9, <1>10

\* The guard of an IntLock unmasks if the saved flag says so.
LEMMA IntUnmaskInv == ASSUME IInv, NEW c \in CPUs, IntUnmask(c) PROVE IInv'
<1>1. /\ Runs(c) /\ pc[c] = "unmask" /\ pc[c] \in Leaving /\ Left(c)
      /\ TypeOK /\ Bookkeeping(c) /\ MutualExclusion /\ held[c] # <<>>
      /\ UNCHANGED <<isr, enabled, saved_if, plan, flags>>
  BY DEF IntUnmask, IInv, Leaving, TypeOK
<1>2. /\ flags_if' \in [CPUs -> BOOLEAN] /\ restore' \in [CPUs -> BOOLEAN]
      /\ \A d \in CPUs \ {c} : restore'[d] = restore[d] /\ flags_if'[d] = flags_if[d]
      /\ flags_if'[c] <=> flags_if[c] \/ restore[c]
  BY <1>1 DEF IntUnmask, TypeOK
<1>3. ~flags_if[c] /\ (restore[c] <=> Len(held[c]) = 1 /\ enabled[c])
  BY <1>1 DEF Bookkeeping, ThreadIf
<1>4. /\ \A d \in CPUs : Bookkeeping(d)'
      /\ \A v \in Agents, m \in Locks :
           Owns(v, m)' => Owns(v, m) /\ ~(v = <<c, "thread">> /\ m = Innermost(c).lock)
      /\ locked' \in [Locks -> BOOLEAN] /\ irqs' = irqs => TypeOK'
  BY <1>1, <1>2, <1>3, LeaveBooks
<1>5. MutualExclusion' /\ TypeOK'
  BY <1>1, <1>4, Keep DEF IntUnmask, TypeOK
<1> QED BY <1>4, <1>5 DEF IInv

\* The flag read before a section is restored at its end.
LEMMA RestoreFlagsInv == ASSUME IInv, NEW c \in CPUs, RestoreFlags(c) PROVE IInv'
<1>1. /\ Runs(c) /\ pc[c] \in Leaving /\ Left(c)
      /\ TypeOK /\ Bookkeeping(c) /\ MutualExclusion /\ held[c] # <<>>
      /\ UNCHANGED <<isr, enabled, saved_if, plan, flags, restore>>
      /\ Innermost(c).lock \in {Acpi, Critical}
  BY DEF RestoreFlags, IInv, Leaving, TypeOK, Bookkeeping
<1>2. held[c] \in Held
  BY <1>1 DEF TypeOK, Held
<1>3. Len(held[c]) \in DOMAIN held[c] /\ Innermost(c).flags \in BOOLEAN
  <2>1. Len(held[c]) \in DOMAIN held[c]
    BY SMTT(60), <1>1, <1>2 DEF Held
  <2>2. Innermost(c) \in [lock : Sections, flags : BOOLEAN]
    <3> DEFINE S == [lock : Sections, flags : BOOLEAN]
    <3>1. held[c] \in Seq(S)
      BY <1>2 DEF Held
    <3> HIDE DEF S
    <3>2. held[c][Len(held[c])] \in S
      BY SMTT(60), <2>1, <3>1
    <3> QED BY <3>2 DEF S, Innermost
  <2> QED BY <2>1, <2>2
<1>4. /\ flags_if' \in [CPUs -> BOOLEAN] /\ restore' \in [CPUs -> BOOLEAN]
      /\ \A d \in CPUs \ {c} : restore'[d] = restore[d] /\ flags_if'[d] = flags_if[d]
      /\ flags_if'[c] <=> flags_if[c] \/ Innermost(c).flags
  BY <1>1, <1>3 DEF RestoreFlags, TypeOK
<1>5. ~flags_if[c] /\ (Innermost(c).flags <=> Len(held[c]) = 1 /\ enabled[c])
  BY <1>1, <1>3 DEF Bookkeeping, ThreadIf, Innermost
<1>6. /\ \A d \in CPUs : Bookkeeping(d)'
      /\ \A v \in Agents, m \in Locks :
           Owns(v, m)' => Owns(v, m) /\ ~(v = <<c, "thread">> /\ m = Innermost(c).lock)
      /\ locked' \in [Locks -> BOOLEAN] /\ irqs' = irqs => TypeOK'
  BY <1>1, <1>4, <1>5, LeaveBooks
<1>7. MutualExclusion' /\ TypeOK'
  BY <1>1, <1>6, Keep DEF RestoreFlags, TypeOK
<1> QED BY <1>6, <1>7 DEF IInv

\* The lock of a handler's slot is dropped, by the thread or by the interrupt handler.
LEMMA SlotReleaseInv == ASSUME IInv, NEW c \in CPUs, SlotRelease(c) PROVE IInv'
<1>1. /\ Runs(c) /\ pc[c] = "inside" /\ pc[c] \in Leaving /\ Left(c)
      /\ TypeOK /\ Bookkeeping(c) /\ MutualExclusion /\ held[c] # <<>> /\ held[c] \in Held
      /\ UNCHANGED <<isr, enabled, saved_if, plan, flags, restore, flags_if, irqs>>
      /\ Innermost(c).lock = Slot /\ locked' = [locked EXCEPT ![Slot] = FALSE] /\ Slot \in Locks
  BY DEF SlotRelease, IInv, Leaving, TypeOK, Locks, Held
<1>2. Len(held[c]) \in DOMAIN held[c] /\ Keeps(c, Len(held[c])) /\ <<c, "thread">> \in Agents
  BY SMTT(60), <1>1 DEF Held, Keeps, Agents
<1>3. ~enabled[c] /\ ~flags_if[c]
  BY <1>1, <1>2 DEF Bookkeeping, Innermost, ThreadIf
<1>4. /\ \A d \in CPUs : Bookkeeping(d)'
      /\ \A v \in Agents, m \in Locks :
           Owns(v, m)' => Owns(v, m) /\ ~(v = <<c, "thread">> /\ m = Innermost(c).lock)
      /\ locked' \in [Locks -> BOOLEAN] /\ irqs' = irqs => TypeOK'
  <2>1. flags_if' \in [CPUs -> BOOLEAN] /\ restore' \in [CPUs -> BOOLEAN]
    BY <1>1 DEF TypeOK
  <2> QED BY <1>1, <1>3, <2>1, LeaveBooks
<1>5. Owns(<<c, "thread">>, Slot)
  BY <1>1, <1>2 DEF Owns, ThreadOwns, Innermost
<1>6. PICK w \in Agents :
        /\ Owns(w, Slot)
        /\ \A v \in Agents, m \in Locks : Owns(v, m)' => Owns(v, m) /\ ~(v = w /\ m = Slot)
  BY <1>1, <1>2, <1>4, <1>5
<1>7. MutualExclusion' /\ locked' \in [Locks -> BOOLEAN]
  <2>1. TypeOK /\ MutualExclusion /\ locked' = [locked EXCEPT ![Slot] = FALSE] /\ Slot \in Locks
    BY <1>1
  <2> QED BY <1>6, <2>1, Give
<1> QED BY <1>1, <1>4, <1>7 DEF IInv

\* kmain sets the interrupt flag, outside every section.
LEMMA EnableInv == ASSUME IInv, NEW c \in CPUs, Enable(c) PROVE IInv'
<1>1. /\ Runs(c) /\ pc[c] = "idle" /\ TypeOK /\ Bookkeeping(c) /\ MutualExclusion
      /\ held[c] = <<>> /\ plan[c] = <<>>
      /\ UNCHANGED <<locked, saved_if, thread, isr, irqs>>
  BY DEF Enable, IInv, TypeOK, Entering
<1>2. \A d \in CPUs \ {c} : Untouched(d)
  BY <1>1 DEF Untouched, Enable, TypeOK, thread
<1>3. /\ \A d \in CPUs \ {c} : Bookkeeping(d)'
      /\ \A v \in Agents : \A m : v[1] # c => (Owns(v, m)' <=> Owns(v, m))
  BY <1>1, <1>2, Others
<1>4. flags_if' \in [CPUs -> BOOLEAN] /\ enabled' \in [CPUs -> BOOLEAN] /\ flags_if'[c] /\ enabled'[c]
  BY <1>1 DEF Enable, TypeOK
<1>5. \A v \in Agents, m \in Locks : Owns(v, m)' => Owns(v, m)
  <2>1. \A m : ThreadOwns(c, m)' <=> ThreadOwns(c, m)
    BY <1>1 DEF thread, ThreadOwns, Keeps, Wants
  <2> QED BY <1>1, <1>3, <2>1, ThreadStep
<1>6. MutualExclusion'
  BY <1>1, <1>5, Keep
<1>7. TypeOK'
  BY <1>1, <1>4 DEF TypeOK, thread
<1>8. Bookkeeping(c)'
  <2>1. DOMAIN <<>> = {}
    BY SMTT(60)
  <2>2. /\ pc'[c] = "idle" /\ isr'[c] = "none" /\ held'[c] = <<>> /\ plan'[c] = <<>>
        /\ DOMAIN held'[c] = {} /\ DOMAIN plan'[c] = {}
    BY <1>1, <2>1 DEF Runs, thread
  <2> QED BY <1>4, <2>2 DEF Bookkeeping, ThreadIf, Runs
<1> QED BY <1>3, <1>6, <1>7, <1>8 DEF IInv

-----------------------------------------------------------------------------
(* The interrupt path: the thread is suspended with its books as they are. *)

\* A step of the interrupt path on one CPU leaves the thread's books, and the locks of every other agent, as they were.
LEMMA IsrBooks ==
  ASSUME IInv, NEW c \in CPUs, UNCHANGED <<saved_if, enabled, thread>>,
         isr' \in [CPUs -> {"none", "slot", "handler", "acpi", "return", "iretq"}],
         flags_if' \in [CPUs -> BOOLEAN],
         \A d \in CPUs \ {c} : isr'[d] = isr[d] /\ flags_if'[d] = flags_if[d],
         flags_if[c] \/ ~Runs(c), (flags_if'[c] <=> isr'[c] = "none")
  PROVE  /\ \A d \in CPUs : Bookkeeping(d)'
         /\ \A v \in Agents : \A m : v # <<c, "isr">> => (Owns(v, m)' <=> Owns(v, m))
         /\ \A m : Owns(<<c, "isr">>, m) <=> IsrOwns(c, m)
         /\ \A m : Owns(<<c, "isr">>, m)' <=> IsrOwns(c, m)'
         /\ <<c, "isr">> \in Agents
         /\ locked' \in [Locks -> BOOLEAN] /\ irqs' \in 0..MaxIrqs => TypeOK'
<1>1. TypeOK /\ Bookkeeping(c) /\ UNCHANGED <<pc, plan, held, flags, restore>>
  BY DEF IInv, thread
<1>2. /\ \A d \in CPUs \ {c} : Bookkeeping(d)'
      /\ \A v \in Agents : \A m : v[1] # c => (Owns(v, m)' <=> Owns(v, m))
  BY <1>1, Others DEF Untouched
<1>3. \A m : ThreadOwns(c, m)' <=> ThreadOwns(c, m)
  BY <1>1 DEF ThreadOwns, Keeps, Wants
<1>4. \A v \in Agents : \A m : v # <<c, "isr">> => (Owns(v, m)' <=> Owns(v, m))
  <2>1. SUFFICES ASSUME NEW v \in Agents, NEW m, v # <<c, "isr">>, v[1] = c
                 PROVE  Owns(v, m)' <=> Owns(v, m)
    BY <1>2
  <2>2. v[2] = "thread"
    BY SMTT(60), <2>1 DEF Agents
  <2> QED BY <1>3, <2>1, <2>2 DEF Owns
<1>5. /\ \A m : Owns(<<c, "isr">>, m) <=> IsrOwns(c, m)
      /\ \A m : Owns(<<c, "isr">>, m)' <=> IsrOwns(c, m)'
      /\ <<c, "isr">> \in Agents
  BY DEF Owns, Agents
<1>6. locked' \in [Locks -> BOOLEAN] /\ irqs' \in 0..MaxIrqs => TypeOK'
  BY <1>1 DEF TypeOK
<1>7. Bookkeeping(c)'
  <2>1. ThreadIf(c) /\ ThreadIf(c)' /\ (~Runs(c)' => ~flags_if'[c])
    BY DEF ThreadIf, Runs
  <2> QED BY <1>1, <2>1 DEF Bookkeeping, Innermost, Wants, Keeps
<1> QED BY <1>2, <1>4, <1>5, <1>6, <1>7

\* An interrupt is taken only while the flag is set, so no masked section is suspended.
LEMMA InterruptInv == ASSUME IInv, NEW c \in CPUs, Interrupt(c) PROVE IInv'
<1>1. TypeOK /\ Bookkeeping(c) /\ MutualExclusion /\ UNCHANGED <<locked, saved_if, enabled, thread>>
  BY DEF IInv, Interrupt
<1>2. /\ isr' \in [CPUs -> {"none", "slot", "handler", "acpi", "return", "iretq"}]
      /\ flags_if' \in [CPUs -> BOOLEAN] /\ flags_if[c] /\ ~flags_if'[c] /\ isr'[c] = "slot"
      /\ \A d \in CPUs \ {c} : isr'[d] = isr[d] /\ flags_if'[d] = flags_if[d]
      /\ irqs' \in 0..MaxIrqs
  BY SMTT(60), <1>1, LocksAssumption DEF Interrupt, TypeOK, Goes
<1>3. /\ \A d \in CPUs : Bookkeeping(d)'
      /\ \A v \in Agents : \A m : v # <<c, "isr">> => (Owns(v, m)' <=> Owns(v, m))
      /\ \A m : Owns(<<c, "isr">>, m)' <=> IsrOwns(c, m)'
      /\ locked' \in [Locks -> BOOLEAN] /\ irqs' \in 0..MaxIrqs => TypeOK'
  BY <1>1, <1>2, IsrBooks
<1>4. \A m : ~IsrOwns(c, m)'
  BY <1>2 DEF IsrOwns
<1>5. MutualExclusion' /\ TypeOK'
  BY <1>1, <1>2, <1>3, <1>4, Keep DEF TypeOK
<1> QED BY <1>3, <1>5 DEF IInv

\* iretq gives the thread back the flag it was interrupted with.
LEMMA IretqInv == ASSUME IInv, NEW c \in CPUs, iretq(c) PROVE IInv'
<1>1. TypeOK /\ Bookkeeping(c) /\ MutualExclusion /\ UNCHANGED <<locked, saved_if, enabled, thread, irqs>>
  BY DEF IInv, iretq
<1>2. /\ isr' \in [CPUs -> {"none", "slot", "handler", "acpi", "return", "iretq"}]
      /\ flags_if' \in [CPUs -> BOOLEAN] /\ ~Runs(c) /\ flags_if'[c] /\ isr'[c] = "none"
      /\ \A d \in CPUs \ {c} : isr'[d] = isr[d] /\ flags_if'[d] = flags_if[d]
  BY <1>1 DEF iretq, TypeOK, Goes, Runs
<1>3. /\ \A d \in CPUs : Bookkeeping(d)'
      /\ \A v \in Agents : \A m : v # <<c, "isr">> => (Owns(v, m)' <=> Owns(v, m))
      /\ \A m : Owns(<<c, "isr">>, m)' <=> IsrOwns(c, m)'
      /\ locked' \in [Locks -> BOOLEAN] /\ irqs' \in 0..MaxIrqs => TypeOK'
  BY <1>1, <1>2, IsrBooks
<1>4. \A m : ~IsrOwns(c, m)'
  BY <1>2 DEF IsrOwns
<1>5. MutualExclusion' /\ TypeOK'
  BY <1>1, <1>3, <1>4, Keep DEF TypeOK
<1> QED BY <1>3, <1>5 DEF IInv

\* isr_handler takes the slot, its handler the uACPI spinlock.
LEMMA IsrTakeInv ==
  ASSUME IInv, NEW c \in CPUs, IsrSlot(c) \/ IsrAcpi(c)
  PROVE  IInv'
<1>1. /\ TypeOK /\ Bookkeeping(c) /\ MutualExclusion
      /\ UNCHANGED <<saved_if, flags_if, enabled, thread, irqs>>
  BY DEF IInv, IsrSlot, IsrAcpi
<1>2. PICK l \in {Slot, Acpi} :
        /\ CompareExchange(l)
        /\ \A m : IsrOwns(c, m)' => IsrOwns(c, m) \/ m = l
        /\ isr' \in [CPUs -> {"none", "slot", "handler", "acpi", "return", "iretq"}]
        /\ isr[c] # "none" /\ isr'[c] # "none" /\ \A d \in CPUs \ {c} : isr'[d] = isr[d]
  <2>1. CASE IsrSlot(c)
    BY <1>1, <2>1, LocksAssumption DEF IsrSlot, Goes, IsrOwns, TypeOK
  <2>2. CASE IsrAcpi(c)
    BY <1>1, <2>2, LocksAssumption DEF IsrAcpi, Goes, IsrOwns, TypeOK
  <2> QED BY <2>1, <2>2
<1>3. ~Runs(c) /\ ~flags_if'[c] /\ flags_if' \in [CPUs -> BOOLEAN] /\ l \in Locks
  BY <1>1, <1>2 DEF Runs, Bookkeeping, TypeOK, Locks
<1>4. /\ \A d \in CPUs : Bookkeeping(d)'
      /\ \A v \in Agents : \A m : v # <<c, "isr">> => (Owns(v, m)' <=> Owns(v, m))
      /\ \A m : Owns(<<c, "isr">>, m) <=> IsrOwns(c, m)
      /\ \A m : Owns(<<c, "isr">>, m)' <=> IsrOwns(c, m)'
      /\ <<c, "isr">> \in Agents
      /\ locked' \in [Locks -> BOOLEAN] /\ irqs' \in 0..MaxIrqs => TypeOK'
  BY <1>1, <1>2, <1>3, IsrBooks
<1>5. PICK w \in Agents :
        \A v \in Agents, m \in Locks : Owns(v, m)' => Owns(v, m) \/ (v = w /\ m = l)
  BY <1>2, <1>4
<1>6. MutualExclusion' /\ TypeOK'
  BY <1>1, <1>2, <1>3, <1>4, <1>5, Take DEF TypeOK
<1> QED BY <1>4, <1>6 DEF IInv

\* They release them in the opposite order.
LEMMA IsrGiveInv ==
  ASSUME IInv, NEW c \in CPUs, IsrAcpiDone(c) \/ IsrSlotDone(c)
  PROVE  IInv'
<1>1. /\ TypeOK /\ Bookkeeping(c) /\ MutualExclusion
      /\ UNCHANGED <<saved_if, flags_if, enabled, thread, irqs>>
  BY DEF IInv, IsrSlotDone, IsrAcpiDone
<1>2. PICK l \in {Slot, Acpi} :
        /\ locked' = [locked EXCEPT ![l] = FALSE] /\ IsrOwns(c, l)
        /\ \A m : IsrOwns(c, m)' => IsrOwns(c, m) /\ m # l
        /\ isr' \in [CPUs -> {"none", "slot", "handler", "acpi", "return", "iretq"}]
        /\ isr[c] # "none" /\ isr'[c] # "none" /\ \A d \in CPUs \ {c} : isr'[d] = isr[d]
  <2>1. CASE IsrAcpiDone(c)
    BY SMTT(60), <1>1, <2>1, LocksAssumption DEF IsrAcpiDone, Goes, IsrOwns, TypeOK
  <2>2. CASE IsrSlotDone(c)
    BY <1>1, <2>2, LocksAssumption DEF IsrSlotDone, Goes, IsrOwns, TypeOK
  <2> QED BY <2>1, <2>2
<1>3. ~Runs(c) /\ ~flags_if'[c] /\ flags_if' \in [CPUs -> BOOLEAN] /\ l \in Locks
  BY <1>1, <1>2 DEF Runs, Bookkeeping, TypeOK, Locks
<1>4. /\ \A d \in CPUs : Bookkeeping(d)'
      /\ \A v \in Agents : \A m : v # <<c, "isr">> => (Owns(v, m)' <=> Owns(v, m))
      /\ \A m : Owns(<<c, "isr">>, m) <=> IsrOwns(c, m)
      /\ \A m : Owns(<<c, "isr">>, m)' <=> IsrOwns(c, m)'
      /\ <<c, "isr">> \in Agents
      /\ locked' \in [Locks -> BOOLEAN] /\ irqs' \in 0..MaxIrqs => TypeOK'
  BY <1>1, <1>2, <1>3, IsrBooks
<1>5. PICK w \in Agents :
        /\ Owns(w, l)
        /\ \A v \in Agents, m \in Locks : Owns(v, m)' => Owns(v, m) /\ ~(v = w /\ m = l)
  BY SMTT(60), <1>2, <1>4
<1>6. MutualExclusion' /\ TypeOK'
  BY <1>1, <1>2, <1>3, <1>4, <1>5, Give DEF TypeOK
<1> QED BY <1>4, <1>6 DEF IInv

-----------------------------------------------------------------------------
(* The invariant. *)

\* Every step preserves the inductive invariant.
LEMMA Inductive == ASSUME IInv, [Next]_vars PROVE IInv'
<1>1. CASE UNCHANGED vars
  <2>1. UNCHANGED <<locked, saved_if, flags_if, enabled, pc, plan, held, flags, restore, isr, irqs>>
    BY <1>1 DEF vars, thread
  <2>2. TypeOK'
    BY <2>1 DEF IInv, TypeOK
  <2>3. \A c \in CPUs : Bookkeeping(c)'
    BY <2>1, OtherBooks DEF IInv
  <2>4. \A c \in CPUs : \A l : (ThreadOwns(c, l)' <=> ThreadOwns(c, l)) /\ (IsrOwns(c, l)' <=> IsrOwns(c, l))
    BY <2>1, OtherOwns
  <2>5. \A v \in Agents, l \in Locks : Owns(v, l)' => Owns(v, l)
    BY <2>4 DEF Owns, Agents
  <2>6. MutualExclusion'
    BY <2>1, <2>5, Keep DEF IInv
  <2> QED BY <2>2, <2>3, <2>6 DEF IInv
<1>2. ASSUME NEW c \in CPUs, Begin(c) \/ Enable(c) \/ Interrupt(c) \/ Step(c) PROVE IInv'
  BY <1>2, BeginInv, IntCasInv, IntSaveInv, IntMaskInv, ReadFlagsInv, CriticalMaskInv, AcpiMaskInv,
     AcpiCasInv, SlotCasInv, IntReadInv, IntReleaseInv, IntUnmaskInv, AcpiReleaseInv, RestoreFlagsInv,
     SlotReleaseInv, EnableInv, InterruptInv, IsrTakeInv, IsrGiveInv, IretqInv
     DEF Step
<1> QED BY <1>1, <1>2 DEF Next, Spin

\* The inductive invariant holds at boot.
LEMMA Initially == Init => IInv
<1> SUFFICES ASSUME Init PROVE IInv
  OBVIOUS
<1>1. TypeOK
  <2>1. \A S : <<>> \in Seq(S)
    BY SMTT(60)
  <2>2. /\ plan \in [CPUs -> Seq(Sections)] /\ held \in [CPUs -> Seq([lock : Sections, flags : BOOLEAN])]
    BY <2>1 DEF Init
  <2> QED BY SMTT(60), <2>2, LocksAssumption DEF Init, TypeOK, Entering, Leaving
<1>2. \A c \in CPUs, l \in Locks : ~ThreadOwns(c, l) /\ ~IsrOwns(c, l)
  BY SMTT(60) DEF Init, ThreadOwns, IsrOwns
<1>3. MutualExclusion
  BY <1>2 DEF MutualExclusion, Owns, Agents
<1>4. \A c \in CPUs : Bookkeeping(c)
  <2> SUFFICES ASSUME NEW c \in CPUs PROVE Bookkeeping(c)
    OBVIOUS
  <2>1. /\ pc[c] = "idle" /\ held[c] = <<>> /\ plan[c] = <<>> /\ ~enabled[c] /\ ~flags_if[c]
        /\ isr[c] = "none" /\ ~restore[c]
    BY DEF Init
  <2>2. ~ThreadIf(c) /\ Runs(c)
    BY <2>1 DEF ThreadIf, Runs
  <2>3. DOMAIN held[c] = {}
    BY SMTT(60), <2>1
  <2> QED BY <2>1, <2>2, <2>3 DEF Bookkeeping
<1> QED BY <1>1, <1>3, <1>4 DEF IInv

-----------------------------------------------------------------------------
(***************************************************************************)
(* The books of every CPU are right in every reachable state: exactly the  *)
(* outermost section of a thread that runs with interrupts on has saved    *)
(* the flag set, in IntLock::saved_if, in the flags uACPI keeps or in the  *)
(* flags critical_section keeps.                                           *)
(***************************************************************************)
THEOREM BooksAlwaysRight == Spec => []IInv
  BY Initially, Inductive, PTL DEF Spec

(***************************************************************************)
(* IntLock::try_lock, SpinLock::try_lock and the uACPI spinlocks exclude   *)
(* each other, between the CPUs and between a thread and the handler that  *)
(* suspends it.                                                            *)
(***************************************************************************)
THEOREM LocksExclude == Spec => []MutualExclusion
<1>1. IInv => MutualExclusion
  BY DEF IInv
<1> QED BY <1>1, BooksAlwaysRight, PTL

(***************************************************************************)
(* Whatever sections nest in whatever order, the thread has its interrupt  *)
(* flag back when the outermost one is left.                               *)
(***************************************************************************)
THEOREM FlagAlwaysRestored == Spec => []FlagRestored
<1>1. IInv => FlagRestored
  <2> SUFFICES ASSUME IInv, NEW c \in CPUs, Runs(c), pc[c] = "idle" PROVE flags_if[c] = enabled[c]
    BY DEF FlagRestored
  <2>1. flags_if[c] \in BOOLEAN /\ enabled[c] \in BOOLEAN /\ held[c] = <<>>
    BY DEF IInv, TypeOK, Leaving
  <2>2. flags_if[c] <=> enabled[c]
    BY <2>1 DEF IInv, Bookkeeping, ThreadIf
  <2> QED BY <2>1, <2>2
<1> QED BY <1>1, BooksAlwaysRight, PTL

\* No handler runs on a CPU whose thread is inside a section.
THEOREM AlwaysMaskedInside == Spec => []MaskedInside
<1>1. IInv => MaskedInside
  BY DEF IInv, Bookkeeping, MaskedInside, ThreadIf
<1> QED BY <1>1, BooksAlwaysRight, PTL

(***************************************************************************)
(* isr_handler and the handlers it calls never spin on a lock of the       *)
(* thread they suspended.                                                  *)
(***************************************************************************)
THEOREM HandlersNeverSelfDeadlock == Spec => []NoSelfDeadlock
<1>1. ASSUME IInv, NEW c \in CPUs, isr[c] # "none"
      PROVE  ~ThreadOwns(c, Slot) /\ ~ThreadOwns(c, Acpi)
  <2>1. Bookkeeping(c) /\ ThreadIf(c)
    BY <1>1 DEF IInv, ThreadIf, Runs
  <2>2. held[c] = <<>> /\ pc[c] # "cas" /\ (pc[c] \in {"save", "mask"} => Wants(c) \in IntLocks)
    BY <2>1 DEF Bookkeeping
  <2> QED BY SMTT(60), <2>2, LocksAssumption DEF ThreadOwns
<1>2. IInv => NoSelfDeadlock
  BY <1>1 DEF NoSelfDeadlock
<1> QED BY <1>2, BooksAlwaysRight, PTL

-----------------------------------------------------------------------------
(***************************************************************************)
(* Nobody waits for ever for somebody who waits: the steps, seen by those  *)
(* who take none, and what they do to owners and to nestings.              *)
(***************************************************************************)
\* The part of a CPU that decides what it owns and where it is.
Place(d) == <<pc[d], plan[d], held[d], isr[d], enabled[d]>>

\* A step of c leaves the others where they are.
LEMMA Aside ==
  ASSUME TypeOK, NEW c \in CPUs, Begin(c) \/ Enable(c) \/ Interrupt(c) \/ Step(c), NEW d \in CPUs \ {c}
  PROVE  Place(d)' = Place(d)
<1> USE DEF Place, TypeOK, Goto, Goes, Entered, Left, thread
<1>1. CASE Begin(c) \/ Enable(c) \/ Interrupt(c)
  BY <1>1 DEF Begin, Enable, Interrupt
<1>2. CASE IntCas(c) \/ IntSave(c) \/ IntMask(c) \/ ReadFlags(c)
  BY <1>2 DEF IntCas, IntSave, IntMask, ReadFlags
<1>3. CASE CriticalMask(c) \/ AcpiMask(c) \/ AcpiCas(c) \/ SlotCas(c)
  BY <1>3 DEF CriticalMask, AcpiMask, AcpiCas, SlotCas
<1>4. CASE IntRead(c) \/ IntRelease(c) \/ IntUnmask(c)
  BY <1>4 DEF IntRead, IntRelease, IntUnmask
<1>5. CASE AcpiRelease(c) \/ RestoreFlags(c) \/ SlotRelease(c)
  BY <1>5 DEF AcpiRelease, RestoreFlags, SlotRelease
<1>6. CASE IsrSlot(c) \/ IsrAcpi(c) \/ IsrAcpiDone(c) \/ IsrSlotDone(c) \/ iretq(c)
  BY <1>6 DEF IsrSlot, IsrAcpi, IsrAcpiDone, IsrSlotDone, iretq
<1> QED BY <1>1, <1>2, <1>3, <1>4, <1>5, <1>6 DEF Step

\* What c gave up, c had unlocked; what was locked by it, c owns.
Accounted(c) ==
  \A l \in Locks : locked'[l] =>
    \/ locked[l] /\ (ThreadOwns(c, l) => ThreadOwns(c, l)') /\ (IsrOwns(c, l) => IsrOwns(c, l)')
    \/ ThreadOwns(c, l)' \/ IsrOwns(c, l)'

\* Then every lock still has an owner.
LEMMA OwnersStep ==
  ASSUME OwnersExist, NEW c \in CPUs, \A d \in CPUs \ {c} : Place(d)' = Place(d), Accounted(c)
  PROVE  OwnersExist'
<1>1. ASSUME NEW w \in Agents, NEW l, w[1] # c, Owns(w, l) PROVE Owns(w, l)'
  <2>1. w[1] \in CPUs \ {c}
    BY <1>1, OwnsSplit
  <2>2. PICK d \in CPUs \ {c} : d = w[1]
    BY <2>1
  <2>3. held'[d] = held[d] /\ plan'[d] = plan[d] /\ pc'[d] = pc[d] /\ isr'[d] = isr[d]
    BY DEF Place
  <2>4. (ThreadOwns(d, l)' <=> ThreadOwns(d, l)) /\ (IsrOwns(d, l)' <=> IsrOwns(d, l))
    BY <2>3, OtherOwns
  <2> QED BY <1>1, <2>2, <2>4 DEF Owns
<1>2. <<c, "thread">> \in Agents /\ <<c, "isr">> \in Agents
  BY DEF Agents
<1>3. /\ \A l : (Owns(<<c, "thread">>, l) <=> ThreadOwns(c, l)) /\ (Owns(<<c, "thread">>, l)' <=> ThreadOwns(c, l)')
      /\ \A l : (Owns(<<c, "isr">>, l) <=> IsrOwns(c, l)) /\ (Owns(<<c, "isr">>, l)' <=> IsrOwns(c, l)')
  BY DEF Owns
<1>4. ASSUME NEW w \in Agents, w[1] = c PROVE w = <<c, "thread">> \/ w = <<c, "isr">>
  BY SMTT(60), <1>4 DEF Agents
<1>5. SUFFICES ASSUME NEW l \in Locks, locked'[l] PROVE \E w \in Agents : Owns(w, l)'
  BY DEF OwnersExist
<1>6. CASE ThreadOwns(c, l)' \/ IsrOwns(c, l)'
  BY <1>2, <1>3, <1>6
<1>7. CASE locked[l] /\ (ThreadOwns(c, l) => ThreadOwns(c, l)') /\ (IsrOwns(c, l) => IsrOwns(c, l)')
  <2>1. PICK w \in Agents : Owns(w, l)
    BY <1>7 DEF OwnersExist
  <2>2. CASE w[1] # c
    BY <1>1, <2>1, <2>2
  <2>3. CASE w[1] = c
    BY <1>2, <1>3, <1>4, <1>7, <2>1, <2>3
  <2> QED BY <2>2, <2>3
<1> QED BY <1>5, <1>6, <1>7 DEF Accounted

\* Entering a section keeps the locks of the thread, and adds the section's.
LEMMA EnterOwns ==
  ASSUME TypeOK, NEW c \in CPUs, NEW fl \in BOOLEAN, pc[c] \in Entering, Entered(c, fl)
  PROVE  \A l : ThreadOwns(c, l) \/ l = Wants(c) => ThreadOwns(c, l)'
<1> DEFINE n == Len(held[c])
<1>1. /\ held' \in [CPUs -> Held]
      /\ n \in Nat /\ Len(held'[c]) = n + 1
      /\ held'[c][n + 1] = [lock |-> Wants(c), flags |-> fl]
      /\ \A i \in 1..n : held'[c][i] = held[c][i]
      /\ pc'[c] \in {"inside", "try"} /\ held[c] \in Held
  BY EnteredFacts DEF TypeOK, Held
<1>2. DOMAIN held'[c] = 1..(n + 1) /\ DOMAIN held[c] = 1..n
  BY SMTT(60), <1>1 DEF Held
<1> HIDE DEF n
<1>3. \A i \in 1..(n + 1) : Keeps(c, i)'
  BY <1>1, <1>2 DEF Keeps
<1>4. held'[c][n + 1].lock = Wants(c) /\ n + 1 \in 1..(n + 1) /\ \A i \in 1..n : i \in 1..(n + 1)
  BY SMTT(60), <1>1
<1>5. ASSUME NEW l, l = Wants(c) PROVE ThreadOwns(c, l)'
  BY <1>2, <1>3, <1>4, <1>5 DEF ThreadOwns
<1>6. ASSUME NEW l, ThreadOwns(c, l), l # Wants(c) PROVE ThreadOwns(c, l)'
  <2>1. PICK i \in 1..n : held[c][i].lock = l
    BY <1>2, <1>6 DEF ThreadOwns
  <2> QED BY <1>1, <1>2, <1>3, <1>4, <2>1 DEF ThreadOwns
<1> QED BY <1>5, <1>6

\* Leaving a section keeps the locks of the thread but that section's.
LEMMA LeaveOwns ==
  ASSUME TypeOK, NEW c \in CPUs, pc[c] \in Leaving, Left(c)
  PROVE  \A l : ThreadOwns(c, l) /\ (l = Innermost(c).lock => pc[c] \in {"unmask", "sti"}) => ThreadOwns(c, l)'
<1> DEFINE n == Len(held[c])
<1>1. /\ held' \in [CPUs -> Held] /\ held[c] \in Held
      /\ n \in Nat \ {0} /\ Len(held'[c]) = n - 1
      /\ \A i \in 1..Len(held'[c]) : held'[c][i] = held[c][i]
      /\ pc'[c] = (IF n = 1 THEN "idle" ELSE "inside")
  BY LeftFacts DEF TypeOK, Held
<1>2. DOMAIN held'[c] = 1..(n - 1) /\ DOMAIN held[c] = 1..n /\ \A i \in 1..n : i # n => i \in 1..(n - 1)
  BY SMTT(60), <1>1 DEF Held
<1>3. Innermost(c) = held[c][n]
  BY DEF Innermost
<1> HIDE DEF n
<1>4. SUFFICES ASSUME NEW l, ThreadOwns(c, l), l = Innermost(c).lock => pc[c] \in {"unmask", "sti"}
               PROVE  ThreadOwns(c, l)'
  OBVIOUS
<1>5. PICK i \in 1..n : held[c][i].lock = l /\ Keeps(c, i)
  BY <1>2, <1>4 DEF ThreadOwns, Leaving
<1>6. i # n
  BY <1>3, <1>4, <1>5 DEF Keeps, n
<1>7. i \in DOMAIN held'[c] /\ held'[c][i].lock = l
  BY <1>1, <1>2, <1>5, <1>6
<1>8. Keeps(c, i)'
  BY <1>1, <1>7 DEF Keeps
<1> QED BY <1>7, <1>8 DEF ThreadOwns

\* An unlocked flag, and a taken one.
LEMMA Flag ==
  ASSUME TypeOK, NEW l \in Locks, NEW b \in BOOLEAN, locked' = [locked EXCEPT ![l] = b]
  PROVE  locked'[l] = b /\ \A m \in Locks : m # l => locked'[m] = locked[m]
  BY DEF TypeOK

\* Every step of the kernel accounts for the locks its thread had and has.
LEMMA ThreadAccounts ==
  ASSUME IInv, NEW c \in CPUs, Begin(c) \/ Enable(c) \/ Step(c), isr' = isr
  PROVE  Accounted(c)
<1>1. TypeOK /\ Bookkeeping(c) /\ \A l : IsrOwns(c, l) => IsrOwns(c, l)'
  BY DEF IInv, IsrOwns
<1>2. ASSUME locked' = locked, \A l : ThreadOwns(c, l) => ThreadOwns(c, l)' PROVE Accounted(c)
  BY <1>1, <1>2 DEF Accounted
<1>3. CASE Begin(c)
  <2>1. pc[c] = "idle" /\ held[c] = <<>> /\ locked' = locked
    BY <1>1, <1>3 DEF Begin, TypeOK
  <2>2. \A l : ~ThreadOwns(c, l)
    BY SMTT(60), <2>1 DEF ThreadOwns
  <2> QED BY <1>2, <2>1, <2>2
<1>4. CASE Enable(c)
  <2>1. UNCHANGED <<pc, plan, held>> /\ locked' = locked
    BY <1>4 DEF Enable, thread
  <2>2. \A l : ThreadOwns(c, l) => ThreadOwns(c, l)'
    BY <2>1 DEF ThreadOwns, Keeps, Wants
  <2> QED BY <1>2, <2>1, <2>2
<1>5. CASE IntCas(c)
  <2>1. /\ pc[c] = "try" /\ pc'[c] = "save" /\ UNCHANGED <<plan, held>> /\ Wants(c) \in Locks
        /\ locked' = [locked EXCEPT ![Wants(c)] = TRUE]
    BY <1>1, <1>5 DEF IntCas, TypeOK, Goto, CompareExchange, Locks
  <2>2. \A l : ThreadOwns(c, l) \/ l = Wants(c) => ThreadOwns(c, l)'
    BY <2>1 DEF ThreadOwns, Keeps, Wants
  <2>3. \A m \in Locks : m # Wants(c) => locked'[m] = locked[m]
    BY <1>1, <2>1, Flag
  <2> QED BY <1>1, <2>2, <2>3 DEF Accounted
<1>6. CASE IntSave(c)
  <2>1. pc[c] = "save" /\ pc'[c] = "mask" /\ UNCHANGED <<plan, held>> /\ locked' = locked
    BY <1>1, <1>6 DEF IntSave, TypeOK, Goto
  <2>2. \A l : ThreadOwns(c, l) => ThreadOwns(c, l)'
    BY <2>1 DEF ThreadOwns, Keeps, Wants
  <2> QED BY <1>2, <2>1, <2>2
<1>7. CASE ReadFlags(c) \/ AcpiMask(c) \/ IntRead(c)
  <2>1. /\ pc[c] \in {"try", "cli", "inside"} /\ pc'[c] \in {"cli", "cas", "release"}
        /\ UNCHANGED <<plan, held>> /\ locked' = locked
    BY <1>1, <1>7 DEF ReadFlags, AcpiMask, IntRead, TypeOK, Goto
  <2>2. \A l : ThreadOwns(c, l) => ThreadOwns(c, l)'
    BY <2>1 DEF ThreadOwns, Keeps, Wants
  <2> QED BY <1>2, <2>1, <2>2
<1>8. CASE IntMask(c) \/ CriticalMask(c)
  <2>1. /\ pc[c] \in Entering /\ locked' = locked /\ \E fl \in BOOLEAN : Entered(c, fl)
    BY <1>1, <1>8 DEF IntMask, CriticalMask, Entering, TypeOK
  <2> QED BY <1>1, <1>2, <2>1, EnterOwns
<1>9. CASE AcpiCas(c) \/ SlotCas(c)
  <2>1. /\ pc[c] \in Entering /\ \E fl \in BOOLEAN : Entered(c, fl)
        /\ Wants(c) \in Locks /\ locked' = [locked EXCEPT ![Wants(c)] = TRUE]
    BY <1>1, <1>9 DEF AcpiCas, SlotCas, Entering, TypeOK, CompareExchange, Bookkeeping, Locks
  <2>2. \A l : ThreadOwns(c, l) \/ l = Wants(c) => ThreadOwns(c, l)'
    BY <1>1, <2>1, EnterOwns
  <2>3. \A m \in Locks : m # Wants(c) => locked'[m] = locked[m]
    BY <1>1, <2>1, Flag
  <2> QED BY <1>1, <2>2, <2>3 DEF Accounted
<1>10. CASE IntRelease(c) \/ AcpiRelease(c)
  <2>1. /\ pc[c] \in {"release", "inside"} /\ UNCHANGED <<plan, held>> /\ Innermost(c).lock \in Locks
        /\ locked' = [locked EXCEPT ![Innermost(c).lock] = FALSE]
    BY <1>1, <1>10 DEF IntRelease, AcpiRelease, Bookkeeping, Locks
  <2>2. \A m \in Locks : IF m # Innermost(c).lock THEN locked'[m] = locked[m] ELSE ~locked'[m]
    BY <1>1, <2>1, Flag
  <2>3. ASSUME NEW l, l # Innermost(c).lock, ThreadOwns(c, l) PROVE ThreadOwns(c, l)'
    <3>1. PICK i \in DOMAIN held[c] : held[c][i].lock = l
      BY <2>1, <2>3 DEF ThreadOwns
    <3>2. i # Len(held[c])
      BY <2>3, <3>1 DEF Innermost
    <3> QED BY <2>1, <3>1, <3>2 DEF ThreadOwns, Keeps
  <2> QED BY <1>1, <2>2, <2>3 DEF Accounted
<1>11. CASE IntUnmask(c) \/ RestoreFlags(c)
  <2>1. /\ pc[c] \in Leaving /\ Left(c) /\ locked' = locked
        /\ pc[c] \in {"unmask", "sti"} \/ Innermost(c).lock = Critical
    BY <1>11 DEF IntUnmask, RestoreFlags, Leaving
  <2>2. \A l \in Locks : ThreadOwns(c, l) => ThreadOwns(c, l)'
    BY <1>1, <2>1, LeaveOwns, LocksAssumption
  <2> QED BY <1>1, <2>1, <2>2 DEF Accounted
<1>12. CASE SlotRelease(c)
  <2>1. /\ pc[c] \in Leaving /\ Left(c) /\ Innermost(c).lock = Slot /\ Slot \in Locks
        /\ locked' = [locked EXCEPT ![Slot] = FALSE]
    BY <1>12 DEF SlotRelease, Leaving, Locks
  <2>2. \A m \in Locks : IF m # Slot THEN locked'[m] = locked[m] ELSE ~locked'[m]
    BY <1>1, <2>1, Flag
  <2>3. \A l \in Locks : l # Slot /\ ThreadOwns(c, l) => ThreadOwns(c, l)'
    BY <1>1, <2>1, LeaveOwns
  <2> QED BY <1>1, <2>2, <2>3 DEF Accounted
<1>13. ~(IsrSlot(c) \/ IsrAcpi(c) \/ IsrAcpiDone(c) \/ IsrSlotDone(c) \/ iretq(c))
  BY <1>1 DEF IsrSlot, IsrAcpi, IsrAcpiDone, IsrSlotDone, iretq, Goes, TypeOK
<1> QED BY <1>3, <1>4, <1>5, <1>6, <1>7, <1>8, <1>9, <1>10, <1>11, <1>12, <1>13 DEF Step

\* So does every step of the interrupt path.
LEMMA HandlerAccounts ==
  ASSUME TypeOK, NEW c \in CPUs,
         Interrupt(c) \/ IsrSlot(c) \/ IsrAcpi(c) \/ IsrAcpiDone(c) \/ IsrSlotDone(c) \/ iretq(c)
  PROVE  Accounted(c)
<1>1. UNCHANGED <<pc, plan, held>>
  BY DEF Interrupt, IsrSlot, IsrAcpi, IsrAcpiDone, IsrSlotDone, iretq, thread
<1>2. \A l : ThreadOwns(c, l) => ThreadOwns(c, l)'
  BY <1>1 DEF ThreadOwns, Keeps, Wants
<1>3. Slot \in Locks /\ Acpi \in Locks /\ Acpi # Slot
  BY LocksAssumption DEF Locks
<1>4. CASE Interrupt(c) \/ iretq(c)
  <2>1. locked' = locked /\ \A l : ~IsrOwns(c, l)
    BY <1>4 DEF Interrupt, iretq, Goes, IsrOwns
  <2> QED BY <1>2, <2>1 DEF Accounted
<1>5. CASE IsrSlot(c)
  <2>1. /\ isr[c] = "slot" /\ isr'[c] \in {"handler", "return"}
        /\ locked' = [locked EXCEPT ![Slot] = TRUE]
    BY <1>5 DEF IsrSlot, Goes, CompareExchange, TypeOK
  <2>2. \A m \in Locks : m # Slot => locked'[m] = locked[m]
    BY <1>3, <2>1, Flag
  <2>3. IsrOwns(c, Slot)' /\ \A l : ~IsrOwns(c, l)
    BY <2>1 DEF IsrOwns
  <2> QED BY <1>2, <2>2, <2>3 DEF Accounted
<1>6. CASE IsrAcpi(c)
  <2>1. isr[c] = "handler" /\ isr'[c] = "acpi" /\ locked' = [locked EXCEPT ![Acpi] = TRUE]
    BY <1>6 DEF IsrAcpi, Goes, CompareExchange, TypeOK
  <2>2. \A m \in Locks : m # Acpi => locked'[m] = locked[m]
    BY <1>3, <2>1, Flag
  <2>3. IsrOwns(c, Acpi)' /\ \A l : IsrOwns(c, l) => IsrOwns(c, l)'
    BY <2>1 DEF IsrOwns
  <2> QED BY <1>2, <2>2, <2>3 DEF Accounted
<1>7. CASE IsrAcpiDone(c)
  <2>1. isr[c] = "acpi" /\ isr'[c] = "return" /\ locked' = [locked EXCEPT ![Acpi] = FALSE]
    BY <1>7 DEF IsrAcpiDone, Goes, TypeOK
  <2>2. \A m \in Locks : IF m # Acpi THEN locked'[m] = locked[m] ELSE ~locked'[m]
    BY <1>3, <2>1, Flag
  <2>3. \A l : l # Acpi /\ IsrOwns(c, l) => IsrOwns(c, l)'
    BY <2>1 DEF IsrOwns
  <2> QED BY <1>2, <2>2, <2>3 DEF Accounted
<1>8. CASE IsrSlotDone(c)
  <2>1. isr[c] = "return" /\ isr'[c] = "iretq" /\ locked' = [locked EXCEPT ![Slot] = FALSE]
    BY <1>8 DEF IsrSlotDone, Goes, TypeOK
  <2>2. \A m \in Locks : IF m # Slot THEN locked'[m] = locked[m] ELSE ~locked'[m]
    BY <1>3, <2>1, Flag
  <2>3. \A l : l # Slot => ~IsrOwns(c, l)
    BY <2>1 DEF IsrOwns
  <2> QED BY <1>2, <2>2, <2>3 DEF Accounted
<1> QED BY <1>4, <1>5, <1>6, <1>7, <1>8


-----------------------------------------------------------------------------
\* CPUs that wait for the boot take no step before it is over.
LEMMA BootingStep ==
  ASSUME IInv, Booting, NEW c \in CPUs, Begin(c) \/ Enable(c) \/ Interrupt(c) \/ Step(c)
  PROVE  /\ Booting'
         /\ ~enabled[Bsp] => c = Bsp
         /\ enabled'[Bsp] = enabled[Bsp] \/ (c = Bsp /\ Enable(c))
<1>1. TypeOK /\ Bookkeeping(c) /\ Bsp \in CPUs
  BY LocksAssumption DEF IInv
<1>2. enabled' = enabled \/ (Enable(c) /\ enabled' = [enabled EXCEPT ![c] = TRUE])
  BY DEF Begin, Enable, Interrupt, Step, IntCas, IntSave, IntMask, ReadFlags, CriticalMask, AcpiMask,
     AcpiCas, SlotCas, IntRead, IntRelease, IntUnmask, AcpiRelease, RestoreFlags, SlotRelease,
     IsrSlot, IsrAcpi, IsrAcpiDone, IsrSlotDone, iretq
<1>3. ASSUME pc[c] = "idle", Runs(c), ~flags_if[c], ~Started(c) PROVE FALSE
  <2>1. ~Begin(c) /\ ~Enable(c) /\ ~Interrupt(c)
    BY <1>3 DEF Begin, Enable, Interrupt
  <2>2. /\ ~IntCas(c) /\ ~IntSave(c) /\ ~IntMask(c) /\ ~ReadFlags(c) /\ ~CriticalMask(c) /\ ~AcpiMask(c)
        /\ ~AcpiCas(c) /\ ~SlotCas(c) /\ ~IntRead(c) /\ ~IntRelease(c) /\ ~IntUnmask(c) /\ ~AcpiRelease(c)
        /\ ~RestoreFlags(c) /\ ~SlotRelease(c)
    BY <1>3 DEF IntCas, IntSave, IntMask, ReadFlags, CriticalMask, AcpiMask,
       AcpiCas, SlotCas, IntRead, IntRelease, IntUnmask, AcpiRelease, RestoreFlags, SlotRelease
  <2>3. ~IsrSlot(c) /\ ~IsrAcpi(c) /\ ~IsrAcpiDone(c) /\ ~IsrSlotDone(c) /\ ~iretq(c)
    BY <1>3 DEF IsrSlot, IsrAcpi, IsrAcpiDone, IsrSlotDone, iretq, Goes, Runs
  <2> QED BY <2>1, <2>2, <2>3 DEF Step
<1>4. ~enabled[Bsp] => c = Bsp
  <2> SUFFICES ASSUME ~enabled[Bsp], c # Bsp PROVE FALSE
    OBVIOUS
  <2>1. pc[c] = "idle" /\ Runs(c) /\ ~enabled[c] /\ ~Started(c)
    BY DEF Booting, Started
  <2>2. ~flags_if[c]
    BY <1>1, <2>1 DEF Bookkeeping, ThreadIf
  <2> QED BY <1>3, <2>1, <2>2
<1>5. enabled'[Bsp] = enabled[Bsp] \/ (c = Bsp /\ Enable(c))
  BY <1>1, <1>2 DEF TypeOK
<1>6. ~enabled'[Bsp] => ~enabled[Bsp]
  BY <1>1, <1>2 DEF TypeOK
<1>7. ASSUME ~enabled'[Bsp], NEW d \in CPUs \ {Bsp}
      PROVE  pc'[d] = "idle" /\ Runs(d)' /\ ~enabled'[d]
  <2>1. c = Bsp /\ pc[d] = "idle" /\ Runs(d) /\ ~enabled[d]
    BY <1>4, <1>6, <1>7 DEF Booting
  <2>2. Place(d)' = Place(d)
    BY <1>1, <2>1, Aside
  <2>3. pc'[d] = pc[d] /\ isr'[d] = isr[d] /\ enabled'[d] = enabled[d]
    BY <2>2 DEF Place
  <2> QED BY <2>1, <2>3 DEF Runs
<1>8. Booting'
  BY <1>7 DEF Booting
<1> QED BY <1>4, <1>5, <1>8

-----------------------------------------------------------------------------
\* A nesting that stays, stays right.
LEMMA NestedKept ==
  ASSUME NEW d \in CPUs, Nested(d), plan'[d] = plan[d], held'[d] = held[d], enabled'[Bsp] = enabled[Bsp]
  PROVE  Nested(d)'
<1>1. \A l, m : Inside(l, m)' <=> Inside(l, m)
  BY DEF Inside
<1> QED BY <1>1 DEF Nested

\* Nothing is nested in a CPU that has nothing to enter.
LEMMA NestedNothing ==
  ASSUME NEW d \in CPUs, plan'[d] = <<>>
  PROVE  Nested(d)'
<1>1. DOMAIN plan'[d] = {}
  BY SMTT(60)
<1> QED BY <1>1 DEF Nested

\* The nestings of the kernel are right from the beginning.
LEMMA BeginNested == ASSUME IInv, NEW c \in CPUs, Begin(c) PROVE Nested(c)'
<1>1. PICK p \in IF enabled[Bsp] THEN RunPlans ELSE BootPlans \cup RunPlans :
        plan' = [plan EXCEPT ![c] = p]
  BY DEF Begin
<1>2. /\ TypeOK /\ pc[c] = "idle" /\ held' = held /\ enabled' = enabled
  BY DEF Begin, IInv
<1>3. plan'[c] = p /\ held'[c] = <<>> /\ p \in Seq(Sections)
  BY <1>1, <1>2, LocksAssumption DEF TypeOK
<1>4. ASSUME NEW i \in DOMAIN p, NEW j \in DOMAIN p, i < j, p[i] # Critical, p[j] # Critical
      PROVE  p[i] # p[j] /\ (enabled[Bsp] => Rank[p[i]] < Rank[p[j]])
  <2>1. CASE p \in RunPlans
    <3>1. Rank[p[i]] < Rank[p[j]]
      BY <1>4, <2>1, LockOrder
    <3>2. p[i] \in Locks /\ p[j] \in Locks
      <4>1. p[i] \in Sections /\ p[j] \in Sections
        BY SMTT(60), <1>3
      <4> QED BY <1>4, <4>1 DEF Sections
    <3>3. Rank[p[i]] \in Nat /\ Rank[p[j]] \in Nat
      BY <3>2, LockOrder
    <3>4. Rank[p[i]] # Rank[p[j]]
      BY SMTT(60), <3>1, <3>3
    <3> QED BY <3>1, <3>4
  <2>2. CASE p \in BootPlans /\ ~enabled[Bsp]
    BY <1>4, <2>2, LockOrder
  <2> QED BY <1>1, <2>1, <2>2
<1>5. DOMAIN held'[c] = {}
  BY SMTT(60), <1>3
<1> QED BY <1>2, <1>3, <1>4, <1>5 DEF Nested, Inside

\* What is first in a plan and what is left of it.
LEMMA TailFacts ==
  ASSUME NEW s \in Seq(Sections), s # <<>>, NEW t, t = Tail(s)
  PROVE  /\ 1 \in DOMAIN s /\ Head(s) = s[1]
         /\ \A i \in DOMAIN t : i \in Nat /\ i + 1 \in DOMAIN s /\ t[i] = s[i + 1] /\ 1 < i + 1
  BY SMTT(60)

\* A section that is entered moves from the plan to the stack.
LEMMA EnterNested ==
  ASSUME TypeOK, NEW c \in CPUs, Nested(c), NEW fl \in BOOLEAN, pc[c] \in Entering, Entered(c, fl),
         enabled' = enabled
  PROVE  Nested(c)'
<1> DEFINE n == Len(held[c])
           t == plan'[c]
<1>1. /\ held' \in [CPUs -> Held]
      /\ n \in Nat /\ Len(held'[c]) = n + 1
      /\ held'[c][n + 1] = [lock |-> Wants(c), flags |-> fl]
      /\ \A i \in 1..n : held'[c][i] = held[c][i]
      /\ held[c] \in Held
  BY EnteredFacts DEF TypeOK, Held
<1>2. DOMAIN held'[c] = 1..(n + 1) /\ DOMAIN held[c] = 1..n /\ held'[c][n + 1].lock = Wants(c)
  BY SMTT(60), <1>1 DEF Held
<1>3. plan[c] \in Seq(Sections) /\ plan[c] # <<>> /\ t = Tail(plan[c])
  BY DEF Entered, TypeOK
<1>4. /\ 1 \in DOMAIN plan[c] /\ Wants(c) = plan[c][1]
      /\ \A i \in DOMAIN t : i \in Nat /\ i + 1 \in DOMAIN plan[c] /\ t[i] = plan[c][i + 1] /\ 1 < i + 1
  BY <1>3, TailFacts DEF Wants
<1> HIDE DEF n, t
<1>5. \A l, m : Inside(l, m)' <=> Inside(l, m)
  BY DEF Inside
<1>6. ASSUME NEW i \in DOMAIN t, NEW j \in DOMAIN t, i < j PROVE Inside(t[i], t[j])
  <2>1. i + 1 < j + 1 /\ i + 1 \in DOMAIN plan[c] /\ j + 1 \in DOMAIN plan[c]
    BY SMTT(60), <1>4, <1>6
  <2>2. Inside(plan[c][i + 1], plan[c][j + 1])
    BY <2>1 DEF Nested
  <2> QED BY <1>4, <2>2
<1>7. ASSUME NEW i \in 1..(n + 1), NEW j \in DOMAIN t PROVE Inside(held'[c][i].lock, t[j])
  <2>1. j + 1 \in DOMAIN plan[c] /\ t[j] = plan[c][j + 1] /\ 1 < j + 1
    BY <1>4
  <2>2. CASE i = n + 1
    BY <1>2, <1>4, <2>1, <2>2 DEF Nested
  <2>3. CASE i \in 1..n
    BY <1>1, <1>2, <2>1, <2>3 DEF Nested
  <2>4. i = n + 1 \/ i \in 1..n
    BY SMTT(60), <1>1
  <2> QED BY <2>2, <2>3, <2>4
<1> QED BY <1>2, <1>5, <1>6, <1>7 DEF Nested, t

\* A step of c keeps the nesting of c.
LEMMA NestedOwn ==
  ASSUME IInv, NEW c \in CPUs, Nested(c), Begin(c) \/ Enable(c) \/ Interrupt(c) \/ Step(c)
  PROVE  Nested(c)'
<1>1. TypeOK /\ Bsp \in CPUs
  BY LocksAssumption DEF IInv
<1>2. CASE Begin(c)
  BY <1>2, BeginNested
<1>3. CASE Enable(c)
  <2>1. pc[c] = "idle" /\ plan' = plan
    BY <1>3 DEF Enable, thread
  <2>2. plan'[c] = <<>>
    BY <1>1, <2>1 DEF TypeOK, Entering
  <2> QED BY <2>2, NestedNothing
<1>4. CASE IntMask(c) \/ CriticalMask(c) \/ AcpiCas(c) \/ SlotCas(c)
  <2>1. pc[c] \in Entering /\ enabled' = enabled /\ \E fl \in BOOLEAN : Entered(c, fl)
    BY <1>1, <1>4 DEF IntMask, CriticalMask, AcpiCas, SlotCas, Entering, TypeOK
  <2> QED BY <1>1, <2>1, EnterNested
<1>5. CASE IntUnmask(c) \/ RestoreFlags(c) \/ SlotRelease(c)
  <2>1. pc[c] \in Leaving /\ plan' = plan
    BY <1>5 DEF IntUnmask, RestoreFlags, SlotRelease, Leaving
  <2>2. plan'[c] = <<>>
    BY <1>1, <2>1 DEF TypeOK, Leaving, Entering
  <2> QED BY <2>2, NestedNothing
<1>6. CASE UNCHANGED <<plan, held, enabled>>
  BY <1>6, NestedKept
<1>7. ASSUME Interrupt(c) \/ IntCas(c) \/ IntSave(c) \/ ReadFlags(c) \/ AcpiMask(c) \/ IntRead(c)
             \/ IntRelease(c) \/ AcpiRelease(c) \/ IsrSlot(c) \/ IsrAcpi(c) \/ IsrAcpiDone(c)
             \/ IsrSlotDone(c) \/ iretq(c)
      PROVE  UNCHANGED <<plan, held, enabled>>
  BY <1>7 DEF Interrupt, IntCas, IntSave, ReadFlags, AcpiMask, IntRead, IntRelease, AcpiRelease,
     IsrSlot, IsrAcpi, IsrAcpiDone, IsrSlotDone, iretq, thread
<1> QED BY <1>2, <1>3, <1>4, <1>5, <1>6, <1>7 DEF Step

\* Every step preserves the invariant.
LEMMA WaitInductive == ASSUME WaitInv, [Next]_vars PROVE WaitInv'
<1>1. IInv /\ OwnersExist /\ Booting /\ IInv' /\ TypeOK
  BY Inductive DEF WaitInv, IInv
<1>2. CASE UNCHANGED vars
  <2>1. UNCHANGED <<locked, saved_if, flags_if, enabled, pc, plan, held, flags, restore, isr, irqs>>
    BY <1>2 DEF vars
  <2>2. \A c \in CPUs : Nested(c)'
    BY <2>1, NestedKept DEF WaitInv
  <2>3. Booting'
    BY <1>1, <2>1 DEF Booting, Runs
  <2>4. \A c \in CPUs : \A l : (ThreadOwns(c, l)' <=> ThreadOwns(c, l)) /\ (IsrOwns(c, l)' <=> IsrOwns(c, l))
    BY <2>1, OtherOwns
  <2>5. \A v \in Agents, l \in Locks : Owns(v, l) => Owns(v, l)'
    BY <2>4 DEF Owns, Agents
  <2>6. OwnersExist'
    BY <1>1, <2>1, <2>5 DEF OwnersExist
  <2> QED BY <1>1, <2>2, <2>3, <2>6 DEF WaitInv
<1>3. ASSUME NEW c \in CPUs, Begin(c) \/ Enable(c) \/ Interrupt(c) \/ Step(c) PROVE WaitInv'
  <2>1. \A d \in CPUs \ {c} : Place(d)' = Place(d)
    BY <1>1, <1>3, Aside
  <2>2. Accounted(c)
    <3>1. CASE Interrupt(c) \/ IsrSlot(c) \/ IsrAcpi(c) \/ IsrAcpiDone(c) \/ IsrSlotDone(c) \/ iretq(c)
      BY <1>1, <3>1, HandlerAccounts
    <3>2. CASE isr' = isr /\ (Begin(c) \/ Enable(c) \/ Step(c))
      BY <1>1, <3>2, ThreadAccounts
    <3>3. ASSUME Begin(c) \/ Enable(c) \/ IntCas(c) \/ IntSave(c) \/ IntMask(c) \/ ReadFlags(c)
                 \/ CriticalMask(c) \/ AcpiMask(c) \/ AcpiCas(c) \/ SlotCas(c) \/ IntRead(c) \/ IntRelease(c)
                 \/ IntUnmask(c) \/ AcpiRelease(c) \/ RestoreFlags(c) \/ SlotRelease(c)
          PROVE  isr' = isr
      BY <3>3 DEF Begin, Enable, IntCas, IntSave, IntMask, ReadFlags, CriticalMask, AcpiMask, AcpiCas,
         SlotCas, IntRead, IntRelease, IntUnmask, AcpiRelease, RestoreFlags, SlotRelease
    <3> QED BY <1>3, <3>1, <3>2, <3>3 DEF Step
  <2>3. OwnersExist'
    BY <1>1, <2>1, <2>2, OwnersStep
  <2>4. /\ Booting'
        /\ ~enabled[Bsp] => c = Bsp
        /\ enabled'[Bsp] = enabled[Bsp] \/ (c = Bsp /\ Enable(c))
    BY <1>1, <1>3, BootingStep
  <2>5. ASSUME NEW d \in CPUs, d # c PROVE Nested(d)'
    <3>1. Place(d)' = Place(d) /\ Nested(d)
      BY <2>1, <2>5 DEF WaitInv
    <3>2. pc'[d] = pc[d] /\ plan'[d] = plan[d] /\ held'[d] = held[d]
      BY <3>1 DEF Place
    <3>3. CASE enabled'[Bsp] = enabled[Bsp]
      BY <3>1, <3>2, <3>3, NestedKept
    <3>4. CASE c = Bsp /\ Enable(c)
      <4>1. pc[d] = "idle"
        BY <1>1, <2>5, <3>4 DEF Enable, Booting
      <4>2. plan'[d] = <<>>
        BY <1>1, <3>2, <4>1 DEF TypeOK, Entering
      <4> QED BY <4>2, NestedNothing
    <3> QED BY <2>4, <3>3, <3>4
  <2>6. Nested(c)'
    BY <1>1, <1>3, NestedOwn DEF WaitInv
  <2> QED BY <1>1, <2>3, <2>4, <2>5, <2>6 DEF WaitInv
<1> QED BY <1>2, <1>3 DEF Next, Spin

\* It holds at boot.
LEMMA WaitInitially == Init => WaitInv
<1> SUFFICES ASSUME Init PROVE WaitInv
  OBVIOUS
<1>1. OwnersExist
  BY DEF Init, OwnersExist
<1>2. Booting
  BY DEF Init, Booting, Runs
<1>3. ASSUME NEW c \in CPUs PROVE Nested(c)
  <2>1. plan[c] = <<>>
    BY DEF Init
  <2>2. DOMAIN plan[c] = {}
    BY SMTT(60), <2>1
  <2> QED BY <2>2 DEF Nested
<1> QED BY <1>1, <1>2, <1>3, Initially DEF WaitInv

-----------------------------------------------------------------------------
\* The lock c spins on, when it does.
WaitsFor(c) ==
  IF isr[c] = "slot" THEN Slot
  ELSE IF isr[c] = "handler" \/ pc[c] = "cas" THEN Acpi ELSE Wants(c)

\* Every set of numbers has a smallest one.
LEMMA Least ==
  ASSUME NEW T \in SUBSET Nat, T # {}
  PROVE  \E x \in T : \A y \in T : x <= y
<1> DEFINE R == OpToRel(<, Nat)
<1>1. PICK x \in T : \A y \in T : ~(<<y, x>> \in R)
  BY NatLessThanWellFounded, WFMin
<1>2. ASSUME NEW y \in T PROVE x <= y
  <2>1. x \in Nat /\ y \in Nat /\ ~(y < x)
    BY <1>1 DEF OpToRel
  <2> QED BY SMTT(60), <2>1
<1> QED BY <1>2

\* Whoever waits waits for a lock that is taken.
LEMMA Waiting ==
  ASSUME IInv, NEW c \in CPUs, Blocked(c)
  PROVE  /\ WaitsFor(c) \in Locks /\ locked[WaitsFor(c)]
         /\ Runs(c) => pc[c] \in {"try", "cas"} /\ WaitsFor(c) = plan[c][1] /\ 1 \in DOMAIN plan[c]
         /\ ~Runs(c) => isr[c] \in {"slot", "handler"}
<1>1. Slot \in Locks /\ Acpi \in Locks /\ TypeOK /\ Bookkeeping(c)
  BY DEF Locks, IInv
<1>2. CASE Runs(c)
  <2>1. /\ pc[c] \in {"try", "cas"} /\ WaitsFor(c) = Wants(c) /\ WaitsFor(c) \in Locks /\ locked[WaitsFor(c)]
    <3>1. pc[c] = "cas" => Wants(c) = Acpi
      BY <1>1 DEF Bookkeeping
    <3> QED BY <1>1, <1>2, <3>1 DEF Blocked, Runs, WaitsFor
  <2>2. plan[c] \in Seq(Sections) /\ plan[c] # <<>>
    BY <1>1, <2>1 DEF TypeOK, Entering
  <2>3. 1 \in DOMAIN plan[c] /\ Wants(c) = plan[c][1]
    BY <2>2, TailFacts DEF Wants
  <2> QED BY <1>2, <2>1, <2>3
<1>3. CASE ~Runs(c)
  <2>1. (isr[c] = "slot" /\ locked[Slot]) \/ (isr[c] = "handler" /\ locked[Acpi])
    BY <1>3 DEF Blocked
  <2> QED BY <1>1, <1>3, <2>1 DEF WaitsFor
<1> QED BY <1>2, <1>3

\* After boot, a CPU that waits owns only locks below the one it waits for.
LEMMA Upwards ==
  ASSUME WaitInv, enabled[Bsp], NEW d \in CPUs, Blocked(d), NEW l \in Locks,
         ThreadOwns(d, l) \/ IsrOwns(d, l)
  PROVE  Rank[l] < Rank[WaitsFor(d)]
<1>1. /\ IInv /\ TypeOK /\ Bookkeeping(d) /\ Nested(d) /\ WaitsFor(d) \in Locks
      /\ Runs(d) => pc[d] \in {"try", "cas"} /\ WaitsFor(d) = plan[d][1] /\ 1 \in DOMAIN plan[d]
      /\ ~Runs(d) => isr[d] \in {"slot", "handler"}
  BY Waiting DEF WaitInv, IInv
<1>2. CASE IsrOwns(d, l)
  <2>1. isr[d] # "none"
    BY <1>2 DEF IsrOwns
  <2>2. isr[d] \in {"slot", "handler"}
    BY <1>1, <2>1 DEF Runs
  <2>3. isr[d] = "handler" /\ l = Slot
    BY <1>2, <2>2 DEF IsrOwns
  <2>4. WaitsFor(d) = Acpi
    BY <2>3 DEF WaitsFor
  <2> QED BY <2>3, <2>4, LockOrder
<1>3. CASE ThreadOwns(d, l) /\ ~Runs(d)
  <2>1. held[d] = <<>>
    BY <1>1, <1>3 DEF Bookkeeping, ThreadIf
  <2>2. l \in IntLocks
    <3>1. pc[d] \in {"save", "mask"} => Wants(d) \in IntLocks
      BY <1>1 DEF Bookkeeping
    <3> QED BY SMTT(60), <1>3, <2>1, <3>1 DEF ThreadOwns
  <2>3. WaitsFor(d) \in {Slot, Acpi}
    BY <1>1, <1>3 DEF WaitsFor
  <2>4. Rank[l] \in Nat /\ Rank[Slot] \in Nat /\ Rank[Acpi] \in Nat
    BY LockOrder DEF Locks
  <2>5. Rank[l] < Rank[Slot] /\ Rank[Slot] < Rank[Acpi]
    BY <2>2, LockOrder
  <2> QED BY SMTT(60), <2>3, <2>4, <2>5
<1>4. CASE ThreadOwns(d, l) /\ Runs(d)
  <2>1. PICK i \in DOMAIN held[d] : held[d][i].lock = l
    BY <1>1, <1>4 DEF ThreadOwns
  <2>2. Inside(l, WaitsFor(d))
    BY <1>1, <1>4, <2>1 DEF Nested
  <2>3. l # Critical /\ WaitsFor(d) # Critical
    BY <1>1, LocksAssumption
  <2> QED BY <2>2, <2>3 DEF Inside
<1> QED BY <1>2, <1>3, <1>4

\* During boot the first CPU waits for nobody.
LEMMA BootRuns == ASSUME WaitInv, ~enabled[Bsp] PROVE ~Blocked(Bsp)
<1>1. SUFFICES ASSUME Blocked(Bsp) PROVE FALSE
  OBVIOUS
<1>2. Bsp \in CPUs /\ IInv /\ TypeOK /\ Bookkeeping(Bsp) /\ Nested(Bsp) /\ OwnersExist /\ Booting
  BY LocksAssumption DEF WaitInv, IInv
<1>3. Runs(Bsp)
  BY <1>2 DEF Bookkeeping, ThreadIf
<1>4. /\ WaitsFor(Bsp) \in Locks /\ locked[WaitsFor(Bsp)]
      /\ pc[Bsp] \in {"try", "cas"} /\ WaitsFor(Bsp) = plan[Bsp][1] /\ 1 \in DOMAIN plan[Bsp]
  BY <1>1, <1>2, <1>3, Waiting
<1>5. PICK l \in Locks : l = WaitsFor(Bsp)
  BY <1>4
<1>6. PICK w \in Agents : Owns(w, l)
  BY <1>2, <1>4, <1>5 DEF OwnersExist
<1>7. w[1] \in CPUs /\ (ThreadOwns(w[1], l) \/ IsrOwns(w[1], l))
  BY <1>6, OwnsSplit
<1>8. PICK d \in CPUs : ThreadOwns(d, l) \/ IsrOwns(d, l)
  BY <1>7
<1>9. CASE d # Bsp
  <2>1. pc[d] = "idle" /\ Runs(d) /\ held[d] = <<>>
    BY <1>2, <1>9 DEF Booting, TypeOK
  <2> QED BY SMTT(60), <1>8, <2>1 DEF ThreadOwns, IsrOwns, Runs
<1>10. CASE d = Bsp
  <2>1. PICK i \in DOMAIN held[Bsp] : held[Bsp][i].lock = l
    BY <1>3, <1>4, <1>8, <1>10 DEF ThreadOwns, IsrOwns, Runs
  <2>2. Inside(l, l)
    BY <1>2, <1>4, <1>5, <2>1 DEF Nested
  <2> QED BY <2>2, LocksAssumption DEF Inside
<1> QED BY <1>9, <1>10

(***************************************************************************)
(* However many CPUs there are, they never all spin: of those that wait,   *)
(* one waits for a lock of the highest rank, and the owner of that one     *)
(* does not wait.  IntLock::lock, the spin of uacpi_kernel_lock_spinlock   *)
(* and isr_handler are the places where a CPU can wait.                    *)
(***************************************************************************)
THEOREM NeverAllWaiting == Spec => []SomeoneRuns
<1>1. ASSUME WaitInv PROVE SomeoneRuns
  <2>1. Bsp \in CPUs /\ IInv /\ OwnersExist
    BY <1>1, LocksAssumption DEF WaitInv
  <2>2. CASE ~enabled[Bsp]
    BY <1>1, <2>1, <2>2, BootRuns DEF SomeoneRuns
  <2>3. CASE enabled[Bsp]
    <3>1. SUFFICES ASSUME \A c \in CPUs : Blocked(c) PROVE FALSE
      BY DEF SomeoneRuns
    <3> DEFINE Room(c) == Rank[Acpi] - Rank[WaitsFor(c)]
               T == {Room(c) : c \in CPUs}
    <3>2. ASSUME NEW l \in Locks PROVE Rank[l] \in Nat /\ Rank[Acpi] - Rank[l] \in Nat
      <4>1. Rank[l] \in Nat /\ Rank[Slot] \in Nat /\ Rank[Acpi] \in Nat
        BY LockOrder DEF Locks
      <4>2. Rank[Slot] < Rank[Acpi] /\ (l \in IntLocks => Rank[l] < Rank[Slot])
        BY LockOrder
      <4>3. l \in IntLocks \/ l = Slot \/ l = Acpi
        BY DEF Locks
      <4> QED BY SMTT(60), <4>1, <4>2, <4>3
    <3>3. ASSUME NEW c \in CPUs PROVE WaitsFor(c) \in Locks /\ locked[WaitsFor(c)]
      BY <2>1, <3>1, Waiting
    <3>4. T \in SUBSET Nat /\ T # {}
      BY <2>1, <3>2, <3>3
    <3>5. PICK x \in T : \A y \in T : x <= y
      BY <3>4, Least
    <3>6. PICK c \in CPUs : \A d \in CPUs : Room(c) <= Room(d)
      BY <3>5
    <3>7. PICK w \in Agents : Owns(w, WaitsFor(c))
      BY <2>1, <3>3 DEF OwnersExist
    <3>8. PICK d \in CPUs : ThreadOwns(d, WaitsFor(c)) \/ IsrOwns(d, WaitsFor(c))
      BY <3>7, OwnsSplit
    <3>9. Rank[WaitsFor(c)] < Rank[WaitsFor(d)]
      BY <1>1, <2>3, <3>1, <3>3, <3>8, Upwards
    <3>10. Rank[WaitsFor(c)] \in Nat /\ Rank[WaitsFor(d)] \in Nat /\ Rank[Acpi] \in Nat
      BY <3>2, <3>3 DEF Locks
    <3>11. Rank[Acpi] - Rank[WaitsFor(c)] <= Rank[Acpi] - Rank[WaitsFor(d)]
      BY <3>6
    <3> QED BY SMTT(60), <3>9, <3>10, <3>11
  <2> QED BY <2>2, <2>3
<1> QED BY <1>1, WaitInitially, WaitInductive, PTL DEF Spec

=============================================================================
