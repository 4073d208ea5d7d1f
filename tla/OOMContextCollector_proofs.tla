----------------------- MODULE OOMContextCollector_proofs -----------------------
(***************************************************************************)
(* Proofs about the OOM context map of part_001, for every set of PIDs,    *)
(* every bound and every clock horizon.                                    *)
(***************************************************************************)
EXTENDS OOMContextCollector, FiniteSetTheorems, TLAPS

(* What Store and Delete return.                                           *)
LEMMA StoreFacts ==
  ASSUME NEW m, NEW D, m \in [D -> Context], NEW pid, NEW ctx \in Context
  PROVE  /\ Store(m, pid, ctx) \in [D \cup {pid} -> Context]
         /\ DOMAIN Store(m, pid, ctx) = D \cup {pid}
         /\ Store(m, pid, ctx)[pid] = ctx
         /\ \A p \in D \ {pid} : Store(m, pid, ctx)[p] = m[p]
BY DEF Store

LEMMA DeleteFacts ==
  ASSUME NEW m, NEW D, m \in [D -> Context], NEW pid
  PROVE  /\ Delete(m, pid) \in [D \ {pid} -> Context]
         /\ DOMAIN Delete(m, pid) = D \ {pid}
         /\ \A p \in D \ {pid} : Delete(m, pid)[p] = m[p]
BY DEF Delete

(* A level the classifier returns is one a context may hold.               *)
LEMMA PressureOfType ==
  ASSUME NEW f
  PROVE  PressureOf(GetSystemPressure(f)) \in PressureLevels
BY DEF PressureOf, GetSystemPressure, GetMemoryPressureLevel, PressureLevels

(* Every reading time.Now() returns after t is at least t.                 *)
LEMMA LaterFacts ==
  ASSUME NEW t \in Nat, NEW u \in Later(t)
  PROVE  /\ u \in Nat
         /\ t <= u
         /\ StrictClock => t < u
BY CollectorAssumption DEF Later

-----------------------------------------------------------------------------
LEMMA TypeInit == Init => TypeOK
BY CollectorAssumption DEF Init, TypeOK, Context, Nil, NoPid

(* Every step keeps TypeOK: RecordOOM keeps the clock within the horizon   *)
(* and stores well-formed contexts; the readers copy them.                 *)
LEMMA TypeStep == TypeOK /\ [Next]_vars => TypeOK'
<1> SUFFICES ASSUME TypeOK, [Next]_vars PROVE TypeOK'
  OBVIOUS
<1> USE DEF TypeOK
<1>1. ASSUME NEW pid \in Pids, RecordOOM(pid) PROVE TypeOK'
  <2>1. PICK t1 \in Later(clock) :
          LET p   == GetSystemPressure(memFile)
              ctx == [ts |-> t1, pressure |-> PressureOf(p)]
              ins == Store(recentOOMs, pid, ctx)
          IN /\ t1 <= MaxTime
             /\ sample' = p
             /\ last' = [pid |-> pid, ctx |-> ctx]
             /\ \/ /\ Cardinality(DOMAIN ins) <= KeepOOMs
                   /\ recentOOMs' = ins
                   /\ clock' = t1
                \/ /\ Cardinality(DOMAIN ins) > KeepOOMs
                   /\ \E t2 \in Later(t1) :
                        /\ t2 <= MaxTime
                        /\ \E victim \in OldestPids(ins, t2) : recentOOMs' = Delete(ins, victim)
                        /\ clock' = t2
             /\ UNCHANGED <<memFile, reply>>
    BY <1>1 DEF RecordOOM
  <2> DEFINE ctx == [ts |-> t1, pressure |-> PressureOf(GetSystemPressure(memFile))]
             ins == Store(recentOOMs, pid, ctx)
             D   == DOMAIN recentOOMs
  <2>2. t1 \in Nat /\ t1 \in 0..MaxTime
    BY <2>1, LaterFacts DEF TypeOK
  <2>3. ctx \in Context
    BY <2>2, PressureOfType DEF Context
  <2>4. ins \in [D \cup {pid} -> Context]
    BY <2>3, StoreFacts
  <2>5. last' \in [pid : Pids \cup {NoPid}, ctx : Context \cup {Nil}]
    BY <2>1, <2>3
  <2>6. CASE recentOOMs' = ins /\ clock' = t1
    BY <2>1, <2>2, <2>4, <2>5, <2>6
  <2>7. CASE \E t2 \in Later(t1) :
               /\ t2 <= MaxTime
               /\ \E victim \in OldestPids(ins, t2) : recentOOMs' = Delete(ins, victim)
               /\ clock' = t2
    <3>1. PICK t2 \in Later(t1) : /\ t2 <= MaxTime
                                  /\ \E victim \in OldestPids(ins, t2) : recentOOMs' = Delete(ins, victim)
                                  /\ clock' = t2
      BY <2>7
    <3>2. PICK victim \in OldestPids(ins, t2) : recentOOMs' = Delete(ins, victim)
      BY <3>1
    <3>3. recentOOMs' \in [(D \cup {pid}) \ {victim} -> Context]
          /\ DOMAIN recentOOMs' = (D \cup {pid}) \ {victim}
      BY <2>4, <3>2, DeleteFacts
    <3>4. clock' \in 0..MaxTime
      BY <2>2, <3>1, LaterFacts
    <3> QED
      BY <2>1, <2>5, <3>3, <3>4
  <2> QED
    BY <2>1, <2>6, <2>7
<1>2. ASSUME NEW pid \in Pids, GetOOMContext(pid) PROVE TypeOK'
  BY <1>2 DEF GetOOMContext
<1>3. CASE GetRecentOOMs
  BY <1>3 DEF GetRecentOOMs
<1>4. CASE PSIUpdate
  BY <1>4 DEF PSIUpdate
<1>5. CASE UNCHANGED vars
  BY <1>5 DEF vars
<1> QED
  BY <1>1, <1>2, <1>3, <1>4, <1>5 DEF Next

(* TypeOK holds in every state of every run.                               *)
THEOREM TypeCorrect == Spec => []TypeOK
BY TypeInit, TypeStep, PTL DEF Spec

-----------------------------------------------------------------------------
(* Every step of the collector evicts, if anything, an oldest context.  A  *)
(* RecordOOM that overflows deletes a victim the scan kept: an entry       *)
(* strictly older than the second reading t2 and no younger than any      *)
(* other such entry; the entries it did not keep are at least as young as  *)
(* t2.  The zero PID the scan may end with is no recorded PID.  Nothing    *)
(* here needs the clock to be strict.                                      *)
LEMMA EvictStep == TypeOK /\ [Next]_vars => [OldestEvicted]_vars
<1> SUFFICES ASSUME TypeOK, [Next]_vars PROVE [OldestEvicted]_vars
  OBVIOUS
<1>1. ASSUME NEW pid \in Pids, RecordOOM(pid) PROVE OldestEvicted
  <2>1. PICK t1 \in Later(clock) :
          LET p   == GetSystemPressure(memFile)
              ctx == [ts |-> t1, pressure |-> PressureOf(p)]
              ins == Store(recentOOMs, pid, ctx)
          IN /\ t1 <= MaxTime
             /\ last' = [pid |-> pid, ctx |-> ctx]
             /\ \/ recentOOMs' = ins
                \/ \E t2 \in Later(t1) :
                     \E victim \in OldestPids(ins, t2) : recentOOMs' = Delete(ins, victim)
    BY <1>1 DEF RecordOOM
  <2> DEFINE ctx == [ts |-> t1, pressure |-> PressureOf(GetSystemPressure(memFile))]
             ins == Store(recentOOMs, pid, ctx)
             D   == DOMAIN recentOOMs
  <2> USE DEF ctx, ins, D
  <2>2. t1 \in Nat /\ t1 \in 0..MaxTime
    BY <2>1, LaterFacts, CollectorAssumption DEF TypeOK
  <2>3. ins \in [D \cup {pid} -> Context] /\ DOMAIN ins = D \cup {pid}
        /\ \A x \in D \ {pid} : ins[x] = recentOOMs[x]
    <3>1. ctx \in Context
      BY <2>2, PressureOfType DEF Context
    <3>2. recentOOMs \in [D -> Context]
      BY DEF TypeOK
    <3> QED
      BY <3>1, <3>2 DEF Store
  <2>4. last'.pid = pid
    BY <2>1
  <2>5. CASE recentOOMs' = ins
    BY <2>3, <2>5 DEF OldestEvicted
  <2>6. CASE \E t2 \in Later(t1) :
               \E victim \in OldestPids(ins, t2) : recentOOMs' = Delete(ins, victim)
    <3>1. PICK t2 \in Later(t1) :
                 \E victim \in OldestPids(ins, t2) : recentOOMs' = Delete(ins, victim)
      BY <2>6
    <3>2. PICK victim \in OldestPids(ins, t2) : recentOOMs' = Delete(ins, victim)
      BY <3>1
    <3>3. t2 \in Nat
      BY <2>2, LaterFacts
    <3>4. /\ DOMAIN recentOOMs' = (D \cup {pid}) \ {victim}
          /\ \A x \in (D \cup {pid}) \ {victim} : recentOOMs'[x] = ins[x]
      <4>1. ins \in [D \cup {pid} -> Context]
        BY <2>3
      <4> QED
        BY <4>1, <3>2 DEF Delete
    <3> DEFINE S == {x \in DOMAIN ins : ins[x].ts < t2}
    <3> USE DEF S
    <3>5. SUFFICES ASSUME NEW p \in D \ DOMAIN recentOOMs', p # pid,
                          NEW q \in DOMAIN recentOOMs'
                   PROVE  recentOOMs[p].ts <= recentOOMs'[q].ts
      BY <2>4 DEF OldestEvicted
    <3>6. p = victim /\ p \in Pids
      BY <3>4, <3>5 DEF TypeOK
    <3>7. victim \in S /\ \A x \in S : ins[victim].ts <= ins[x].ts
      <4>1. victim # NoPid
        BY <3>6, CollectorAssumption DEF NoPid
      <4> QED
        BY <3>2, <4>1 DEF OldestPids
    <3>8. recentOOMs[p] = ins[p] /\ recentOOMs'[q] = ins[q]
      BY <2>3, <3>4, <3>5, <3>6
    <3>9. ins[p].ts \in Nat /\ ins[q].ts \in Nat
      BY <2>3, <3>4, <3>5 DEF Context
    <3>10. CASE q \in S
      BY <3>6, <3>7, <3>8, <3>10
    <3>11. CASE q \notin S
      <4>1. q \in DOMAIN ins
        BY <2>3, <3>4, <3>5
      <4>2. ins[victim].ts < t2 /\ ~(ins[q].ts < t2)
        BY <3>7, <3>11, <4>1
      <4> QED
        BY <3>3, <3>6, <3>8, <3>9, <4>2
    <3> QED
      BY <3>10, <3>11
  <2> QED
    BY <2>1, <2>5, <2>6
<1>2. ASSUME NEW pid \in Pids, GetOOMContext(pid) PROVE OldestEvicted
  BY <1>2 DEF GetOOMContext, OldestEvicted
<1>3. CASE GetRecentOOMs
  BY <1>3 DEF GetRecentOOMs, OldestEvicted
<1>4. CASE PSIUpdate
  BY <1>4 DEF PSIUpdate, OldestEvicted
<1>5. CASE UNCHANGED vars
  BY <1>5 DEF vars
<1> QED
  BY <1>1, <1>2, <1>3, <1>4, <1>5 DEF Next

(* The eviction of RecordOOM removes an oldest context, in every run and   *)
(* for every clock, coarse or strict.                                      *)
THEOREM EvictsOldestHolds == Spec => EvictsOldest
BY TypeCorrect, EvictStep, PTL DEF Spec, EvictsOldest
=============================================================================
