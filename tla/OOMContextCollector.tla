-------------------------- MODULE OOMContextCollector --------------------------
(***************************************************************************)
(* OOMContextCollector (src/unnamed/part_001): a map PID -> OOM context     *)
(* behind an RWMutex.  RecordOOM holds the write lock for its whole body,  *)
(* GetOOMContext and GetRecentOOMs the read lock, so each call is one      *)
(* atomic step.  RecordOOM stamps the context with time.Now(), samples the *)
(* memory pressure, stores it, and when the map holds more than 100        *)
(* entries deletes the one the scan finds oldest: the scan starts from a   *)
(* second time.Now() and keeps an entry only if it is strictly Before the  *)
(* oldest so far, so of several equally old entries the first visited in  *)
(* Go's random map order is taken, and none is taken when no entry is      *)
(* older than the second reading (then the zero PID is deleted).           *)
(*                                                                         *)
(* Time is the monotonic reading time.Now() carries: it never goes back,   *)
(* and two readings are equal when the clock did not tick between them.    *)
(***************************************************************************)
EXTENDS NodePressure, Naturals, FiniteSets

CONSTANTS
  Pids,        \* the PIDs of processes that may be OOM-killed
  KeepOOMs,    \* the map's bound: 100 in RecordOOM
  MaxTime,     \* the last clock reading explored
  StrictClock, \* TRUE: every time.Now() reading is later than the previous one
  MemValues    \* the contents /proc/pressure/memory may have

ASSUME CollectorAssumption ==
  /\ Pids \subseteq Nat \ {0}
  /\ KeepOOMs \in Nat \ {0}
  /\ MaxTime \in Nat
  /\ StrictClock \in BOOLEAN
  /\ MemValues \subseteq Stats

(* The zero value of oldestPid: no process has PID 0.                      *)
NoPid == 0

VARIABLES
  recentOOMs,  \* the map: a function from the recorded PIDs to contexts
  clock,       \* the last time.Now() reading
  memFile,     \* /proc/pressure/memory as the kernel currently shows it
  sample,      \* the SystemPressure the last RecordOOM read
  last,        \* the PID and context the last RecordOOM returned
  reply        \* what the last GetOOMContext / GetRecentOOMs returned

vars == <<recentOOMs, clock, memFile, sample, last, reply>>

Context == [ts : 0..MaxTime, pressure : PressureLevels]
Nil == [ts |-> 0, pressure |-> "nil"]

(* Fault variant: a wall-clock reading that may step back.                *)
LaterWall(t) == {t - 1, t + 1}

(* Readings time.Now() may return after reading t.                        *)
Later(t) == IF StrictClock THEN {t + 1} ELSE {t, t + 1}

(* Fault variant: the existing context of pid kept.                      *)
StoreKeepOld(m, pid, ctx) == [p \in DOMAIN m \cup {pid} |-> IF p \in DOMAIN m THEN m[p] ELSE ctx]

(* The map with pid set to ctx, and the map without pid.                  *)
Store(m, pid, ctx) == [p \in DOMAIN m \cup {pid} |-> IF p = pid THEN ctx ELSE m[p]]
Delete(m, pid) == [p \in DOMAIN m \ {pid} |-> m[p]]

(* Fault variant: oldestTime starts at the zero Time.                     *)
OldestPidsZeroStart(m, now) ==
  LET S == {p \in DOMAIN m : m[p].ts < 0} IN
  IF S = {} THEN {NoPid} ELSE {p \in S : \A q \in S : m[p].ts <= m[q].ts}
(* Fault variant: the first entry visited is deleted, whatever its age.    *)
OldestPidsAny(m, now) ==
  LET S == {p \in DOMAIN m : m[p].ts < now} IN IF S = {} THEN {NoPid} ELSE S

(* The PIDs the eviction scan may end with, given the second reading now:  *)
(* among entries strictly older than now, any of the oldest (the first of  *)
(* them the random iteration visits); NoPid when there is none.            *)
OldestPids(m, now) ==
  LET S == {p \in DOMAIN m : m[p].ts < now} IN
  IF S = {} THEN {NoPid} ELSE {p \in S : \A q \in S : m[p].ts <= m[q].ts}

(* The level stored in the context: GetSystemPressure cannot fail, so the  *)
(* "unknown" branch is never taken.                                       *)
PressureOf(p) == IF p.err THEN "unknown" ELSE GetMemoryPressureLevel(p)

Init ==
  /\ recentOOMs = [p \in {} |-> Nil]
  /\ clock = 0
  /\ memFile \in {PressureFile(s) : s \in MemValues} \cup {Absent}
  /\ sample = GetSystemPressure(Absent)
  /\ last = [pid |-> NoPid, ctx |-> Nil]
  /\ reply = {}

(* RecordOOM(pid, ...).                                                    *)
RecordOOM(pid) ==
  \E t1 \in Later(clock) :
    LET p   == GetSystemPressure(memFile)
        ctx == [ts |-> t1, pressure |-> PressureOf(p)]
        ins == Store(recentOOMs, pid, ctx)
    IN /\ t1 <= MaxTime
       /\ sample' = p
       /\ last' = [pid |-> pid, ctx |-> ctx]
       /\ \/ /\ Cardinality(DOMAIN ins) <= KeepOOMs
             /\ recentOOMs' = ins
             /\ clock' = t1
          \/ /\ Cardinality(DOMAIN ins) > KeepOOMs
             /\ \E t2 \in Later(t1) :
                  /\ t2 <= MaxTime
                  /\ \E victim \in OldestPids(ins, t2) : recentOOMs' = Delete(ins, victim)
                  /\ clock' = t2
       /\ UNCHANGED <<memFile, reply>>

(* GetOOMContext(pid): the stored context, nil when there is none.         *)
GetOOMContext(pid) ==
  /\ reply' = IF pid \in DOMAIN recentOOMs THEN {<<pid, recentOOMs[pid]>>} ELSE {}
  /\ UNCHANGED <<recentOOMs, clock, memFile, sample, last>>

(* GetRecentOOMs: a copy of the map.                                       *)
GetRecentOOMs ==
  /\ reply' = {<<p, recentOOMs[p]>> : p \in DOMAIN recentOOMs}
  /\ UNCHANGED <<recentOOMs, clock, memFile, sample, last>>

(* The kernel recomputes the pressure averages; a file that is absent      *)
(* (no PSI in this kernel) stays absent.                                   *)
PSIUpdate ==
  /\ memFile.open
  /\ \E s \in MemValues : memFile' = PressureFile(s)
  /\ UNCHANGED <<recentOOMs, clock, sample, last, reply>>

Next ==
  \/ \E pid \in Pids : RecordOOM(pid) \/ GetOOMContext(pid)
  \/ GetRecentOOMs
  \/ PSIUpdate

Spec == Init /\ [][Next]_vars

-----------------------------------------------------------------------------
TypeOK ==
  /\ DOMAIN recentOOMs \subseteq Pids
  /\ recentOOMs \in [DOMAIN recentOOMs -> Context]
  /\ clock \in 0..MaxTime
  /\ memFile \in {PressureFile(s) : s \in MemValues} \cup {Absent}
  /\ last \in [pid : Pids \cup {NoPid}, ctx : Context \cup {Nil}]
  /\ reply \subseteq (Pids \X Context)

(* "keep last 100 OOMs": after any sequence of RecordOOM calls the map     *)
(* holds at most KeepOOMs contexts, so GetRecentOOMs returns at most that  *)
(* many (the eviction after each insert).                                  *)
BoundedRecentOOMs == Cardinality(DOMAIN recentOOMs) <= KeepOOMs

(* The context RecordOOM just returned is the one GetOOMContext returns    *)
(* for that PID until the next RecordOOM: the eviction never removes the   *)
(* entry it was called to add.                                             *)
JustRecordedRetrievable ==
  last.pid # NoPid => last.pid \in DOMAIN recentOOMs /\ recentOOMs[last.pid] = last.ctx

(* The eviction removes an oldest context: no context left in the map is   *)
(* strictly older than the one RecordOOM deleted.                          *)
OldestEvicted ==
  \A p \in DOMAIN recentOOMs \ DOMAIN recentOOMs' :
    p # last'.pid => \A q \in DOMAIN recentOOMs' : recentOOMs[p].ts <= recentOOMs'[q].ts
EvictsOldest == [][OldestEvicted]_vars

(* The pressure recorded with an OOM is "unknown" when the memory          *)
(* pressure file cannot be read (the else branch after GetSystemPressure). *)
UnreadablePressureUnknown ==
  last.pid # NoPid /\ ~memFile.open => last.ctx.pressure = "unknown"

(* The classifiers of node/pressure.go agree: a sample RecordOOM files at  *)
(* level "high" or "critical" is one IsMemoryPressureHigh calls high.      *)
LevelAgreesWithIsHigh ==
  last.pid # NoPid /\ GetMemoryPressureLevel(sample) \in {"high", "critical"} => IsMemoryPressureHigh(sample)
=============================================================================
