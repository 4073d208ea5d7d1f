----------------------------- MODULE NodePressure -----------------------------
(***************************************************************************)
(* node/pressure.go: the pressure-stall (PSI) readers and the memory       *)
(* pressure classifiers.  An average is a percentage with two decimals,    *)
(* kept as an integer number of hundredths (12.34 is 1234): the kernel     *)
(* prints two decimals, so the comparisons with the thresholds are exact.  *)
(* The total counter is left out: no classifier reads it.                  *)
(***************************************************************************)
EXTENDS Integers

Metrics == [avg10 : Nat, avg60 : Nat, avg300 : Nat]
Stats   == [some : Metrics, full : Metrics]

ZeroMetrics == [avg10 |-> 0, avg60 |-> 0, avg300 |-> 0]
ZeroStats   == [some |-> ZeroMetrics, full |-> ZeroMetrics]

(* /proc/pressure/memory: whether it can be opened (not in a kernel        *)
(* without PSI) and the stats its lines hold.                              *)
PressureFile(s) == [open |-> TRUE, stats |-> s]
Absent == [open |-> FALSE, stats |-> ZeroStats]

(* readPressureFile: an unopenable file is an error; the lines of a        *)
(* readable one fill the some and full records.                            *)
ReadPressureFile(file) == IF file.open THEN file.stats ELSE ZeroStats

(* GetSystemPressure: a file that cannot be read leaves its resource at    *)
(* zero and the call still succeeds (it never returns an error).  Only the *)
(* memory resource is modelled.                                            *)
GetSystemPressure(memFile) == [memory |-> ReadPressureFile(memFile), err |-> FALSE]

(* IsMemoryPressureHigh.                                                   *)
IsMemoryPressureHigh(p) ==
  \/ p.memory.some.avg10 > 1000
  \/ p.memory.some.avg60 > 500
  \/ p.memory.some.avg300 > 100

(* GetMemoryPressureLevel: the first matching rung of the if/else chain.   *)
GetMemoryPressureLevel(p) ==
  LET s == p.memory.some
      f == p.memory.full
  IN IF s.avg10 > 5000 \/ f.avg10 > 1000      THEN "critical"
     ELSE IF s.avg10 > 2000 \/ f.avg10 > 100  THEN "high"
     ELSE IF s.avg10 > 1000 \/ s.avg60 > 500  THEN "medium"
     ELSE IF s.avg10 > 0 \/ s.avg60 > 0       THEN "low"
     ELSE "none"

PressureLevels == {"none", "low", "medium", "high", "critical", "unknown"}
=============================================================================
