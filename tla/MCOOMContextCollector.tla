------------------------ MODULE MCOOMContextCollector ------------------------
(* Three PIDs against a map bound of two, so that the third distinct OOM   *)
(* triggers the eviction scan; pressure files at each rung of the level    *)
(* chain, with full <= some as the kernel's PSI accounting guarantees.     *)
EXTENDS OOMContextCollector

MCPids == {1, 2, 3}

Mem(s10, s60, s300, f10) ==
  [some |-> [avg10 |-> s10, avg60 |-> s60, avg300 |-> s300],
   full |-> [avg10 |-> f10, avg60 |-> 0, avg300 |-> 0]]

(* no pressure; low; a full stall of 2.00% in the last 10 s with some at   *)
(* 5.00%; medium; and a 300 s average above 1% alone.                      *)
MCMemValues == {Mem(0, 0, 0, 0), Mem(500, 200, 50, 0), Mem(500, 200, 50, 200),
                Mem(1500, 800, 200, 0), Mem(200, 100, 150, 0)}
=============================================================================
