------------------------------ MODULE MCProcJvm ------------------------------
(* Executables: the three versioned bases, a plain runtime name (kotlin,   *)
(* which kotlinc extends by a "c") and a non-runtime (node), each with     *)
(* every suffix of up to three characters.  Arguments: up to two of a     *)
(* plain word, -cp (no indicator), -jar, -Xms, -XX:MaxRAMPercentage,       *)
(* -Xgcpolicy:gencon (a GC flag without "-XX:") and both                   *)
(* PreserveFramePointer settings.                                          *)
EXTENDS ProcJvm

MCBases == {"java", "openjdk", "kotlin", "node"}

A(f, n, u) == [f |-> f, n |-> n, u |-> u, w |-> "none"]
MCArgs == {A("Arg", 0, ""), A("-cp", 0, ""), A("-jar", 0, ""), A("Xms", 1, "m"),
           A("XXMaxRAMPercentage", 50, ""), A("Xgcpolicy:gencon", 0, ""),
           A("XX+PreserveFramePointer", 0, ""), A("XX-PreserveFramePointer", 0, "")}

SeqsUpTo(S, n) == UNION {[1..k -> S] : k \in 0..n}

MCCmdLines ==
  [nul : BOOLEAN,
   exe : [base : MCBases, suffix : SeqsUpTo({"-", "_", ".", "d", "c"}, 3)],
   args : SeqsUpTo(MCArgs, 2)]
=============================================================================
