---------------------- MODULE MCJvmParamsOrchestrator ----------------------
(* JVM profiles for ParseJVMParams: what each vendor's jcmd prints, and   *)
(* short command lines.                                                    *)
EXTENDS JvmParamsOrchestrator

Tok(f, n, u) == [f |-> f, n |-> n, u |-> u, w |-> "none"]
Xmx1m       == Tok("Xmx", 1, "m")
Xms1k       == Tok("Xms", 1, "k")
MaxHeap1024 == Tok("XXMaxHeapSize", 1024, "")
InitHeap16  == Tok("XXInitialHeapSize", 16, "")
MaxPct50    == Tok("XXMaxRAMPercentage", 50, "")
UseG1       == Tok("XX+UseG1GC", 0, "")
UseSerial   == Tok("XX+UseSerialGC", 0, "")
UseParallel == Tok("XX+UseParallelGC", 0, "")
RegionSize  == Tok("XXG1HeapRegionSize", 1, "m")
Gencon      == Tok("Xgcpolicy:gencon", 0, "")

SeqsUpTo(S, n) == UNION {[1..k -> S] : k \in 0..n}

(* VM.flags output: HotSpot prints sizes in bytes and the chosen GC, or    *)
(* only tuning flags; OpenJ9 prints -X options; a dump may be empty.       *)
HotSpotDumps == {<<InitHeap16, MaxHeap1024, UseG1>>, <<RegionSize>>, <<MaxPct50, UseSerial>>}
OpenJ9Dumps  == {<<Xmx1m, Xms1k, Gencon>>, <<Xms1k>>, <<>>}

Profiles ==
  {[kind |-> "HotSpot", props |-> {"hotspot", "oracle"}, version |-> {"hotspot"}, dumps |-> HotSpotDumps],
   [kind |-> "HotSpot", props |-> {"eclipse", "openjdk"}, version |-> {"openjdk"}, dumps |-> HotSpotDumps],
   [kind |-> "OpenJ9",  props |-> {"openj9", "eclipse", "ibm"}, version |-> {"openj9"}, dumps |-> OpenJ9Dumps],
   [kind |-> "GraalVM", props |-> {"graalvm", "oracle"}, version |-> {"graalvm"}, dumps |-> HotSpotDumps],
   \* a properties dump that names no vendor the switch knows (Azul Zulu's
   \* java.vendor "Azul Systems"), so VM.version decides
   [kind |-> "HotSpot", props |-> {}, version |-> {"openjdk"}, dumps |-> HotSpotDumps]}

MCCmdLines == SeqsUpTo({Xmx1m, MaxHeap1024, Xms1k, UseSerial, UseParallel}, 2)

MCJVMs ==
  UNION {{[kind |-> p.kind, cmdline |-> c, flags |-> d, props |-> p.props, version |-> p.version] :
            c \in MCCmdLines, d \in p.dumps} : p \in Profiles}
=============================================================================
