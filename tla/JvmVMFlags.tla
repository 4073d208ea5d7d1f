------------------------------ MODULE JvmVMFlags ------------------------------
(***************************************************************************)
(* The string-valued parsers of the vendor-aware ParseJVMParams            *)
(* (src/unnamed/part_000, second copy): the VM.flags parsers per vendor,   *)
(* the command-line fallback parser, the GC classifiers and the vendor     *)
(* detectors.  A result field is a string: "" (None), the flag's text as  *)
(* written (Text) or the "<n>x<multiplier>" string parseSize builds        *)
(* (Product); the two non-empty forms are kept apart because the code      *)
(* reports them differently for the same size.                             *)
(***************************************************************************)
EXTENDS JvmFlags

None       == [k |-> "none", n |-> 0, u |-> ""]
Text(t)    == [k |-> "text", n |-> t.n, u |-> t.u]
Product(t) == [k |-> "prod", n |-> t.n, u |-> t.u]
Str == {None} \cup [k : {"text", "prod"}, n : Nat, u : Units]

ParamsC == [max : Str, init : Str, maxPct : Str, initPct : Str, gc : GCNames]
NoParamsC == [max |-> None, init |-> None, maxPct |-> None, initPct |-> None, gc |-> ""]

(* Fault variant: the size converted to bytes, as the numeric copies do.  *)
ParseSizeBytes(t) == [k |-> "bytes", n |-> t.n * UnitFactor(t.u), u |-> ""]

(* parseSize: a plain number is returned as is, a number with a unit as   *)
(* the product string.                                                     *)
ParseSize(t) == IF t.u = "" THEN Text(t) ELSE Product(t)

-----------------------------------------------------------------------------
(* Fault variant: a field once set is kept (first occurrence wins).       *)
CmdlineStepFirstWins(p, t) ==
  CASE t.f \in {"Xmx", "XXMaxHeapSize"} /\ p.max = None ->
         [p EXCEPT !.max = IF t.f = "Xmx" THEN ParseSize(t) ELSE Text(t)]
    [] t.f \in {"Xms", "XXInitialHeapSize"} /\ p.init = None ->
         [p EXCEPT !.init = IF t.f = "Xms" THEN ParseSize(t) ELSE Text(t)]
    [] t.f = "XXMaxRAMPercentage" /\ p.maxPct = None     -> [p EXCEPT !.maxPct = Text(t)]
    [] t.f = "XXInitialRAMPercentage" /\ p.initPct = None -> [p EXCEPT !.initPct = Text(t)]
    [] OTHER -> p

(* One iteration of the loop of parseFromCmdline: the switch on prefixes.  *)
CmdlineStep(p, t) ==
  CASE t.f = "Xmx"                    -> [p EXCEPT !.max = ParseSize(t)]
    [] t.f = "Xms"                    -> [p EXCEPT !.init = ParseSize(t)]
    [] t.f = "XXMaxHeapSize"          -> [p EXCEPT !.max = Text(t)]
    [] t.f = "XXInitialHeapSize"      -> [p EXCEPT !.init = Text(t)]
    [] t.f = "XXMaxRAMPercentage"     -> [p EXCEPT !.maxPct = Text(t)]
    [] t.f = "XXInitialRAMPercentage" -> [p EXCEPT !.initPct = Text(t)]
    [] OTHER                          -> p

(* parseGCTypeFromCmdline: the first argument that names a GC returns it. *)
PolicyGC(t) ==
  IF Contains(t, "gencon")           THEN "Generational Concurrent (OpenJ9)"
  ELSE IF Contains(t, "optthruput")  THEN "Throughput (OpenJ9)"
  ELSE IF Contains(t, "optavgpause") THEN "Average Pause (OpenJ9)"
  ELSE IF Contains(t, "balanced")    THEN "Balanced (OpenJ9)"
  ELSE ""
CmdlineGC(t) == IF IsEnable(t) THEN EnableOf(t) ELSE PolicyGC(t)
ParseGCTypeFromCmdline(b) ==
  LET S == {i \in DOMAIN b : CmdlineGC(b[i]) # ""} IN
  IF S = {} THEN "Unknown" ELSE CmdlineGC(b[Leftmost(S)])

(* parseFromCmdline.                                                       *)
ParseFromCmdline(b) ==
  LET scan[i \in 0..Len(b)] == IF i = 0 THEN NoParamsC ELSE CmdlineStep(scan[i - 1], b[i])
  IN [scan[Len(b)] EXCEPT !.gc = ParseGCTypeFromCmdline(b)]

-----------------------------------------------------------------------------
(* parseHotSpotGCType: the last explicit enable flag wins; without one the *)
(* first flag that hints at a collector.                                   *)
InferGC(t) ==
  IF Contains(t, "G1") THEN "G1GC"
  ELSE IF Contains(t, "Parallel") /\ ~Contains(t, "-UseParallelGC") THEN "ParallelGC"
  ELSE IF Contains(t, "ConcMarkSweep") \/ Contains(t, "CMS") THEN "ConcMarkSweepGC"
  ELSE IF Contains(t, "Serial") /\ ~Contains(t, "-UseSerialGC") THEN "SerialGC"
  ELSE ""
ParseHotSpotGCType(b) ==
  LET E == {i \in DOMAIN b : IsEnable(b[i])}
      I == {i \in DOMAIN b : InferGC(b[i]) # ""}
  IN IF E # {} THEN EnableOf(b[Rightmost(E)])
     ELSE IF I # {} THEN InferGC(b[Leftmost(I)])
     ELSE "Unknown"

(* parseOpenJ9GCType: the first flag naming a -Xgcpolicy.                  *)
ParseOpenJ9GCType(b) ==
  LET S == {i \in DOMAIN b : PolicyGC(b[i]) # ""} IN
  IF S = {} THEN "Unknown (OpenJ9)" ELSE PolicyGC(b[Leftmost(S)])

ParseGCType(b, vendor) ==
  IF vendor = "OpenJ9" THEN ParseOpenJ9GCType(b) ELSE ParseHotSpotGCType(b)

-----------------------------------------------------------------------------
(* parseHotSpotVMFlags: the if/else chain over -XX: flags, last wins.      *)
HotSpotStep(p, t) ==
  CASE t.f = "XXMaxHeapSize"          -> [p EXCEPT !.max = Text(t)]
    [] t.f = "XXMinHeapSize"          -> [p EXCEPT !.init = Text(t)]
    [] t.f = "XXInitialHeapSize"      -> [p EXCEPT !.init = Text(t)]
    [] t.f = "XXMaxRAMPercentage"     -> [p EXCEPT !.maxPct = Text(t)]
    [] t.f = "XXInitialRAMPercentage" -> [p EXCEPT !.initPct = Text(t)]
    [] OTHER                          -> p
ParseHotSpotVMFlags(b) ==
  LET scan[i \in 0..Len(b)] == IF i = 0 THEN NoParamsC ELSE HotSpotStep(scan[i - 1], b[i])
  IN scan[Len(b)]

(* parseOpenJ9VMFlags: -Xmx/-Xms through parseSize, and -XX:MaxHeapSize / *)
(* -XX:InitialHeapSize as written.                                         *)
OpenJ9Step(p, t) ==
  CASE t.f = "Xmx"               -> [p EXCEPT !.max = ParseSize(t)]
    [] t.f = "Xms"               -> [p EXCEPT !.init = ParseSize(t)]
    [] t.f = "XXMaxHeapSize"     -> [p EXCEPT !.max = Text(t)]
    [] t.f = "XXInitialHeapSize" -> [p EXCEPT !.init = Text(t)]
    [] OTHER                     -> p
ParseOpenJ9VMFlags(b) ==
  LET scan[i \in 0..Len(b)] == IF i = 0 THEN NoParamsC ELSE OpenJ9Step(scan[i - 1], b[i])
  IN scan[Len(b)]

(* parseVMFlagsOutput: empty output gives the zero record (GCType "");     *)
(* GraalVM is parsed as HotSpot.                                           *)
ParseVMFlagsOutput(b, vendor) ==
  IF b = <<>> THEN NoParamsC
  ELSE LET p == IF vendor = "OpenJ9" THEN ParseOpenJ9VMFlags(b) ELSE ParseHotSpotVMFlags(b)
       IN [p EXCEPT !.gc = ParseGCType(b, vendor)]

-----------------------------------------------------------------------------
(* detectJVMVendorWithSystemProperties, the system-properties switch (a    *)
(* properties dump always holds java.vm.name and java.vendor); Unknown    *)
(* lets the caller go on to the version.                                   *)
PropsVendor(W) ==
  IF W \cap {"openj9", "eclipse", "ibm"} # {} THEN "OpenJ9"
  ELSE IF "graalvm" \in W                     THEN "GraalVM"
  ELSE IF W \cap {"hotspot", "openjdk"} # {}   THEN "HotSpot"
  ELSE IF "oracle" \in W                      THEN "HotSpot"
  ELSE "Unknown"
(* ... and the VM.version switch.                                          *)
VersionVendor(W) ==
  IF W \cap {"openj9", "eclipse", "ibm"} # {} THEN "OpenJ9"
  ELSE IF "graalvm" \in W                     THEN "GraalVM"
  ELSE IF W \cap {"hotspot", "openjdk"} # {}   THEN "HotSpot"
  ELSE "Unknown"

(* detectJVMVendor over the VM.flags text.                                 *)
DetectJVMVendor(b) ==
  LET W == {b[i].w : i \in DOMAIN b} IN
  IF W \cap {"openj9", "eclipse", "ibm"} # {}         THEN "OpenJ9"
  ELSE IF "graalvm" \in W                             THEN "GraalVM"
  ELSE IF W \cap {"hotspot", "openjdk", "oracle"} # {} THEN "HotSpot"
  ELSE IF Positions(b, {"XXMaxHeapSize", "XXInitialHeapSize"}) # {} THEN "HotSpot"
  ELSE "Unknown"

(* The command-line fallback of ParseJVMParams: taken only when the live  *)
(* dump gave neither heap size; then every non-empty command-line field    *)
(* overwrites, and the GC type replaces an "Unknown" one.                  *)
FallbackMerge(p, c) ==
  IF p.max = None /\ p.init = None
  THEN [max     |-> IF c.max # None THEN c.max ELSE p.max,
        init    |-> IF c.init # None THEN c.init ELSE p.init,
        maxPct  |-> IF c.maxPct # None THEN c.maxPct ELSE p.maxPct,
        initPct |-> IF c.initPct # None THEN c.initPct ELSE p.initPct,
        gc      |-> IF p.gc = "Unknown" /\ c.gc # "Unknown" THEN c.gc ELSE p.gc]
  ELSE p
=============================================================================
