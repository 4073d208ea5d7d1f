------------------------------ MODULE JvmFlags ------------------------------
(***************************************************************************)
(* The pure parsers of the JVM configuration engine: flag tokens, size     *)
(* literals, the heap resolvers of parseJVMParamsFromString (both copies   *)
(* in the repository), the command-line fallback parser, the VM.flags      *)
(* parsers, the GC classifiers and the vendor detectors.                   *)
(*                                                                         *)
(* A command line, an environment value or a VM.flags dump is a sequence   *)
(* of whitespace-separated tokens.  A token is a record [f, n, u, w]: the   *)
(* form f names the spelling the code's regexes and substring tests tell   *)
(* apart; n and u are the number and unit of a size literal (a percentage  *)
(* is n with no unit); w is the vendor word of free text ("none"           *)
(* otherwise).  A token's index in the sequence stands for the             *)
(* character offset the code compares: offsets of distinct tokens are      *)
(* ordered as their indices.                                               *)
(***************************************************************************)
EXTENDS Integers, Sequences, FiniteSets

(* Size literals <n><unit>; units are the ones the regexes accept.         *)
Units == {"", "k", "m"}
(* The unit switch, case by case in the code's order; "" is the only     *)
(* other member of Units.                                                  *)
UnitFactor(u) == IF u = "k" THEN 1024 ELSE IF u = "m" THEN 1024 * 1024 ELSE 1

(* The spellings the code distinguishes.                                   *)
SizeForms == {"Xmx", "Xms", "XXMaxHeapSize", "XXMinHeapSize", "XXInitialHeapSize"}
PctForms  == {"XXMaxRAMPercentage", "XXInitialRAMPercentage"}
GCForms   == {"XX+UseG1GC", "XX-UseG1GC", "XX+UseParallelGC", "XX-UseParallelGC",
              "XX+UseSerialGC", "XX-UseSerialGC", "XX+UseZGC", "XX+UseConcMarkSweepGC",
              "XXG1HeapRegionSize", "XXParallelGCThreads",
              "Xgcpolicy:gencon", "Xgcpolicy:balanced"}
(* XXOther: any other -XX: option; Word: free text of a dump (vendor       *)
(* names); Arg: anything else (java, -jar, MyApp).                         *)
Forms == SizeForms \cup PctForms \cup GCForms \cup {"XXOther", "Word", "Arg"}

(* The tokens matched by (?:^|\s)-XX:[+-]?[A-Za-z][A-Za-z0-9]*(?:=[^\s]+)? *)
XXForms == {f \in Forms : f \notin {"Xmx", "Xms", "Xgcpolicy:gencon",
                                    "Xgcpolicy:balanced", "Word", "Arg"}}

(* The substrings the GC classifiers test with strings.Contains, per form. *)
Patterns(f) ==
  CASE f = "XX+UseG1GC"           -> {"+UseG1GC", "G1"}
    [] f = "XX-UseG1GC"           -> {"G1"}
    [] f = "XX+UseParallelGC"     -> {"+UseParallelGC", "Parallel"}
    [] f = "XX-UseParallelGC"     -> {"-UseParallelGC", "Parallel"}
    [] f = "XX+UseSerialGC"       -> {"+UseSerialGC", "Serial"}
    [] f = "XX-UseSerialGC"       -> {"-UseSerialGC", "Serial"}
    [] f = "XX+UseZGC"            -> {"+UseZGC"}
    [] f = "XX+UseConcMarkSweepGC" -> {"+UseConcMarkSweepGC", "ConcMarkSweep"}
    [] f = "XXG1HeapRegionSize"   -> {"G1"}
    [] f = "XXParallelGCThreads"  -> {"Parallel"}
    [] f = "Xgcpolicy:gencon"     -> {"gencon"}
    [] f = "Xgcpolicy:balanced"   -> {"balanced"}
    [] OTHER                      -> {}
Contains(t, p) == p \in Patterns(t.f)

VendorWords == {"openj9", "eclipse", "ibm", "graalvm", "hotspot", "openjdk", "oracle"}

Token == [f : Forms, n : Nat, u : Units, w : VendorWords \cup {"none"}]
Vendors == {"Unknown", "HotSpot", "OpenJ9", "GraalVM"}

HotSpotGCs == {"ZGC", "ShenandoahGC", "G1GC", "ParallelGC", "ParallelOldGC",
               "ConcMarkSweepGC", "SerialGC"}
OpenJ9GCs  == {"Generational Concurrent (OpenJ9)", "Throughput (OpenJ9)",
               "Average Pause (OpenJ9)", "Balanced (OpenJ9)", "Unknown (OpenJ9)"}
GCNames    == HotSpotGCs \cup OpenJ9GCs \cup {"Unknown", ""}

(* The HotSpot enable flags, in the order of the gcFlags table.            *)
EnableFlags == <<"+UseZGC", "+UseShenandoahGC", "+UseG1GC", "+UseParallelGC",
                 "+UseParallelOldGC", "+UseConcMarkSweepGC", "+UseSerialGC">>
EnabledGC(p) == CASE p = "+UseZGC" -> "ZGC" [] p = "+UseShenandoahGC" -> "ShenandoahGC"
                  [] p = "+UseG1GC" -> "G1GC" [] p = "+UseParallelGC" -> "ParallelGC"
                  [] p = "+UseParallelOldGC" -> "ParallelOldGC"
                  [] p = "+UseConcMarkSweepGC" -> "ConcMarkSweepGC"
                  [] p = "+UseSerialGC" -> "SerialGC"
IsEnable(t) == \E i \in DOMAIN EnableFlags : Contains(t, EnableFlags[i])
EnableOf(t) == EnabledGC(CHOOSE p \in {EnableFlags[i] : i \in DOMAIN EnableFlags} : Contains(t, p))

-----------------------------------------------------------------------------
(* Helpers on token sequences.                                             *)
Positions(b, F) == {i \in DOMAIN b : b[i].f \in F}
Rightmost(S) == CHOOSE i \in S : \A j \in S : j <= i
Leftmost(S)  == CHOOSE i \in S : \A j \in S : i <= j

(* parseMemorySize: the literal <n><unit> of token t to bytes.             *)
ParseMemorySize(t) == t.n * UnitFactor(t.u)

-----------------------------------------------------------------------------
(* parseJVMParamsFromString (both copies).  The rightmost-position loop:   *)
(* among all occurrences of the spellings F, the value at the greatest     *)
(* position; 0 when there is none.                                         *)
RightmostSize(b, F) ==
  LET P == Positions(b, F) IN
  IF P = {} THEN 0 ELSE ParseMemorySize(b[Rightmost(P)])
RightmostPos(b, F) == LET P == Positions(b, F) IN IF P = {} THEN -1 ELSE Rightmost(P)

MaxHeapFormsD     == {"Xmx", "XXMaxHeapSize"}
InitialHeapFormsD == {"Xms", "XXMinHeapSize"}

(* XXOptions: every -XX: token, in order (the regexp's FindAllString).    *)
(* It is SelectSeq(b, LAMBDA t : t.f \in XXForms), written as the scan     *)
(* that defines SelectSeq in Sequences so that proofs can unfold it.       *)
XXOptions(b) ==
  LET sel[i \in 0..Len(b)] ==
        IF i = 0 THEN << >>
        ELSE IF b[i].f \in XXForms THEN Append(sel[i - 1], b[i]) ELSE sel[i - 1]
  IN sel[Len(b)]

(* Fault variant: a missing percentage read as -1.                         *)
ParsePercentageMinusOne(xx, f) ==
  LET P == Positions(xx, {f}) IN IF P = {} THEN -1 ELSE xx[Rightmost(P)].n

(* parsePercentage over XXOptions: the last occurrence, 0 when none.       *)
ParsePercentage(xx, f) ==
  LET P == Positions(xx, {f}) IN IF P = {} THEN 0 ELSE xx[Rightmost(P)].n

(* The precedence step of the copy in src/unnamed/part_000: explicit size  *)
(* wins, except that a MaxRAMPercentage after several explicit max sizes   *)
(* wins; for the initial heap only a lone percentage gives the sentinel.   *)
(* Fault variant: the trailing percentage wins over a single explicit size. *)
MaxHeapPrecedenceAnyCount(b) ==
  LET size == RightmostSize(b, MaxHeapFormsD)
      pct  == ParsePercentage(XXOptions(b), "XXMaxRAMPercentage")
  IN IF pct > 0 /\ \/ size = 0
                   \/ RightmostPos(b, {"XXMaxRAMPercentage"}) > RightmostPos(b, MaxHeapFormsD)
     THEN -1 ELSE size
(* Fault variant: any initial percentage gives the sentinel.               *)
InitialHeapPrecedenceAlways(b) ==
  LET size == RightmostSize(b, InitialHeapFormsD)
      pct  == ParsePercentage(XXOptions(b), "XXInitialRAMPercentage")
  IN IF pct > 0 THEN -1 ELSE size

MaxHeapPrecedence(b) ==
  LET size == RightmostSize(b, MaxHeapFormsD)
      pct  == ParsePercentage(XXOptions(b), "XXMaxRAMPercentage")
  IN IF pct > 0 /\ \/ size = 0
                   \/ /\ Cardinality(Positions(b, MaxHeapFormsD)) > 1
                      /\ RightmostPos(b, {"XXMaxRAMPercentage"}) > RightmostPos(b, MaxHeapFormsD)
     THEN -1 ELSE size
InitialHeapPrecedence(b) ==
  LET size == RightmostSize(b, InitialHeapFormsD)
      pct  == ParsePercentage(XXOptions(b), "XXInitialRAMPercentage")
  IN IF pct > 0 /\ size = 0 THEN -1 ELSE size

ParseJVMParamsFromStringD(b) ==
  [max     |-> MaxHeapPrecedence(b),
   init    |-> InitialHeapPrecedence(b),
   maxPct  |-> ParsePercentage(XXOptions(b), "XXMaxRAMPercentage"),
   initPct |-> ParsePercentage(XXOptions(b), "XXInitialRAMPercentage"),
   xx      |-> XXOptions(b)]

(* The precedence step of src/containers/jvm_param_parser.go: any positive *)
(* percentage replaces the size by the sentinel.                           *)
SentinelIfPercentage(size, pct) == IF pct > 0 THEN -1 ELSE size

ParseJVMParamsFromStringA(b) ==
  LET maxPct  == ParsePercentage(XXOptions(b), "XXMaxRAMPercentage")
      initPct == ParsePercentage(XXOptions(b), "XXInitialRAMPercentage")
  IN [max     |-> SentinelIfPercentage(RightmostSize(b, MaxHeapFormsD), maxPct),
      init    |-> SentinelIfPercentage(RightmostSize(b, InitialHeapFormsD), initPct),
      maxPct  |-> maxPct,
      initPct |-> initPct,
      xx      |-> XXOptions(b)]

(* parseJVMParams: the environment variables in their fixed order, each    *)
(* non-empty value appended, then the command line.                        *)
EnvVars == <<"JAVA_TOOL_OPTIONS", "_JAVA_OPTIONS", "JDK_JAVA_OPTIONS", "IBM_JAVA_OPTIONS">>
(* Fault variant: the command line put first.                              *)
CombinedArgsCmdlineFirst(env, cmdline) ==
  cmdline \o env[EnvVars[1]] \o env[EnvVars[2]] \o env[EnvVars[3]] \o env[EnvVars[4]]
CombinedArgs(env, cmdline) ==
  env[EnvVars[1]] \o env[EnvVars[2]] \o env[EnvVars[3]] \o env[EnvVars[4]] \o cmdline
=============================================================================
