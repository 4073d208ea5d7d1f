---------------------------- MODULE JvmVMFlags_proofs ----------------------------
(***************************************************************************)
(* Proofs about the parsers of the vendor-aware ParseJVMParams             *)
(* (src/unnamed/part_000), for every token sequence.                       *)
(***************************************************************************)
EXTENDS JvmVMFlags, TLAPS

CmdLoop     == INSTANCE LoopScan WITH Step <- CmdlineStep, c <- NoParamsC
HotSpotLoop == INSTANCE LoopScan WITH Step <- HotSpotStep, c <- NoParamsC
OpenJ9Loop  == INSTANCE LoopScan WITH Step <- OpenJ9Step, c <- NoParamsC

LEMMA CmdlineIsLoop ==
  ASSUME NEW b
  PROVE  ParseFromCmdline(b) = [CmdLoop!Scan(b)[Len(b)] EXCEPT !.gc = ParseGCTypeFromCmdline(b)]
BY DEF ParseFromCmdline, CmdLoop!Scan

-----------------------------------------------------------------------------
(* The value of a size flag, parsed or as written, is a result string.     *)
LEMMA StrFacts ==
  ASSUME NEW t \in Token
  PROVE  ParseSize(t) \in Str /\ Text(t) \in Str /\ None \in Str
BY DEF ParseSize, Text, Product, None, Str, Token

LEMMA NoParamsType == NoParamsC \in ParamsC
BY DEF NoParamsC, ParamsC, None, Str, GCNames

(* Each loop body keeps a well-formed result record.                       *)
LEMMA StepsType ==
  ASSUME NEW p \in ParamsC, NEW t \in Token
  PROVE  /\ CmdlineStep(p, t) \in ParamsC
         /\ HotSpotStep(p, t) \in ParamsC
         /\ OpenJ9Step(p, t) \in ParamsC
<1>1. ParseSize(t) \in Str /\ Text(t) \in Str
  BY StrFacts
<1> QED
  BY <1>1 DEF CmdlineStep, HotSpotStep, OpenJ9Step, ParamsC

(* The rightmost and the leftmost of a non-empty set of positions are      *)
(* positions of the set, the greatest and the least.                       *)
LEMMA ExtremeFacts ==
  ASSUME NEW b \in Seq(Token), NEW S \in SUBSET DOMAIN b, S # {}
  PROVE  /\ Rightmost(S) \in S /\ \A j \in S : j <= Rightmost(S)
         /\ Leftmost(S) \in S /\ \A j \in S : Leftmost(S) <= j
<1>1. Len(b) \in Nat /\ S \in SUBSET (0..Len(b))
  OBVIOUS
<1>2. \E m \in S : \A k \in S : k <= m
  BY <1>1, CmdLoop!GreatestElement
<1>3. \E m \in S : \A k \in S : m <= k
  BY <1>1, CmdLoop!LeastElement
<1> QED
  BY <1>2, <1>3 DEF Rightmost, Leftmost

(* The collectors the classifiers name.                                    *)
LEMMA EnableOfType ==
  ASSUME NEW t, IsEnable(t)
  PROVE  EnableOf(t) \in HotSpotGCs
<1>1. \E p \in {EnableFlags[i] : i \in DOMAIN EnableFlags} : Contains(t, p)
  BY DEF IsEnable
<1> QED
  BY <1>1 DEF EnableOf, EnabledGC, EnableFlags, HotSpotGCs

LEMMA CmdlineGCType ==
  ASSUME NEW t
  PROVE  CmdlineGC(t) \in GCNames
BY EnableOfType DEF CmdlineGC, PolicyGC, GCNames, OpenJ9GCs

LEMMA GCTypesType ==
  ASSUME NEW b \in Seq(Token), NEW vendor
  PROVE  /\ ParseGCTypeFromCmdline(b) \in GCNames
         /\ ParseGCType(b, vendor) \in GCNames
<1>1. ParseGCTypeFromCmdline(b) \in GCNames
  BY CmdlineGCType DEF ParseGCTypeFromCmdline, GCNames
<1>2. ParseOpenJ9GCType(b) \in GCNames
  BY DEF ParseOpenJ9GCType, PolicyGC, GCNames, OpenJ9GCs
<1>3. ParseHotSpotGCType(b) \in GCNames
  <2> DEFINE E == {i \in DOMAIN b : IsEnable(b[i])}
             I == {i \in DOMAIN b : InferGC(b[i]) # ""}
  <2>1. CASE E # {}
    <3>1. Rightmost(E) \in E
      BY <2>1, ExtremeFacts
    <3>2. EnableOf(b[Rightmost(E)]) \in HotSpotGCs
      BY <3>1, EnableOfType
    <3>3. ParseHotSpotGCType(b) = EnableOf(b[Rightmost(E)])
      BY <2>1 DEF ParseHotSpotGCType, E
    <3> QED
      BY <3>2, <3>3 DEF GCNames
  <2>2. CASE E = {}
    <3>1. \A x : InferGC(x) \in GCNames
      BY DEF InferGC, GCNames, HotSpotGCs
    <3>2. CASE I # {}
      <4>1. ParseHotSpotGCType(b) = InferGC(b[Leftmost(I)])
        BY <2>2, <3>2 DEF ParseHotSpotGCType
      <4> QED
        BY <3>1, <4>1
    <3>3. CASE I = {}
      <4>1. ParseHotSpotGCType(b) = "Unknown"
        BY <2>2, <3>3 DEF ParseHotSpotGCType
      <4> QED
        BY <4>1 DEF GCNames
    <3> QED
      BY <3>2, <3>3
  <2> QED
    BY <2>1, <2>2
<1> QED
  BY <1>1, <1>2, <1>3 DEF ParseGCType

(* The parsers return well-formed result records.                          *)
LEMMA ParseFromCmdlineType ==
  ASSUME NEW b \in Seq(Token)
  PROVE  ParseFromCmdline(b) \in ParamsC
<1>1. CmdLoop!Scan(b)[Len(b)] \in ParamsC
  BY NoParamsType, StepsType, CmdLoop!ScanType
<1>2. ParseGCTypeFromCmdline(b) \in GCNames
  BY GCTypesType
<1> QED
  BY <1>1, <1>2, CmdlineIsLoop DEF ParamsC

LEMMA ParseVMFlagsOutputType ==
  ASSUME NEW b \in Seq(Token), NEW vendor
  PROVE  ParseVMFlagsOutput(b, vendor) \in ParamsC
<1>1. ParseHotSpotVMFlags(b) = HotSpotLoop!Scan(b)[Len(b)]
      /\ ParseOpenJ9VMFlags(b) = OpenJ9Loop!Scan(b)[Len(b)]
  BY DEF ParseHotSpotVMFlags, ParseOpenJ9VMFlags, HotSpotLoop!Scan, OpenJ9Loop!Scan
<1>2. ParseHotSpotVMFlags(b) \in ParamsC /\ ParseOpenJ9VMFlags(b) \in ParamsC
  BY <1>1, NoParamsType, StepsType, HotSpotLoop!ScanType, OpenJ9Loop!ScanType
<1>3. ParseGCType(b, vendor) \in GCNames
  BY GCTypesType
<1> QED
  BY <1>2, <1>3, NoParamsType DEF ParseVMFlagsOutput, ParamsC

LEMMA FallbackMergeType ==
  ASSUME NEW p \in ParamsC, NEW q \in ParamsC
  PROVE  FallbackMerge(p, q) \in ParamsC
BY DEF FallbackMerge, ParamsC

LEMMA VendorsType ==
  ASSUME NEW W, NEW b
  PROVE  PropsVendor(W) \in Vendors /\ VersionVendor(W) \in Vendors /\ DetectJVMVendor(b) \in Vendors
BY DEF PropsVendor, VersionVendor, DetectJVMVendor, Vendors
=============================================================================
