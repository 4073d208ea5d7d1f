------------------------ MODULE JvmParamsOrchestrator ------------------------
(***************************************************************************)
(* ParseJVMParams(cmdline, pid), the vendor-aware copy in                  *)
(* src/unnamed/part_000: attach to the JVM for VM.flags; on failure parse  *)
(* the command line only.  Otherwise detect the vendor from the system     *)
(* properties, then VM.version, then the flags text; parse the flags the   *)
(* vendor's way; and when they gave no heap size, fill fields from the     *)
(* command line.  Each jvm.Get* call dials the JVM anew and may fail on    *)
(* its own (jvm/perfmap.go).  The caller polls every interval.             *)
(***************************************************************************)
EXTENDS JvmVMFlags

CONSTANT
  JVMs   \* the JVM processes the agent may inspect: the true vendor, the
         \* command line, and what VM.flags, VM.system_properties and
         \* VM.version print

ASSUME JVMsAssumption ==
  JVMs \subseteq [kind : Vendors \ {"Unknown"}, cmdline : Seq(Token), flags : Seq(Token),
                  props : SUBSET VendorWords, version : SUBSET VendorWords]

VARIABLES
  jvm,       \* the inspected process
  pc,        \* where ParseJVMParams is
  attached,  \* GetVMFlags succeeded in this invocation
  vmFlags,   \* the VM.flags output
  vendor,    \* the detected vendor
  params     \* the JVMParams last returned

vars == <<jvm, pc, attached, vmFlags, vendor, params>>

Init ==
  /\ jvm \in JVMs
  /\ pc = "idle"
  /\ attached = FALSE
  /\ vmFlags = <<>>
  /\ vendor = "Unknown"
  /\ params = NoParamsC

(* Fault variant: the zero record returned when the attach fails.        *)
GetVMFlagsZeroOnError ==
  /\ pc = "idle"
  /\ \/ /\ attached' = TRUE
        /\ vmFlags' = jvm.flags
        /\ pc' = "props"
        /\ UNCHANGED params
     \/ /\ attached' = FALSE
        /\ params' = NoParamsC
        /\ pc' = "done"
        /\ UNCHANGED vmFlags
  /\ UNCHANGED <<jvm, vendor>>

(* jvm.GetVMFlags: Dial, VM.flags, Close.  An error returns the command-   *)
(* line parse.                                                             *)
GetVMFlags ==
  /\ pc = "idle"
  /\ \/ /\ attached' = TRUE
        /\ vmFlags' = jvm.flags
        /\ pc' = "props"
        /\ UNCHANGED params
     \/ /\ attached' = FALSE
        /\ params' = ParseFromCmdline(jvm.cmdline)
        /\ pc' = "done"
        /\ UNCHANGED vmFlags
  /\ UNCHANGED <<jvm, vendor>>

(* jvm.GetSystemProperties inside detectJVMVendorWithSystemProperties: an  *)
(* error gives Unknown at once (VM.version is not tried); an unrecognised  *)
(* dump goes on to VM.version.                                             *)
GetSystemProperties ==
  /\ pc = "props"
  /\ \/ /\ PropsVendor(jvm.props) # "Unknown"
        /\ vendor' = PropsVendor(jvm.props)
        /\ pc' = "parse"
     \/ /\ PropsVendor(jvm.props) = "Unknown"
        /\ pc' = "version"
        /\ UNCHANGED vendor
     \/ /\ vendor' = "Unknown"
        /\ pc' = "parse"
  /\ UNCHANGED <<jvm, attached, vmFlags, params>>

(* jvm.GetVersion: an error or an unrecognised version gives Unknown.      *)
GetVersion ==
  /\ pc = "version"
  /\ \/ vendor' = VersionVendor(jvm.version)
     \/ vendor' = "Unknown"
  /\ pc' = "parse"
  /\ UNCHANGED <<jvm, attached, vmFlags, params>>

(* The rest of ParseJVMParams: flags-based vendor detection when still     *)
(* Unknown, parseVMFlagsOutput, and the command-line fallback.             *)
ParseVMFlags ==
  /\ pc = "parse"
  /\ LET v == IF vendor = "Unknown" THEN DetectJVMVendor(vmFlags) ELSE vendor
     IN /\ vendor' = v
        /\ params' = FallbackMerge(ParseVMFlagsOutput(vmFlags, v), ParseFromCmdline(jvm.cmdline))
  /\ pc' = "done"
  /\ UNCHANGED <<jvm, attached, vmFlags>>

(* The next poll invokes ParseJVMParams afresh.                            *)
Repoll ==
  /\ pc = "done"
  /\ pc' = "idle"
  /\ attached' = FALSE
  /\ vmFlags' = <<>>
  /\ vendor' = "Unknown"
  /\ UNCHANGED <<jvm, params>>

Next == GetVMFlags \/ GetSystemProperties \/ GetVersion \/ ParseVMFlags \/ Repoll

Spec == Init /\ [][Next]_vars

PCs == {"idle", "props", "version", "parse", "done"}

-----------------------------------------------------------------------------
TypeOK ==
  /\ jvm \in JVMs
  /\ pc \in PCs
  /\ attached \in BOOLEAN
  /\ vmFlags \in Seq(Token)
  /\ vendor \in Vendors
  /\ params \in ParamsC

(* What the live dump alone yields, with the vendor finally detected.      *)
Live == ParseVMFlagsOutput(vmFlags, vendor)
Cmd  == ParseFromCmdline(jvm.cmdline)

(* When the attach fails, each reported heap field is the command line's   *)
(* rightmost setting of it, whichever spelling (-Xmx or -XX:MaxHeapSize,   *)
(* -Xms or -XX:InitialHeapSize) came last (parseFromCmdline).              *)
RightmostText(b, F, conv(_)) ==
  LET P == Positions(b, F) IN IF P = {} THEN None ELSE conv(b[Rightmost(P)])
AsWritten(t) == IF t.f \in {"Xmx", "Xms"} THEN ParseSize(t) ELSE Text(t)
CommandLineFallbackRightmost ==
  pc = "done" /\ ~attached =>
    /\ params.max = RightmostText(jvm.cmdline, {"Xmx", "XXMaxHeapSize"}, AsWritten)
    /\ params.init = RightmostText(jvm.cmdline, {"Xms", "XXInitialHeapSize"}, AsWritten)

(* The test "Multiple GC flags - last one wins" of parseGCTypeFromCmdline: *)
(* when the attach fails, the GC reported is the one the last explicit     *)
(* enable flag on the command line selects.                                *)
NamesGC(b) == \E i \in DOMAIN b : IsEnable(b[i])
GCLastWinsOnFallback ==
  pc = "done" /\ ~attached /\ NamesGC(jvm.cmdline) =>
    params.gc = EnableOf(jvm.cmdline[Rightmost({i \in DOMAIN jvm.cmdline : IsEnable(jvm.cmdline[i])})])

(* docs/JVM_COMPATIBILITY.md lists OpenJDK HotSpot as fully supported,    *)
(* with GC detection of G1GC, ParallelGC, SerialGC...: a HotSpot JVM whose *)
(* VM.flags names its collector is reported with that collector.           *)
HotSpotGCDetected ==
  pc = "done" /\ attached /\ jvm.kind = "HotSpot" /\ NamesGC(jvm.flags) =>
    params.gc = ParseHotSpotGCType(jvm.flags)

(* The spec (section 2, section 4.6 step 5): the orchestrator falls back   *)
(* to the command line for any field the live dump did not populate: a max *)
(* heap the command line sets is never reported empty.                     *)
FieldwiseFallback ==
  pc = "done" /\ attached /\ Live.max = None /\ Cmd.max # None => params.max # None

(* ParseJVMParams implements the resolver specification: every record it   *)
(* returns is the command-line parse or the live dump parsed for a vendor  *)
(* the trust order of the detectors can name, merged by the fallback, and  *)
(* the steps between GetVMFlags and the return change nothing the caller   *)
(* sees.                                                                   *)
Abs == INSTANCE JvmParamsResolver
         WITH done <- (pc = "done"), result <- params, NoParams <- NoParamsC,
              CmdlineParse <- ParseFromCmdline, FlagsParse <- ParseVMFlagsOutput,
              Merge <- FallbackMerge, PropsDetect <- PropsVendor,
              VersionDetect <- VersionVendor, FlagsDetect <- DetectJVMVendor
ResolverRefinement == Abs!Spec

=============================================================================
