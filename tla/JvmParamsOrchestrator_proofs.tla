--------------------- MODULE JvmParamsOrchestrator_proofs ---------------------
(***************************************************************************)
(* Proofs about ParseJVMParams, the vendor-aware orchestrator, for every   *)
(* set of JVMs: it refines the one-step resolver, and a failed attach      *)
(* returns the command-line parse, whatever the parsers return; the type   *)
(* and the command-line results use the parser lemmas of                   *)
(* JvmVMFlags_proofs.                                                      *)
(***************************************************************************)
EXTENDS JvmParamsOrchestrator, JvmVMFlags_proofs, TLAPS

(* The invariant the refinement rests on: between the attach calls the    *)
(* dump held is the process's own VM.flags output, the vendor stays       *)
(* Unknown until a detector names one, and the vendor ParseVMFlags starts *)
(* from is one of the two attach-based detectors' answers or Unknown.     *)
RInv ==
  /\ pc \in PCs
  /\ pc \in {"props", "version", "parse"} => vmFlags = jvm.flags
  /\ pc \in {"idle", "props", "version"} => vendor = "Unknown"
  /\ pc = "parse" => vendor \in {PropsVendor(jvm.props), VersionVendor(jvm.version), "Unknown"}

LEMMA RInvInit == Init => RInv
BY DEF Init, RInv, PCs

LEMMA RInvStep == RInv /\ [Next]_vars => RInv'
<1> SUFFICES ASSUME RInv, [Next]_vars PROVE RInv'
  OBVIOUS
<1>1. CASE GetVMFlags
  BY <1>1 DEF GetVMFlags, RInv, PCs
<1>2. CASE GetSystemProperties
  BY <1>2 DEF GetSystemProperties, RInv, PCs
<1>3. CASE GetVersion
  BY <1>3 DEF GetVersion, RInv, PCs
<1>4. CASE ParseVMFlags
  BY <1>4 DEF ParseVMFlags, RInv, PCs
<1>5. CASE Repoll
  BY <1>5 DEF Repoll, RInv, PCs
<1>6. CASE UNCHANGED vars
  BY <1>6 DEF vars, RInv
<1> QED
  BY <1>1, <1>2, <1>3, <1>4, <1>5, <1>6 DEF Next

(* ParseVMFlags ends with a record the abstract resolver may return: the  *)
(* vendor it parses for is a candidate of the process.                    *)
LEMMA ParseIsResolve == RInv /\ ParseVMFlags => Abs!Resolve
<1> SUFFICES ASSUME RInv, ParseVMFlags PROVE Abs!Resolve
  OBVIOUS
<1> DEFINE v == IF vendor = "Unknown" THEN DetectJVMVendor(vmFlags) ELSE vendor
<1>1. /\ pc = "parse"
      /\ pc' = "done"
      /\ params' = FallbackMerge(ParseVMFlagsOutput(vmFlags, v), ParseFromCmdline(jvm.cmdline))
      /\ jvm' = jvm
  BY DEF ParseVMFlags
<1>2. vmFlags = jvm.flags
  BY <1>1 DEF RInv
<1>3. v \in Abs!CandidateVendors(jvm)
  BY <1>1, <1>2 DEF RInv, Abs!CandidateVendors
<1> QED
  BY <1>1, <1>2, <1>3 DEF Abs!Resolve, Abs!Outcomes

(* The orchestrator implements the abstract resolver: every invocation of *)
(* ParseJVMParams, whatever the attach calls return, ends with the        *)
(* command-line parse or the fallback merge of the dump parsed for a      *)
(* vendor the detectors can name, and the caller's next poll is a Poll.   *)
THEOREM ResolverRefinementHolds == Spec => ResolverRefinement
<1>1. Init => Abs!Init
  BY DEF Init, Abs!Init
<1>2. RInv /\ [Next]_vars => [Abs!Next]_<<jvm, pc = "done", params>>
  <2> SUFFICES ASSUME RInv, [Next]_vars
               PROVE  [Abs!Next]_<<jvm, pc = "done", params>>
    OBVIOUS
  <2>1. CASE GetVMFlags
    <3>1. CASE attached' = TRUE
      BY <2>1, <3>1 DEF GetVMFlags
    <3>2. CASE attached' = FALSE
      BY <2>1, <3>2 DEF GetVMFlags, Abs!Next, Abs!Resolve, Abs!Outcomes
    <3>3. attached' = TRUE \/ attached' = FALSE
      BY <2>1 DEF GetVMFlags
    <3> QED
      BY <3>1, <3>2, <3>3
  <2>2. CASE GetSystemProperties
    BY <2>2 DEF GetSystemProperties
  <2>3. CASE GetVersion
    BY <2>3 DEF GetVersion
  <2>4. CASE ParseVMFlags
    BY <2>4, ParseIsResolve DEF Abs!Next
  <2>5. CASE Repoll
    BY <2>5 DEF Repoll, Abs!Next, Abs!Poll
  <2>6. CASE UNCHANGED vars
    BY <2>6 DEF vars
  <2> QED
    BY <2>1, <2>2, <2>3, <2>4, <2>5, <2>6 DEF Next
<1> QED
  BY <1>1, <1>2, RInvInit, RInvStep, PTL DEF Spec, ResolverRefinement, Abs!Spec
-----------------------------------------------------------------------------
(* The other branch of the attach.  Every call after GetVMFlags happens    *)
(* only once it succeeded, so a finished invocation that did not attach    *)
(* returned from the error branch of GetVMFlags, and what it returned is   *)
(* the command-line parse of the same process.  The first conjunct is      *)
(* needed because ParseVMFlags finishes without looking at attached.       *)
FInv ==
  /\ pc \in {"props", "version", "parse"} => attached
  /\ pc = "done" /\ ~attached => params = Cmd

LEMMA FInvInit == Init => FInv
BY DEF Init, FInv

LEMMA FInvStep == FInv /\ [Next]_vars => FInv'
<1> SUFFICES ASSUME FInv, [Next]_vars PROVE FInv'
  OBVIOUS
<1>1. CASE GetVMFlags
  <2>1. CASE attached' = TRUE
    BY <1>1, <2>1 DEF GetVMFlags, FInv
  <2>2. CASE attached' = FALSE
    BY <1>1, <2>2 DEF GetVMFlags, FInv, Cmd
  <2> QED
    BY <1>1, <2>1, <2>2 DEF GetVMFlags
<1>2. CASE GetSystemProperties
  BY <1>2 DEF GetSystemProperties, FInv
<1>3. CASE GetVersion
  BY <1>3 DEF GetVersion, FInv
<1>4. CASE ParseVMFlags
  BY <1>4 DEF ParseVMFlags, FInv
<1>5. CASE Repoll
  BY <1>5 DEF Repoll, FInv
<1>6. CASE UNCHANGED vars
  BY <1>6 DEF vars, FInv, Cmd
<1> QED
  BY <1>1, <1>2, <1>3, <1>4, <1>5, <1>6 DEF Next

(* When the attach fails, ParseJVMParams returns the command-line parse    *)
(* of the inspected process, whatever was polled before: nothing of an     *)
(* earlier invocation's live dump survives into it.  What that parse      *)
(* reports is CommandLineFallbackRightmostHolds, below.                    *)
THEOREM FailedAttachReturnsCmdline == Spec => [](pc = "done" /\ ~attached => params = Cmd)
<1>1. FInv => (pc = "done" /\ ~attached => params = Cmd)
  BY DEF FInv
<1> QED
  BY FInvInit, FInvStep, <1>1, PTL DEF Spec
-----------------------------------------------------------------------------
(* Every state ParseJVMParams can reach is well typed: the process is one  *)
(* of JVMs, the flags held are its VM.flags tokens, the vendor is one the  *)
(* detectors name and the record returned is one the parsers and the       *)
(* fallback merge can build.                                               *)
LEMMA EmptyFlagsType == << >> \in Seq(Token)
OBVIOUS

LEMMA TypeInit == Init => TypeOK
BY NoParamsType, EmptyFlagsType DEF Init, TypeOK, Vendors, PCs

LEMMA TypeStep == TypeOK /\ [Next]_vars => TypeOK'
<1> SUFFICES ASSUME TypeOK, [Next]_vars PROVE TypeOK'
  OBVIOUS
<1>1. jvm.cmdline \in Seq(Token) /\ jvm.flags \in Seq(Token)
  BY JVMsAssumption DEF TypeOK
<1>2. CASE GetVMFlags
  BY <1>1, <1>2, ParseFromCmdlineType DEF GetVMFlags, TypeOK, PCs
<1>3. CASE GetSystemProperties
  BY <1>3, VendorsType DEF GetSystemProperties, TypeOK, PCs, Vendors
<1>4. CASE GetVersion
  BY <1>4, VendorsType DEF GetVersion, TypeOK, PCs, Vendors
<1>5. CASE ParseVMFlags
  <2> DEFINE v == IF vendor = "Unknown" THEN DetectJVMVendor(vmFlags) ELSE vendor
  <2>1. v \in Vendors
    BY VendorsType DEF TypeOK
  <2>2. FallbackMerge(ParseVMFlagsOutput(vmFlags, v), ParseFromCmdline(jvm.cmdline)) \in ParamsC
    BY <1>1, ParseVMFlagsOutputType, ParseFromCmdlineType, FallbackMergeType DEF TypeOK
  <2> QED
    BY <1>5, <2>1, <2>2 DEF ParseVMFlags, TypeOK, PCs
<1>6. CASE Repoll
  BY <1>6, EmptyFlagsType DEF Repoll, TypeOK, PCs, Vendors
<1>7. CASE UNCHANGED vars
  BY <1>7 DEF vars, TypeOK
<1> QED
  BY <1>2, <1>3, <1>4, <1>5, <1>6, <1>7 DEF Next

(* TypeOK, the invariant the orchestrator run checks, holds in every       *)
(* reachable state of ParseJVMParams for every set of JVMs.               *)
THEOREM TypeCorrect == Spec => []TypeOK
BY TypeInit, TypeStep, PTL DEF Spec
-----------------------------------------------------------------------------
(* parseFromCmdline keeps the rightmost heap flag: after the first k       *)
(* tokens of the scan, the max and init fields hold the value of the       *)
(* rightmost token among them of either spelling, or nothing.              *)
MaxForms  == {"Xmx", "XXMaxHeapSize"}
InitForms == {"Xms", "XXInitialHeapSize"}
PrefixPos(b, F, k) == {i \in 1..k : b[i].f \in F}
PrefixRightmost(b, F, k) ==
  IF PrefixPos(b, F, k) = {} THEN None ELSE AsWritten(b[Rightmost(PrefixPos(b, F, k))])

(* A position greater than all others of a set is its rightmost.          *)
LEMMA RightmostOfTop ==
  ASSUME NEW b \in Seq(Token), NEW S \in SUBSET DOMAIN b, NEW k \in S,
         \A j \in S : j <= k
  PROVE  Rightmost(S) = k
<1>1. Rightmost(S) \in S /\ \A j \in S : j <= Rightmost(S)
  BY ExtremeFacts
<1> QED
  BY <1>1

(* One iteration of the loop moves the invariant from k - 1 to k.          *)
LEMMA CmdlineStepRightmost ==
  ASSUME NEW b \in Seq(Token), NEW k \in 1..Len(b), NEW p \in ParamsC,
         p.max = PrefixRightmost(b, MaxForms, k - 1),
         p.init = PrefixRightmost(b, InitForms, k - 1)
  PROVE  /\ CmdlineStep(p, b[k]).max = PrefixRightmost(b, MaxForms, k)
         /\ CmdlineStep(p, b[k]).init = PrefixRightmost(b, InitForms, k)
<1> DEFINE t == b[k]
<1>1. t \in Token
  OBVIOUS
<1>2. ASSUME NEW F \in {MaxForms, InitForms}, t.f \notin F
      PROVE  PrefixRightmost(b, F, k) = PrefixRightmost(b, F, k - 1)
  <2>1. PrefixPos(b, F, k) = PrefixPos(b, F, k - 1)
    BY <1>2 DEF PrefixPos
  <2> QED
    BY <2>1 DEF PrefixRightmost
<1>3. ASSUME NEW F \in {MaxForms, InitForms}, t.f \in F
      PROVE  PrefixRightmost(b, F, k) = AsWritten(t)
  <2>1. PrefixPos(b, F, k) \in SUBSET DOMAIN b /\ k \in PrefixPos(b, F, k)
        /\ \A j \in PrefixPos(b, F, k) : j <= k
    BY <1>3 DEF PrefixPos
  <2>2. Rightmost(PrefixPos(b, F, k)) = k
    BY <2>1, RightmostOfTop
  <2> QED
    BY <2>1, <2>2 DEF PrefixRightmost
<1>4. CASE t.f = "Xmx"
  BY <1>4, <1>2, <1>3 DEF CmdlineStep, AsWritten, MaxForms, InitForms, ParamsC
<1>5. CASE t.f = "Xms"
  BY <1>5, <1>2, <1>3 DEF CmdlineStep, AsWritten, MaxForms, InitForms, ParamsC
<1>6. CASE t.f = "XXMaxHeapSize"
  BY <1>6, <1>2, <1>3 DEF CmdlineStep, AsWritten, MaxForms, InitForms, ParamsC
<1>7. CASE t.f = "XXInitialHeapSize"
  BY <1>7, <1>2, <1>3 DEF CmdlineStep, AsWritten, MaxForms, InitForms, ParamsC
<1>8. CASE t.f \notin {"Xmx", "Xms", "XXMaxHeapSize", "XXInitialHeapSize"}
  <2>1. CmdlineStep(p, t).max = p.max /\ CmdlineStep(p, t).init = p.init
    BY <1>8 DEF CmdlineStep, ParamsC
  <2> QED
    BY <1>8, <2>1, <1>2 DEF MaxForms, InitForms
<1> QED
  BY <1>4, <1>5, <1>6, <1>7, <1>8

(* Hence the whole scan: the command-line parse reports, for each of the   *)
(* two heap fields, the rightmost flag that sets it.                       *)
LEMMA CmdlineRightmost ==
  ASSUME NEW b \in Seq(Token)
  PROVE  /\ ParseFromCmdline(b).max = RightmostText(b, MaxForms, AsWritten)
         /\ ParseFromCmdline(b).init = RightmostText(b, InitForms, AsWritten)
<1> DEFINE G == {x \in (0..Len(b)) \X ParamsC :
                   /\ x[2].max = PrefixRightmost(b, MaxForms, x[1])
                   /\ x[2].init = PrefixRightmost(b, InitForms, x[1])}
           r == CmdLoop!Scan(b)[Len(b)]
<1>1. <<0, NoParamsC>> \in G
  <2>1. \A F \in {MaxForms, InitForms} : PrefixRightmost(b, F, 0) = None
    BY DEF PrefixRightmost, PrefixPos
  <2>2. NoParamsC.max = None /\ NoParamsC.init = None
    BY DEF NoParamsC
  <2>3. 0 \in 0..Len(b)
    OBVIOUS
  <2> QED
    BY <2>1, <2>2, <2>3, NoParamsType DEF G
<1>2. \A k \in 1..Len(b) : \A v : <<k - 1, v>> \in G => <<k, CmdlineStep(v, b[k])>> \in G
  <2> SUFFICES ASSUME NEW k \in 1..Len(b), NEW v, <<k - 1, v>> \in G
               PROVE  <<k, CmdlineStep(v, b[k])>> \in G
    OBVIOUS
  <2>1. v \in ParamsC /\ v.max = PrefixRightmost(b, MaxForms, k - 1)
        /\ v.init = PrefixRightmost(b, InitForms, k - 1)
    BY DEF G
  <2>2. CmdlineStep(v, b[k]) \in ParamsC
    BY <2>1, StepsType
  <2>3. k \in 0..Len(b)
    OBVIOUS
  <2> QED
    BY <2>1, <2>2, <2>3, CmdlineStepRightmost DEF G
<1>3. \A k \in 0..Len(b) : <<k, CmdLoop!Scan(b)[k]>> \in G
  BY <1>1, <1>2, CmdLoop!ScanInvariant
<1>4. r.max = PrefixRightmost(b, MaxForms, Len(b))
      /\ r.init = PrefixRightmost(b, InitForms, Len(b))
  <2>1. Len(b) \in 0..Len(b)
    OBVIOUS
  <2> QED
    BY <1>3, <2>1 DEF G
<1>5. \A F \in {MaxForms, InitForms} :
        PrefixRightmost(b, F, Len(b)) = RightmostText(b, F, AsWritten)
  <2> SUFFICES ASSUME NEW F \in {MaxForms, InitForms}
               PROVE  PrefixRightmost(b, F, Len(b)) = RightmostText(b, F, AsWritten)
    OBVIOUS
  <2>1. PrefixPos(b, F, Len(b)) = Positions(b, F)
    BY DEF PrefixPos, Positions
  <2> QED
    BY <2>1 DEF PrefixRightmost, RightmostText
<1>6. ParseFromCmdline(b).max = r.max /\ ParseFromCmdline(b).init = r.init
  <2>1. r \in ParamsC
    BY NoParamsType, StepsType, CmdLoop!ScanType
  <2> QED
    BY <2>1, CmdlineIsLoop DEF ParamsC
<1> QED
  BY <1>4, <1>5, <1>6

(* When the attach fails, each heap field ParseJVMParams returns is the    *)
(* command line's rightmost setting of it, whichever spelling (-Xmx or     *)
(* -XX:MaxHeapSize, -Xms or -XX:InitialHeapSize) came last: the scan of    *)
(* parseFromCmdline overwrites and never keeps a first value.              *)
THEOREM CommandLineFallbackRightmostHolds == Spec => []CommandLineFallbackRightmost
<1>1. TypeOK /\ (pc = "done" /\ ~attached => params = Cmd) => CommandLineFallbackRightmost
  <2> SUFFICES ASSUME TypeOK, pc = "done" /\ ~attached => params = Cmd,
                      pc = "done", ~attached
               PROVE  CommandLineFallbackRightmost
    BY DEF CommandLineFallbackRightmost
  <2>1. jvm.cmdline \in Seq(Token)
    BY JVMsAssumption DEF TypeOK
  <2> QED
    BY <2>1, CmdlineRightmost DEF CommandLineFallbackRightmost, Cmd, MaxForms, InitForms
<1> QED
  BY TypeCorrect, FailedAttachReturnsCmdline, <1>1, PTL
=============================================================================
