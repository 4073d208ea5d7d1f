--------------------------- MODULE JvmParamParser ---------------------------
(***************************************************************************)
(* parseJVMParams: the agent reads a JVM's environment, concatenates the   *)
(* four JAVA options variables in their fixed order with the command line  *)
(* last, and resolves heap sizes and percentages from the combined text.   *)
(* The process's command line and environment are fixed for its lifetime; *)
(* the agent re-parses them on every poll.                                 *)
(***************************************************************************)
EXTENDS JvmFlags

CONSTANTS
  CmdLines,       \* the command lines a process may have (token sequences)
  EnvValues,      \* the values an options variable may have (<<>> = unset)
  ParserVariant   \* "unnamed": the copy in src/unnamed/part_000;
                  \* "containers": src/containers/jvm_param_parser.go

ASSUME ParserAssumption ==
  /\ CmdLines \subseteq Seq(Token)
  /\ EnvValues \subseteq Seq(Token)
  /\ <<>> \in EnvValues
  /\ ParserVariant \in {"unnamed", "containers"}

EnvNames == {EnvVars[i] : i \in DOMAIN EnvVars}

VARIABLES
  cmdline,   \* /proc/<pid>/cmdline
  env,       \* the options variables of /proc/<pid>/environ
  args,      \* the combined text of the last parse
  params,    \* the JVMParams record of the last parse
  polled     \* a parse has happened

vars == <<cmdline, env, args, params, polled>>

NoEnv == [e \in EnvNames |-> <<>>]
NoParams == [max |-> 0, init |-> 0, maxPct |-> 0, initPct |-> 0, xx |-> <<>>]

ParseJVMParamsFromString(b) ==
  IF ParserVariant = "unnamed" THEN ParseJVMParamsFromStringD(b)
                               ELSE ParseJVMParamsFromStringA(b)

Init ==
  /\ cmdline \in CmdLines
  /\ env \in [EnvNames -> EnvValues]
  /\ args = <<>>
  /\ params = NoParams
  /\ polled = FALSE

(* parseJVMParams(cmdline, pid).  readEnviron returns an empty map when    *)
(* /proc/<pid>/environ cannot be opened.                                   *)
ParseJVMParams ==
  \E environReadable \in BOOLEAN :
    LET e == IF environReadable THEN env ELSE NoEnv
        a == CombinedArgs(e, cmdline)
    IN /\ args' = a
       /\ params' = ParseJVMParamsFromString(a)
       /\ polled' = TRUE
       /\ UNCHANGED <<cmdline, env>>

Next == ParseJVMParams

Spec == Init /\ [][Next]_vars

-----------------------------------------------------------------------------
TypeOK ==
  /\ cmdline \in CmdLines
  /\ env \in [EnvNames -> EnvValues]
  /\ params \in [max : Int, init : Int, maxPct : Nat, initPct : Nat, xx : Seq(Token)]
  /\ args \in Seq(Token)
  /\ polled \in BOOLEAN

-----------------------------------------------------------------------------
(* The resolution the spec (section 4.3) prescribes for a combined text b: *)
(* the legacy and canonical spellings of a heap kind are pooled and the    *)
(* rightmost occurrence wins; a percentage (its rightmost occurrence)      *)
(* yields the -1 sentinel when no absolute size is present, and for the    *)
(* max heap also when it follows several absolute sizes.                   *)
SpecMaxHeapForms     == {"Xmx", "XXMaxHeapSize"}
SpecInitialHeapForms == {"Xms", "XXMinHeapSize", "XXInitialHeapSize"}
SpecPct(b, f) ==
  LET P == Positions(b, {f}) IN IF P = {} THEN 0 ELSE b[Rightmost(P)].n
SpecAbsolute(b, F) == ParseMemorySize(b[Rightmost(Positions(b, F))])
SpecMaxHeap(b) ==
  LET abs == Positions(b, SpecMaxHeapForms)
      pct == SpecPct(b, "XXMaxRAMPercentage")
  IN IF abs = {} THEN IF pct > 0 THEN -1 ELSE 0
     ELSE IF /\ pct > 0
             /\ Cardinality(abs) > 1
             /\ \E j \in Positions(b, {"XXMaxRAMPercentage"}) : \A i \in abs : j > i
          THEN -1
     ELSE SpecAbsolute(b, SpecMaxHeapForms)
SpecInitialHeapOver(b, F) ==
  LET abs == Positions(b, F)
      pct == SpecPct(b, "XXInitialRAMPercentage")
  IN IF abs = {} THEN IF pct > 0 THEN -1 ELSE 0
                 ELSE SpecAbsolute(b, F)
SpecInitialHeap(b) == SpecInitialHeapOver(b, SpecInitialHeapForms)

(* The resolved max heap of every parse is the one section 4.3 of the spec *)
(* prescribes for the combined text: rightmost of -Xmx/-XX:MaxHeapSize,    *)
(* the sentinel for a lone or trailing MaxRAMPercentage                    *)
(* (parseJVMParamsFromString, the rightmost loop and the precedence step). *)
MaxHeapMatchesSpec == polled => params.max = SpecMaxHeap(args)

(* The resolved initial heap of every parse is the one section 4.3 of the  *)
(* spec prescribes: rightmost of -Xms/-XX:MinHeapSize/-XX:InitialHeapSize, *)
(* and the explicit size always beats InitialRAMPercentage.                *)
InitialHeapMatchesSpec == polled => params.init = SpecInitialHeap(args)

(* A heap size given on the command line overrides every environment      *)
(* variable when no percentage is set anywhere: the reported size is the   *)
(* command line's rightmost one (parseJVMParams appends the command line   *)
(* last).                                                                  *)
NoPct(b) == Positions(b, PctForms) = {}
CommandLineOverridesEnvironment ==
  polled /\ NoPct(args) =>
    /\ Positions(cmdline, SpecMaxHeapForms) # {} =>
         params.max = SpecAbsolute(cmdline, SpecMaxHeapForms)
    /\ Positions(cmdline, InitialHeapFormsD) # {} =>
         params.init = SpecAbsolute(cmdline, InitialHeapFormsD)

(* The comment at parseJVMParams lists the options variables "in order of  *)
(* precedence (highest to lowest)": when only variables set the max heap   *)
(* and no percentage is set, the first listed variable that sets one wins. *)
FirstSetting(e) ==
  e[EnvVars[CHOOSE i \in DOMAIN EnvVars :
                 /\ Positions(e[EnvVars[i]], SpecMaxHeapForms) # {}
                 /\ \A k \in 1..(i - 1) : Positions(e[EnvVars[k]], SpecMaxHeapForms) = {}]]
EnvPrecedenceAsCommented ==
  polled /\ NoPct(args) /\ Positions(cmdline, SpecMaxHeapForms) = {}
         /\ Positions(args, SpecMaxHeapForms) # {} =>
    params.max = SpecAbsolute(FirstSetting(env), SpecMaxHeapForms)
=============================================================================
