-------------------------- MODULE JvmParamsResolver --------------------------
(***************************************************************************)
(* What ParseJVMParams(cmdline, pid) promises, as one atomic step: the     *)
(* record it returns is either the command-line parse (the attach failed)  *)
(* or the live VM.flags dump parsed for one of the vendors the detectors   *)
(* can name, merged with the command line by the fallback.  The vendor is  *)
(* the system properties' or the version's when they recognise one, else   *)
(* the one the flags text gives (the trust order of detectVendor).  The    *)
(* caller invokes it again on every poll.  The parsers and detectors are  *)
(* parameters: the orchestrator's refinement mapping supplies its own.     *)
(***************************************************************************)
CONSTANTS
  JVMs,                 \* the processes, as in JvmParamsOrchestrator
  NoParams,             \* the zero JVMParams record
  CmdlineParse(_),      \* parseFromCmdline
  FlagsParse(_, _),     \* parseVMFlagsOutput(output, vendor)
  Merge(_, _),          \* the command-line fallback of ParseJVMParams
  PropsDetect(_),       \* detectJVMVendorWithSystemProperties
  VersionDetect(_),     \* the VM.version detector
  FlagsDetect(_)        \* DetectJVMVendor on the VM.flags text

VARIABLES
  jvm,     \* the inspected process
  done,    \* ParseJVMParams has returned in the current poll
  result   \* the JVMParams it returned last

(* The vendors the detection may end with for process j.                   *)
CandidateVendors(j) ==
  ({PropsDetect(j.props), VersionDetect(j.version)} \ {"Unknown"}) \cup {FlagsDetect(j.flags)}

(* The records ParseJVMParams may return for process j.                    *)
Outcomes(j) ==
  {CmdlineParse(j.cmdline)} \cup
  {Merge(FlagsParse(j.flags, v), CmdlineParse(j.cmdline)) : v \in CandidateVendors(j)}

Init ==
  /\ jvm \in JVMs
  /\ done = FALSE
  /\ result = NoParams

(* One invocation of ParseJVMParams.                                       *)
Resolve ==
  /\ ~done
  /\ done' = TRUE
  /\ result' \in Outcomes(jvm)
  /\ UNCHANGED jvm

(* The next poll.                                                          *)
Poll ==
  /\ done
  /\ done' = FALSE
  /\ UNCHANGED <<jvm, result>>

Next == Resolve \/ Poll

Spec == Init /\ [][Next]_<<jvm, done, result>>
=============================================================================
