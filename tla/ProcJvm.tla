------------------------------- MODULE ProcJvm -------------------------------
(***************************************************************************)
(* The JVM process heuristics: IsJvm (src/proc/jvm.go) on the bytes of     *)
(* /proc/<pid>/cmdline, with isVersionSuffix, and IsPerfmapDumpSupported   *)
(* (src/jvm/perfmap.go).                                                   *)
(*                                                                         *)
(* A command line is a record [nul, exe, args].  nul says whether the      *)
(* bytes hold a NUL at all: the kernel terminates every argument with one, *)
(* and a process that rewrote its title into one string leaves none.  exe  *)
(* is the last "/"-component of the text before the first NUL, split into  *)
(* a base word and a suffix of character classes: "-", "_", ".", "d" (a    *)
(* digit), "c" (the letter c) and "x" (any other character).  args are the *)
(* remaining arguments as flag tokens of JvmFlags, with the spellings the  *)
(* indicator list tells apart added to the forms.                          *)
(***************************************************************************)
EXTENDS JvmVMFlags

CONSTANTS
  Bases,     \* the base words of executable names
  CmdLines   \* the command lines inspected

(* The forms of arguments that only the detectors tell apart.              *)
DetectForms == {"-jar", "-classpath", "-cp", "-javaagent:", "org.springframework.",
                "XX+PreserveFramePointer", "XX-PreserveFramePointer"}

SuffixChars == {"-", "_", ".", "d", "c", "x"}

ProcArg == [f : Forms \cup DetectForms, n : Nat, u : Units, w : VendorWords \cup {"none"}]

Exe == [base : Bases, suffix : Seq(SuffixChars)]

ProcCmdline == [nul : BOOLEAN, exe : Exe, args : Seq(ProcArg)]

ASSUME CmdLinesAssumption == CmdLines \subseteq ProcCmdline

(* javaRuntimes: the exact executable names.  javac and kotlinc are the    *)
(* bases java and kotlin followed by the letter c.                         *)
JavaRuntimes ==
  {[base |-> b, suffix |-> <<>>] :
     b \in {"java", "openjdk", "scala", "kotlin", "groovy", "clojure", "jruby",
            "jython", "graalvm", "native-image", "gu", "polyglot",
            "native-image-configure"}}
  \cup {[base |-> b, suffix |-> <<"c">>] : b \in {"java", "kotlin"}}

(* The bases tried with strings.HasPrefix; no other base starts with one.  *)
VersionedRuntimes == {"java", "openjdk", "graalvm"}

(* strings.TrimPrefix(s, p) for a one-character prefix.                    *)
TrimPrefix(s, p) == IF s # <<>> /\ Head(s) = p THEN Tail(s) ELSE s

(* Fault variant: the "_" separator is not stripped.                      *)
isVersionSuffixNoUnderscore(s) ==
  LET r == TrimPrefix(TrimPrefix(s, "-"), ".")
  IN  s = <<>> \/ r = <<>> \/ ((\A i \in DOMAIN r : r[i] = "d") /\ Len(r) <= 3)

(* isVersionSuffix: strip one "-", then one "_", then one "."; what is     *)
(* left is empty, or at most three digits.                                 *)
isVersionSuffix(s) ==
  LET r == TrimPrefix(TrimPrefix(TrimPrefix(s, "-"), "_"), ".")
  IN  \/ s = <<>>
      \/ r = <<>>
      \/ /\ \A i \in DOMAIN r : r[i] = "d"
         /\ Len(r) <= 3

(* The substrings of jvmIndicators an argument contains once its           *)
(* terminating NUL is a space ("-jar " and "-classpath " need that space). *)
Indicators(a) ==
  CASE a.f = "Xmx"                   -> {"-Xmx"}
    [] a.f = "Xms"                   -> {"-Xms"}
    [] a.f \in XXForms \cup {"XX+PreserveFramePointer", "XX-PreserveFramePointer"}
                                     -> {"-XX:"}
    [] a.f = "-jar"                  -> {"-jar "}
    [] a.f = "-classpath"            -> {"-classpath "}
    [] a.f = "-javaagent:"           -> {"-javaagent:"}
    [] a.f = "org.springframework."  -> {"org.springframework."}
    [] OTHER                         -> {}

(* IsJvm: no NUL byte, no JVM; then an exact runtime name; then a          *)
(* versioned runtime name; then any indicator in the command line.         *)
IsJvm(c) ==
  /\ c.nul
  /\ \/ c.exe \in JavaRuntimes
     \/ c.exe.base \in VersionedRuntimes /\ isVersionSuffix(c.exe.suffix)
     \/ \E i \in DOMAIN c.args : Indicators(c.args[i]) # {}

(* IsPerfmapDumpSupported: the bytes contain -XX:+PreserveFramePointer.    *)
IsPerfmapDumpSupported(c) ==
  \E i \in DOMAIN c.args : c.args[i].f = "XX+PreserveFramePointer"

VARIABLES
  cmdline,    \* the process's command line
  inspected,  \* the agent has run the heuristics on it
  isJvm,      \* what IsJvm returned
  perfmapOK   \* what IsPerfmapDumpSupported returned

vars == <<cmdline, inspected, isJvm, perfmapOK>>

Init ==
  /\ cmdline \in CmdLines
  /\ inspected = FALSE
  /\ isJvm = FALSE
  /\ perfmapOK = FALSE

(* One inspection: IsJvm, and IsPerfmapDumpSupported on the same bytes.    *)
Inspect ==
  /\ ~inspected
  /\ inspected' = TRUE
  /\ isJvm' = IsJvm(cmdline)
  /\ perfmapOK' = IsPerfmapDumpSupported(cmdline)
  /\ UNCHANGED cmdline

Next == Inspect

Spec == Init /\ [][Next]_vars

-----------------------------------------------------------------------------
(* The version suffixes of the comments of IsJvm and isVersionSuffix       *)
(* ("java11, java17, openjdk8"; "8", "11", "17", "-11", "_8"), with the    *)
(* "." separator the code strips too: a separator or none, then one to     *)
(* three digits.                                                           *)
Separators == {<<>>, <<"-">>, <<"_">>, <<".">>}
Digits == UNION {[1..k -> {"d"}] : k \in 1..3}
CommentedSuffixes == {sep \o ds : sep \in Separators, ds \in Digits}

(* Every runtime launcher named with a version suffix of the form the      *)
(* comments give is detected from its name alone, whatever its arguments.  *)
VersionedLaunchersDetected ==
  inspected /\ cmdline.nul /\ cmdline.exe.base \in VersionedRuntimes
    /\ cmdline.exe.suffix \in CommentedSuffixes
    => isJvm
=============================================================================
