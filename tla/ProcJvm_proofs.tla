---------------------------- MODULE ProcJvm_proofs ----------------------------
(***************************************************************************)
(* Proofs about the JVM process heuristics of src/proc/jvm.go, for every   *)
(* set of executable names and every set of command lines.                 *)
(***************************************************************************)
EXTENDS ProcJvm, SequenceTheorems, TLAPS

(* A run of one to three digits has nothing for TrimPrefix to strip.       *)
LEMMA DigitsUntrimmed ==
  ASSUME NEW k \in 1..3, NEW ds \in [1..k -> {"d"}]
  PROVE  /\ ds \in Seq({"d"}) /\ Len(ds) = k /\ ds # <<>>
         /\ \A c \in {"-", "_", "."} : TrimPrefix(ds, c) = ds
<1>1. ds \in Seq({"d"}) /\ Len(ds) = k /\ ds # <<>>
  OBVIOUS
<1>2. Head(ds) = "d"
  BY <1>1
<1> QED
  BY <1>1, <1>2 DEF TrimPrefix

(* A separator put before a sequence is its head, and the rest its tail;  *)
(* TrimPrefix strips it, and leaves it for any other character.            *)
LEMMA SeparatorFacts ==
  ASSUME NEW S, NEW ds \in Seq(S), NEW c
  PROVE  /\ <<c>> \o ds # <<>>
         /\ Head(<<c>> \o ds) = c
         /\ TrimPrefix(<<c>> \o ds, c) = ds
         /\ \A d : d # c => TrimPrefix(<<c>> \o ds, d) = <<c>> \o ds
<1> DEFINE s == <<c>> \o ds
<1>1. s \in Seq(S \cup {c}) /\ Len(s) = 1 + Len(ds)
  <2>1. <<c>> \in Seq(S \cup {c}) /\ ds \in Seq(S \cup {c})
    OBVIOUS
  <2> QED
    BY <2>1, ConcatProperties
<1>2. s # <<>> /\ Head(s) = c
  BY <1>1, ConcatProperties
<1>3. Tail(s) = ds
  <2>1. Tail(s) \in Seq(S \cup {c}) /\ Len(Tail(s)) = Len(ds)
    BY <1>1, <1>2, HeadTailProperties
  <2>2. \A i \in 1..Len(ds) : Tail(s)[i] = ds[i]
    BY <1>1, <1>2, HeadTailProperties, ConcatProperties
  <2> QED
    BY <2>1, <2>2, SeqEqual
<1> QED
  BY <1>2, <1>3 DEF TrimPrefix

(* isVersionSuffix accepts every suffix of the form the comments give: a  *)
(* separator or none, then one to three digits.                           *)
LEMMA CommentedSuffixAccepted ==
  \A s \in CommentedSuffixes : isVersionSuffix(s)
<1> SUFFICES ASSUME NEW s \in CommentedSuffixes PROVE isVersionSuffix(s)
  OBVIOUS
<1>0. PICK sep \in Separators, ds \in Digits : s = sep \o ds
  BY DEF CommentedSuffixes
<1>a. PICK n \in 1..3 : ds \in [1..n -> {"d"}]
  BY <1>0 DEF Digits
<1>1. /\ ds \in Seq({"d"}) /\ Len(ds) = n /\ ds # <<>>
      /\ \A c \in {"-", "_", "."} : TrimPrefix(ds, c) = ds
  BY <1>a, DigitsUntrimmed
<1>2. \A i \in DOMAIN ds : ds[i] = "d"
  BY <1>a
<1>3. TrimPrefix(TrimPrefix(TrimPrefix(s, "-"), "_"), ".") = ds
  <2>1. CASE sep = <<>>
    <3>1. s = ds
      BY <1>0, <1>1, <2>1, ConcatEmptySeq
    <3> QED
      BY <1>1, <3>1
  <2>2. CASE sep = <<"-">>
    BY <1>0, <1>1, <2>2, SeparatorFacts
  <2>3. CASE sep = <<"_">>
    <3>1. TrimPrefix(<<"_">> \o ds, "-") = <<"_">> \o ds
          /\ TrimPrefix(<<"_">> \o ds, "_") = ds
      BY <1>1, SeparatorFacts
    <3> QED
      BY <1>0, <1>1, <2>3, <3>1
  <2>4. CASE sep = <<".">>
    <3>1. /\ TrimPrefix(<<".">> \o ds, "-") = <<".">> \o ds
          /\ TrimPrefix(<<".">> \o ds, "_") = <<".">> \o ds
          /\ TrimPrefix(<<".">> \o ds, ".") = ds
      BY <1>1, SeparatorFacts
    <3> QED
      BY <1>0, <2>4, <3>1
  <2> QED
    BY <2>1, <2>2, <2>3, <2>4 DEF Separators
<1>4. Len(ds) <= 3
  BY <1>a
<1> QED
  <2> DEFINE r == TrimPrefix(TrimPrefix(TrimPrefix(s, "-"), "_"), ".")
  <2>1. (\A i \in DOMAIN r : r[i] = "d") /\ Len(r) <= 3
    BY <1>2, <1>3, <1>4
  <2> QED
    BY <2>1 DEF isVersionSuffix

-----------------------------------------------------------------------------
(* What the agent recorded is what the heuristics return on the command    *)
(* line, which never changes: an inspection evaluates IsJvm on the bytes   *)
(* it read, and nothing is inspected twice.                                *)
PInv == inspected => isJvm = IsJvm(cmdline)

LEMMA PInvInit == Init => PInv
BY DEF Init, PInv

LEMMA PInvStep == PInv /\ [Next]_vars => PInv'
BY DEF PInv, Next, Inspect, vars

(* Every runtime launcher with a version suffix of the commented form is  *)
(* reported as a JVM by IsJvm, in every run and for every set of names.   *)
THEOREM VersionedLaunchersDetectedHolds == Spec => []VersionedLaunchersDetected
<1>1. PInv => VersionedLaunchersDetected
  BY CommentedSuffixAccepted DEF PInv, VersionedLaunchersDetected, IsJvm
<1> QED
  BY <1>1, PInvInit, PInvStep, PTL DEF Spec
=============================================================================
