------------------------- MODULE JvmParamParser_proofs -------------------------
(***************************************************************************)
(* Proofs about parseJVMParams and the parseJVMParamsFromString of         *)
(* src/unnamed/part_000, for every set of command lines and environment   *)
(* values.                                                                 *)
(***************************************************************************)
EXTENDS JvmParamParser, SequenceTheorems, FiniteSetTheorems, TLAPS

(* The multiplier of every unit the size regexes accept is positive.     *)
LEMMA UnitFactorValues ==
  \A u \in Units : UnitFactor(u) \in {1, 1024, 1048576}
<1> SUFFICES ASSUME NEW u PROVE UnitFactor(u) \in {1, 1024, 1048576}
  OBVIOUS
<1>1. CASE u = "k"
  BY <1>1, SMT DEF UnitFactor
<1>2. CASE u = "m"
  BY <1>2, SMT DEF UnitFactor
<1>3. CASE u # "k" /\ u # "m"
  BY <1>3, SMT DEF UnitFactor
<1> QED
  BY <1>1, <1>2, <1>3

LEMMA UnitFactorPositive ==
  \A u \in Units : UnitFactor(u) \in Nat \ {0}
BY UnitFactorValues

(* One iteration of the SelectSeq loop that collects the -XX: options.    *)
XXStep(v, t) == IF t.f \in XXForms THEN Append(v, t) ELSE v

XXLoop == INSTANCE LoopScan WITH Step <- XXStep, c <- << >>

LEMMA XXOptionsIsLoop ==
  ASSUME NEW b \in Seq(Token)
  PROVE  XXOptions(b) = XXLoop!Scan(b)[Len(b)]
BY DEF XXOptions, XXLoop!Scan, XXStep
(* The -XX: options are flag tokens.                                       *)
LEMMA XXOptionsType ==
  ASSUME NEW b \in Seq(Token)
  PROVE  XXOptions(b) \in Seq(Token)
<1>1. << >> \in Seq(Token)
  OBVIOUS
<1>2. \A v \in Seq(Token), t \in Token : XXStep(v, t) \in Seq(Token)
  BY DEF XXStep
<1> QED
  BY <1>1, <1>2, XXLoop!ScanType, XXOptionsIsLoop

-----------------------------------------------------------------------------
(* The rightmost of a non-empty set of positions is in the set and the     *)
(* greatest; a greatest element is the rightmost.                          *)
LEMMA RightmostFacts ==
  ASSUME NEW hi \in Nat, NEW S \in SUBSET (0..hi), S # {}
  PROVE  Rightmost(S) \in S /\ \A j \in S : j <= Rightmost(S)
<1>1. \E m \in S : \A k \in S : k <= m
  BY XXLoop!GreatestElement
<1> QED
  BY <1>1 DEF Rightmost

LEMMA RightmostIsTop ==
  ASSUME NEW hi \in Nat, NEW S \in SUBSET (0..hi), NEW k \in S, \A j \in S : j <= k
  PROVE  Rightmost(S) = k
<1>1. Rightmost(S) \in S /\ \A j \in S : j <= Rightmost(S)
  BY RightmostFacts
<1>2. \A r \in S : (\A j \in S : j <= r) => r = k
  OBVIOUS
<1> QED
  BY <1>1, <1>2

-----------------------------------------------------------------------------
(* parsePercentage over the collected -XX: options reads the same value as *)
(* the rightmost occurrence of the percentage in the whole text: taking    *)
(* the -XX: options out keeps their order.                                 *)
PrefixPct(b, f, k) ==
  LET P == {i \in 1..k : b[i].f = f} IN IF P = {} THEN 0 ELSE b[Rightmost(P)].n

LEMMA PercentageStep ==
  ASSUME NEW b \in Seq(Token), NEW f \in PctForms, NEW k \in 1..Len(b),
         NEW v \in Seq(Token), ParsePercentage(v, f) = PrefixPct(b, f, k - 1)
  PROVE  ParsePercentage(XXStep(v, b[k]), f) = PrefixPct(b, f, k)
<1> DEFINE t == b[k]
           Q == {i \in 1..(k - 1) : b[i].f = f}
           R == {i \in 1..k : b[i].f = f}
<1>1. f \in XXForms
  BY DEF PctForms, XXForms, Forms
<1>2. CASE t.f = f
  <2> DEFINE w == Append(v, t)
  <2>1. XXStep(v, t) = w
    BY <1>1, <1>2 DEF XXStep
  <2>2. Positions(w, {f}) \in SUBSET (0..Len(w)) /\ Len(w) \in Positions(w, {f})
        /\ \A j \in Positions(w, {f}) : j <= Len(w)
    BY <1>2 DEF Positions
  <2>3. R \in SUBSET (0..k) /\ k \in R /\ \A j \in R : j <= k
    BY <1>2
  <2>4. ParsePercentage(w, f) = t.n
    <3>1. Rightmost(Positions(w, {f})) = Len(w)
      <4>1. Len(w) \in Nat
        OBVIOUS
      <4> QED
        BY <2>2, <4>1, RightmostIsTop
    <3>2. w[Len(w)] = t
      OBVIOUS
    <3> QED
      BY <2>2, <3>1, <3>2 DEF ParsePercentage
  <2>5. PrefixPct(b, f, k) = t.n
    <3>1. Rightmost(R) = k
      <4>1. k \in Nat
        OBVIOUS
      <4> QED
        BY <2>3, <4>1, RightmostIsTop
    <3> QED
      BY <2>3, <3>1 DEF PrefixPct
  <2> QED
    BY <2>1, <2>4, <2>5
<1>3. CASE t.f # f
  <2>1. R = Q
    BY <1>3
  <2>2. PrefixPct(b, f, k) = PrefixPct(b, f, k - 1)
    BY <2>1 DEF PrefixPct
  <2>3. ParsePercentage(XXStep(v, t), f) = ParsePercentage(v, f)
    <3>1. CASE t.f \in XXForms
      <4> DEFINE w == Append(v, t)
      <4>1. Positions(w, {f}) = Positions(v, {f})
        BY <1>3 DEF Positions
      <4>2. \A i \in Positions(v, {f}) : w[i] = v[i]
        BY DEF Positions
      <4>3. ASSUME Positions(v, {f}) # {}
            PROVE  Rightmost(Positions(v, {f})) \in Positions(v, {f})
        <5>1. Positions(v, {f}) \in SUBSET (0..Len(v)) /\ Len(v) \in Nat
          BY DEF Positions
        <5> QED
          BY <4>3, <5>1, RightmostFacts
      <4> QED
        BY <3>1, <4>1, <4>2, <4>3 DEF XXStep, ParsePercentage
    <3>2. CASE t.f \notin XXForms
      BY <3>2 DEF XXStep
    <3> QED
      BY <3>1, <3>2
  <2> QED
    BY <2>2, <2>3
<1> QED
  BY <1>2, <1>3

LEMMA PercentageRightmost ==
  ASSUME NEW b \in Seq(Token), NEW f \in PctForms
  PROVE  ParsePercentage(XXOptions(b), f) = SpecPct(b, f)
<1> DEFINE G == {x \in (0..Len(b)) \X Seq(Token) : ParsePercentage(x[2], f) = PrefixPct(b, f, x[1])}
<1>1. << 0, << >> >> \in G
  <2>1. Positions(<< >>, {f}) = {} /\ {i \in 1..0 : b[i].f = f} = {}
    BY DEF Positions
  <2>2. ParsePercentage(<< >>, f) = 0 /\ PrefixPct(b, f, 0) = 0
    BY <2>1 DEF ParsePercentage, PrefixPct
  <2>3. 0 \in 0..Len(b) /\ << >> \in Seq(Token)
    OBVIOUS
  <2> QED
    BY <2>2, <2>3 DEF G
<1>2. \A k \in 1..Len(b) : \A v : <<k - 1, v>> \in G => <<k, XXStep(v, b[k])>> \in G
  <2> SUFFICES ASSUME NEW k \in 1..Len(b), NEW v, <<k - 1, v>> \in G
               PROVE  <<k, XXStep(v, b[k])>> \in G
    OBVIOUS
  <2>1. v \in Seq(Token) /\ ParsePercentage(v, f) = PrefixPct(b, f, k - 1)
    BY DEF G
  <2>2. XXStep(v, b[k]) \in Seq(Token) /\ k \in 0..Len(b)
    BY <2>1 DEF XXStep
  <2> QED
    BY <2>1, <2>2, PercentageStep DEF G
<1>3. <<Len(b), XXLoop!Scan(b)[Len(b)]>> \in G
  <2>1. \A k \in 0..Len(b) : <<k, XXLoop!Scan(b)[k]>> \in G
    BY <1>1, <1>2, XXLoop!ScanInvariant
  <2> QED
    BY <2>1
<1>4. PrefixPct(b, f, Len(b)) = SpecPct(b, f)
  <2>1. {i \in 1..Len(b) : b[i].f = f} = Positions(b, {f})
    BY DEF Positions
  <2> QED
    BY <2>1 DEF PrefixPct, SpecPct
<1> QED
  BY <1>3, <1>4, XXOptionsIsLoop DEF G
-----------------------------------------------------------------------------
(* Size tokens whose value is not zero: parseJVMParamsFromString cannot    *)
(* tell a zero size from an unset one (JavaMaxHeapSize == 0), so with a    *)
(* percentage present -Xmx0 gives the -1 sentinel where section 4.3 of    *)
(* the spec keeps the explicit 0 (MCJvmParamParser_zerosize.cfg).          *)
SizedTokens == {t \in Token : t.f \in SizeForms => ParseMemorySize(t) > 0}

(* The rightmost size of a non-empty set of spellings is the value of the  *)
(* token at the rightmost position.                                        *)
LEMMA RightmostSizeFacts ==
  ASSUME NEW b \in Seq(SizedTokens), NEW F \in SUBSET SizeForms, Positions(b, F) # {}
  PROVE  /\ Rightmost(Positions(b, F)) \in Positions(b, F)
         /\ \A j \in Positions(b, F) : j <= Rightmost(Positions(b, F))
         /\ RightmostPos(b, F) = Rightmost(Positions(b, F))
         /\ RightmostSize(b, F) = ParseMemorySize(b[Rightmost(Positions(b, F))])
         /\ RightmostSize(b, F) > 0
<1>1. Positions(b, F) \in SUBSET (0..Len(b)) /\ Len(b) \in Nat
  BY DEF Positions
<1>2. Rightmost(Positions(b, F)) \in Positions(b, F)
      /\ \A j \in Positions(b, F) : j <= Rightmost(Positions(b, F))
  BY <1>1, RightmostFacts
<1>3. b[Rightmost(Positions(b, F))] \in SizedTokens
      /\ b[Rightmost(Positions(b, F))].f \in SizeForms
  BY <1>2 DEF Positions
<1>4. ParseMemorySize(b[Rightmost(Positions(b, F))]) > 0
  BY <1>3 DEF SizedTokens
<1> QED
  BY <1>2, <1>4 DEF RightmostPos, RightmostSize

(* With no zero size, the max heap resolved by the precedence step of     *)
(* parseJVMParamsFromString is the one section 4.3 of the spec prescribes. *)
LEMMA MaxHeapResolves ==
  ASSUME NEW b \in Seq(SizedTokens)
  PROVE  MaxHeapPrecedence(b) = SpecMaxHeap(b)
<1> DEFINE abs  == Positions(b, MaxHeapFormsD)
           P    == Positions(b, {"XXMaxRAMPercentage"})
           pct  == ParsePercentage(XXOptions(b), "XXMaxRAMPercentage")
<1>1. b \in Seq(Token) /\ SpecMaxHeapForms = MaxHeapFormsD /\ MaxHeapFormsD \in SUBSET SizeForms
  BY DEF SizedTokens, SpecMaxHeapForms, MaxHeapFormsD, SizeForms
<1>2. pct = SpecPct(b, "XXMaxRAMPercentage")
  BY <1>1, PercentageRightmost DEF PctForms
<1>3. CASE abs = {}
  <2>1. RightmostSize(b, MaxHeapFormsD) = 0
    BY <1>3 DEF RightmostSize
  <2> QED
    BY <1>1, <1>2, <1>3, <2>1 DEF MaxHeapPrecedence, SpecMaxHeap
<1>4. CASE abs # {}
  <2> DEFINE r == Rightmost(abs)
  <2>1. r \in abs /\ (\A j \in abs : j <= r) /\ RightmostPos(b, MaxHeapFormsD) = r
        /\ RightmostSize(b, MaxHeapFormsD) = ParseMemorySize(b[r])
        /\ RightmostSize(b, MaxHeapFormsD) # 0
    BY <1>1, <1>4, RightmostSizeFacts
  <2>2. r \in 1..Len(b)
    BY <2>1 DEF Positions
  <2>3. RightmostPos(b, {"XXMaxRAMPercentage"}) > r <=> \E j \in P : \A i \in abs : j > i
    <3>1. CASE P = {}
      BY <3>1, <2>2 DEF RightmostPos
    <3>2. CASE P # {}
      <4>1. P \in SUBSET (0..Len(b)) /\ Len(b) \in Nat
        BY DEF Positions
      <4>2. Rightmost(P) \in P /\ \A j \in P : j <= Rightmost(P)
        BY <3>2, <4>1, RightmostFacts
      <4>3. RightmostPos(b, {"XXMaxRAMPercentage"}) = Rightmost(P)
        BY <3>2 DEF RightmostPos
      <4>4. P \subseteq Nat /\ abs \subseteq Nat
        BY DEF Positions
      <4> QED
        BY <2>1, <4>2, <4>3, <4>4
    <3> QED
      BY <3>1, <3>2
  <2>4. SpecAbsolute(b, SpecMaxHeapForms) = ParseMemorySize(b[r])
    BY <1>1 DEF SpecAbsolute
  <2> QED
    BY <1>1, <1>2, <1>4, <2>1, <2>3, <2>4 DEF MaxHeapPrecedence, SpecMaxHeap
<1> QED
  BY <1>3, <1>4

(* The precedence step for the initial heap is the resolution section 4.3 *)
(* prescribes, applied to the spellings the code's loop matches (-Xms and  *)
(* -XX:MinHeapSize), for every text whose sizes are not zero: -Xms0 with a *)
(* percentage gives the sentinel.                                          *)
LEMMA InitialHeapResolves ==
  ASSUME NEW b \in Seq(SizedTokens)
  PROVE  InitialHeapPrecedence(b) = SpecInitialHeapOver(b, InitialHeapFormsD)
<1> DEFINE abs == Positions(b, InitialHeapFormsD)
           pct == ParsePercentage(XXOptions(b), "XXInitialRAMPercentage")
<1>1. b \in Seq(Token) /\ InitialHeapFormsD \in SUBSET SizeForms
  BY DEF SizedTokens, InitialHeapFormsD, SizeForms
<1>3. pct = SpecPct(b, "XXInitialRAMPercentage")
  BY <1>1, PercentageRightmost DEF PctForms
<1>4. CASE abs = {}
  <2>1. RightmostSize(b, InitialHeapFormsD) = 0
    BY <1>4 DEF RightmostSize
  <2> QED
    BY <1>3, <1>4, <2>1 DEF InitialHeapPrecedence, SpecInitialHeapOver
<1>5. CASE abs # {}
  <2>1. RightmostSize(b, InitialHeapFormsD) = ParseMemorySize(b[Rightmost(abs)])
        /\ RightmostSize(b, InitialHeapFormsD) # 0
    BY <1>1, <1>5, RightmostSizeFacts
  <2>2. SpecAbsolute(b, InitialHeapFormsD) = ParseMemorySize(b[Rightmost(abs)])
    BY DEF SpecAbsolute
  <2> QED
    BY <1>5, <2>1, <2>2 DEF InitialHeapPrecedence, SpecInitialHeapOver
<1> QED
  BY <1>4, <1>5

-----------------------------------------------------------------------------
(* The record parseJVMParamsFromString returns is well typed, in both      *)
(* copies.                                                                 *)
ParamsType == [max : Int, init : Int, maxPct : Nat, initPct : Nat, xx : Seq(Token)]

LEMMA ParsePercentageType ==
  ASSUME NEW xx \in Seq(Token), NEW f
  PROVE  ParsePercentage(xx, f) \in Nat
<1>1. CASE Positions(xx, {f}) # {}
  <2>1. Positions(xx, {f}) \in SUBSET (0..Len(xx)) /\ Len(xx) \in Nat
    BY DEF Positions
  <2>2. Rightmost(Positions(xx, {f})) \in DOMAIN xx
    BY <1>1, <2>1, RightmostFacts DEF Positions
  <2>3. xx[Rightmost(Positions(xx, {f}))] \in Token
    BY <2>2
  <2>4. xx[Rightmost(Positions(xx, {f}))].n \in Nat
    BY <2>3 DEF Token
  <2> QED
    BY <1>1, <2>4 DEF ParsePercentage
<1> QED
  BY <1>1 DEF ParsePercentage

LEMMA RightmostSizeType ==
  ASSUME NEW b \in Seq(Token), NEW F
  PROVE  RightmostSize(b, F) \in Nat
<1>1. CASE Positions(b, F) # {}
  <2>1. Positions(b, F) \in SUBSET (0..Len(b)) /\ Len(b) \in Nat
    BY DEF Positions
  <2>2. Rightmost(Positions(b, F)) \in DOMAIN b
    BY <1>1, <2>1, RightmostFacts DEF Positions
  <2>3. b[Rightmost(Positions(b, F))] \in Token
    BY <2>2
  <2> QED
    BY <1>1, <2>3, UnitFactorPositive DEF RightmostSize, ParseMemorySize, Token
<1> QED
  BY <1>1 DEF RightmostSize

LEMMA ParseType ==
  ASSUME NEW b \in Seq(Token)
  PROVE  ParseJVMParamsFromString(b) \in ParamsType
<1>1. XXOptions(b) \in Seq(Token)
  BY XXOptionsType
<1>2. \A f \in PctForms : ParsePercentage(XXOptions(b), f) \in Nat
  BY <1>1, ParsePercentageType
<1>3. RightmostSize(b, MaxHeapFormsD) \in Nat /\ RightmostSize(b, InitialHeapFormsD) \in Nat
  BY RightmostSizeType
<1>4. ParseJVMParamsFromStringD(b) \in ParamsType
  BY <1>1, <1>2, <1>3 DEF ParseJVMParamsFromStringD, MaxHeapPrecedence,
                          InitialHeapPrecedence, ParamsType, PctForms
<1>5. ParseJVMParamsFromStringA(b) \in ParamsType
  BY <1>1, <1>2, <1>3 DEF ParseJVMParamsFromStringA, SentinelIfPercentage, ParamsType, PctForms
<1> QED
  BY <1>4, <1>5 DEF ParseJVMParamsFromString

-----------------------------------------------------------------------------
(* The inductive invariant of parseJVMParams: once a poll has happened,    *)
(* args is the combination of the command line with the environment read  *)
(* or with the empty map readEnviron returns on failure, and params is the *)
(* parse of args.                                                          *)
IInv ==
  /\ TypeOK
  /\ polled => /\ \E e \in {env, NoEnv} : args = CombinedArgs(e, cmdline)
              /\ params = ParseJVMParamsFromString(args)

(* parseJVMParams concatenates token sequences of one kind into one.       *)
LEMMA CombinedArgsType ==
  ASSUME NEW S, NEW e \in [EnvNames -> Seq(S)], NEW c \in Seq(S)
  PROVE  CombinedArgs(e, c) \in Seq(S)
<1>1. \A i \in 1..4 : e[EnvVars[i]] \in Seq(S)
  BY DEF EnvNames, EnvVars
<1> QED
  BY <1>1 DEF CombinedArgs

(* The empty map of readEnviron, and every environment of the process,    *)
(* maps the options variables to token sequences.                          *)
LEMMA EnvType ==
  ASSUME NEW S, EnvValues \subseteq Seq(S), NEW e \in [EnvNames -> EnvValues]
  PROVE  /\ e \in [EnvNames -> Seq(S)]
         /\ NoEnv \in [EnvNames -> Seq(S)]
<1>1. << >> \in Seq(S)
  OBVIOUS
<1> QED
  BY <1>1 DEF NoEnv

LEMMA IInvInit == Init => IInv
<1> SUFFICES ASSUME Init PROVE IInv
  OBVIOUS
<1>1. NoParams \in ParamsType
  BY DEF NoParams, ParamsType
<1>2. << >> \in Seq(Token)
  OBVIOUS
<1>3. TypeOK
  BY <1>1, <1>2 DEF Init, TypeOK, ParamsType
<1>4. ~polled
  BY DEF Init
<1> QED
  BY <1>3, <1>4 DEF IInv

LEMMA IInvStep == IInv /\ [Next]_vars => IInv'
<1> SUFFICES ASSUME IInv, [Next]_vars PROVE IInv'
  OBVIOUS
<1>1. CASE ParseJVMParams
  <2>1. PICK r \in BOOLEAN :
          LET e == IF r THEN env ELSE NoEnv
              a == CombinedArgs(e, cmdline)
          IN /\ args' = a
             /\ params' = ParseJVMParamsFromString(a)
             /\ polled' = TRUE
             /\ UNCHANGED <<cmdline, env>>
    BY <1>1 DEF ParseJVMParams
  <2> DEFINE e == IF r THEN env ELSE NoEnv
  <2>2. e \in {env, NoEnv} /\ e \in [EnvNames -> Seq(Token)]
    BY ParserAssumption, EnvType DEF IInv, TypeOK
  <2>3. cmdline \in Seq(Token)
    BY ParserAssumption DEF IInv, TypeOK
  <2>4. args' \in Seq(Token)
    BY <2>1, <2>2, <2>3, CombinedArgsType
  <2>5. params' \in ParamsType
    BY <2>1, <2>4, ParseType
  <2> QED
    BY <2>1, <2>2, <2>4, <2>5 DEF IInv, TypeOK, ParamsType
<1>2. CASE UNCHANGED vars
  BY <1>2 DEF IInv, TypeOK, vars, NoEnv
<1> QED
  BY <1>1, <1>2 DEF Next

(* Every state of parseJVMParams has the types TypeOK lists.              *)
THEOREM TypeCorrect == Spec => []TypeOK
<1>1. IInv => TypeOK
  BY DEF IInv
<1> QED
  BY IInvInit, IInvStep, <1>1, PTL DEF Spec

(* When every command line and every options variable is made of tokens   *)
(* of S, so is the text of every parse.                                   *)
LEMMA ArgsIn ==
  ASSUME NEW S, CmdLines \cup EnvValues \subseteq Seq(S), IInv, polled
  PROVE  args \in Seq(S)
<1>1. PICK e \in {env, NoEnv} : args = CombinedArgs(e, cmdline)
  BY DEF IInv
<1>2. env \in [EnvNames -> EnvValues] /\ cmdline \in Seq(S)
  BY DEF IInv, TypeOK
<1>3. e \in [EnvNames -> Seq(S)]
  BY <1>1, <1>2, EnvType
<1> QED
  BY <1>1, <1>2, <1>3, CombinedArgsType

(* Section 4.3 of the spec for the max heap: in the copy of               *)
(* src/unnamed/part_000, every parse reports the max heap the spec         *)
(* prescribes for the combined text, for all command lines and variables  *)
(* whose explicit sizes are not zero (a zero one is the divergence of      *)
(* MCJvmParamParser_zerosize.cfg).                                         *)
THEOREM MaxHeapMatchesSpecHolds ==
  ASSUME ParserVariant = "unnamed", CmdLines \cup EnvValues \subseteq Seq(SizedTokens)
  PROVE  Spec => []MaxHeapMatchesSpec
<1>1. IInv => MaxHeapMatchesSpec
  <2> SUFFICES ASSUME IInv, polled PROVE params.max = SpecMaxHeap(args)
    BY DEF MaxHeapMatchesSpec
  <2>1. args \in Seq(SizedTokens)
    BY ArgsIn
  <2>2. params = ParseJVMParamsFromStringD(args)
    BY DEF IInv, ParseJVMParamsFromString
  <2> QED
    BY <2>1, <2>2, MaxHeapResolves DEF ParseJVMParamsFromStringD
<1> QED
  BY IInvInit, IInvStep, <1>1, PTL DEF Spec

(* Section 4.3 of the spec for the initial heap, as the copy of           *)
(* src/unnamed/part_000 implements it: for all command lines and options   *)
(* variables with non-zero sizes, the reported initial heap is the one     *)
(* section 4.3 prescribes (the rightmost explicit size, which beats        *)
(* InitialRAMPercentage) computed over -Xms and -XX:MinHeapSize alone: an  *)
(* -XX:InitialHeapSize anywhere in the text is ignored, the divergence     *)
(* MCJvmParamParser_initspelling.cfg shows.                                *)
THEOREM InitialHeapIgnoresInitialHeapSize ==
  ASSUME ParserVariant = "unnamed", CmdLines \cup EnvValues \subseteq Seq(SizedTokens)
  PROVE  Spec => [](polled =>
                      params.init = SpecInitialHeapOver(args, SpecInitialHeapForms \ {"XXInitialHeapSize"}))
<1>1. SpecInitialHeapForms \ {"XXInitialHeapSize"} = InitialHeapFormsD
  BY DEF SpecInitialHeapForms, InitialHeapFormsD
<1>2. IInv => (polled => params.init = SpecInitialHeapOver(args, SpecInitialHeapForms \ {"XXInitialHeapSize"}))
  <2> SUFFICES ASSUME IInv, polled PROVE params.init = SpecInitialHeapOver(args, InitialHeapFormsD)
    BY <1>1
  <2>1. args \in Seq(SizedTokens)
    BY ArgsIn
  <2>2. params = ParseJVMParamsFromStringD(args)
    BY DEF IInv, ParseJVMParamsFromString
  <2> QED
    BY <2>1, <2>2, InitialHeapResolves DEF ParseJVMParamsFromStringD
<1> QED
  BY IInvInit, IInvStep, <1>2, PTL DEF Spec

(* The rightmost occurrence in a text that ends with c is the rightmost    *)
(* occurrence in c, when c has one: parseJVMParams appends the command    *)
(* line last.                                                              *)
LEMMA RightmostConcat ==
  ASSUME NEW E \in Seq(Token), NEW c \in Seq(Token), NEW F, Positions(c, F) # {}
  PROVE  /\ Len(E) + Rightmost(Positions(c, F)) \in Positions(E \o c, F)
         /\ Rightmost(Positions(E \o c, F)) = Len(E) + Rightmost(Positions(c, F))
         /\ (E \o c)[Len(E) + Rightmost(Positions(c, F))] = c[Rightmost(Positions(c, F))]
<1> DEFINE a == E \o c
           k == Rightmost(Positions(c, F))
           K == Len(E) + k
<1>1. Positions(c, F) \in SUBSET (0..Len(c)) /\ Len(c) \in Nat
  BY DEF Positions
<1>2. k \in Positions(c, F) /\ \A j \in Positions(c, F) : j <= k
  BY <1>1, RightmostFacts
<1>3. /\ a \in Seq(Token)
      /\ Len(a) = Len(E) + Len(c)
      /\ \A i \in 1..Len(c) : a[Len(E) + i] = c[i]
  OBVIOUS
<1>4. k \in 1..Len(c) /\ c[k].f \in F
  BY <1>2 DEF Positions
<1>5. K \in Positions(a, F)
  BY <1>3, <1>4 DEF Positions
<1>6. \A j \in Positions(a, F) : j <= K
  <2> SUFFICES ASSUME NEW j \in Positions(a, F), j > Len(E) PROVE j <= K
    BY <1>4 DEF Positions
  <2>1. j - Len(E) \in 1..Len(c) /\ a[j] = c[j - Len(E)]
    BY <1>3 DEF Positions
  <2>2. j - Len(E) \in Positions(c, F)
    BY <2>1 DEF Positions
  <2>3. j \in Nat /\ Len(E) \in Nat /\ k \in Nat
    BY <1>3, <1>4 DEF Positions
  <2> QED
    BY <2>2, <2>3, <1>2
<1>7. Positions(a, F) \in SUBSET (0..Len(a)) /\ Len(a) \in Nat
  BY <1>3 DEF Positions
<1>8. Rightmost(Positions(a, F)) = K
  BY <1>5, <1>6, <1>7, RightmostIsTop
<1> QED
  BY <1>3, <1>4, <1>5, <1>8

(* A heap size on the command line overrides every options variable when  *)
(* no percentage is set anywhere, in both copies of parseJVMParams: the    *)
(* command line is appended last and the rightmost occurrence wins.       *)
THEOREM CommandLineOverridesEnvironmentHolds == Spec => []CommandLineOverridesEnvironment
<1>1. IInv => CommandLineOverridesEnvironment
  <2> SUFFICES ASSUME IInv, polled, NoPct(args)
               PROVE  /\ Positions(cmdline, SpecMaxHeapForms) # {} =>
                           params.max = SpecAbsolute(cmdline, SpecMaxHeapForms)
                      /\ Positions(cmdline, InitialHeapFormsD) # {} =>
                           params.init = SpecAbsolute(cmdline, InitialHeapFormsD)
    BY DEF CommandLineOverridesEnvironment
  <2>1. PICK e \in {env, NoEnv} : args = CombinedArgs(e, cmdline)
    BY DEF IInv
  <2>2. e \in [EnvNames -> Seq(Token)] /\ cmdline \in Seq(Token)
    BY <2>1, ParserAssumption, EnvType DEF IInv, TypeOK
  <2> DEFINE E == e[EnvVars[1]] \o e[EnvVars[2]] \o e[EnvVars[3]] \o e[EnvVars[4]]
  <2>3. E \in Seq(Token) /\ args = E \o cmdline
    <3>1. \A i \in 1..4 : e[EnvVars[i]] \in Seq(Token)
      BY <2>2 DEF EnvNames, EnvVars
    <3> QED
      BY <2>1, <3>1 DEF CombinedArgs
  <2>4. args \in Seq(Token)
    BY <2>2, <2>3
  <2>5. \A f \in PctForms : ParsePercentage(XXOptions(args), f) = 0
    <3> SUFFICES ASSUME NEW f \in PctForms PROVE ParsePercentage(XXOptions(args), f) = 0
      OBVIOUS
    <3>1. Positions(args, {f}) = {}
      BY DEF NoPct, Positions
    <3> QED
      BY <2>4, <3>1, PercentageRightmost DEF SpecPct
  <2>6. /\ params.max = RightmostSize(args, MaxHeapFormsD)
        /\ params.init = RightmostSize(args, InitialHeapFormsD)
    <3>1. /\ ParseJVMParamsFromStringD(args).max = RightmostSize(args, MaxHeapFormsD)
          /\ ParseJVMParamsFromStringD(args).init = RightmostSize(args, InitialHeapFormsD)
      BY <2>5 DEF ParseJVMParamsFromStringD, MaxHeapPrecedence, InitialHeapPrecedence, PctForms
    <3>2. /\ ParseJVMParamsFromStringA(args).max = RightmostSize(args, MaxHeapFormsD)
          /\ ParseJVMParamsFromStringA(args).init = RightmostSize(args, InitialHeapFormsD)
      BY <2>5 DEF ParseJVMParamsFromStringA, SentinelIfPercentage, PctForms
    <3> QED
      BY <3>1, <3>2 DEF IInv, ParseJVMParamsFromString
  <2>7. ASSUME NEW F, Positions(cmdline, F) # {}
        PROVE  RightmostSize(args, F) = SpecAbsolute(cmdline, F)
    <3>1. Rightmost(Positions(args, F)) = Len(E) + Rightmost(Positions(cmdline, F))
          /\ args[Len(E) + Rightmost(Positions(cmdline, F))] = cmdline[Rightmost(Positions(cmdline, F))]
      BY <2>2, <2>3, <2>7, RightmostConcat
    <3>2. Positions(args, F) # {}
      BY <2>2, <2>3, <2>7, RightmostConcat
    <3> QED
      BY <3>1, <3>2 DEF RightmostSize, SpecAbsolute
  <2> QED
    BY <2>6, <2>7 DEF SpecMaxHeapForms, MaxHeapFormsD
<1> QED
  BY IInvInit, IInvStep, <1>1, PTL DEF Spec

=============================================================================
