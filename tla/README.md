# Formal models of the coroot-node-agent JVM and OOM-context code

This directory holds TLA+ models of the code under `src/`, the TLC
configurations that check them, and TLAPS proofs. `PROJECT.json` lists:
- the components;
- every run, with its properties and what it shows;
- the mutants that show each checked property can be broken;
- the map from each TLA+ definition to the source lines it translates;
- the findings, the hazards and the theorems.

## The system

The code under `src/` is the part of the node agent that describes JVM
processes and OOM kills.

* **JVM heap parameter parser.** `parseJVMParams(cmdline, pid)` reads
  `/proc/<pid>/environ`, appends the four options variables
  (`JAVA_TOOL_OPTIONS`, `_JAVA_OPTIONS`, `JDK_JAVA_OPTIONS`,
  `IBM_JAVA_OPTIONS`) and then the command line, and resolves these from the
  combined text:
  - the max and initial heap;
  - the RAM percentages;
  - the `-XX:` options.

  There are two copies:
  - `src/containers/jvm_param_parser.go`, where any percentage replaces a size
    by the sentinel -1;
  - `src/unnamed/part_000` lines 699-974, with a position-based precedence.
* **Vendor-aware orchestrator.** `ParseJVMParams(cmdline, pid)`, in part_000
  lines 228-676, works in these steps:
  1. It attaches to the JVM through `jvm.GetVMFlags`. If that fails, it parses
     the command line only (`parseFromCmdline`).
  2. It detects the vendor from `VM.system_properties`, then from `VM.version`
     (`jvm.GetSystemProperties`, `jvm.GetVersion`), then from the flags text.
  3. It parses `VM.flags` the vendor's way and classifies the GC.
  4. When the dump gave no heap size, it fills fields from the command line.

  Each attach call dials the JVM anew (`src/jvm/perfmap.go`) and may fail on
  its own.
* **OOM context collector** (`src/unnamed/part_001`). `RecordOOM` runs under
  the write lock of an RWMutex. It does the following:
  - stamps a context with `time.Now()`;
  - samples the memory pressure through `node.GetSystemPressure`;
  - stores the context by PID;
  - when the map holds more than 100 entries, deletes the entry it finds
    oldest.

  `GetOOMContext` and `GetRecentOOMs` read under the read lock.
* **JVM process detection** (`src/proc/jvm.go`, and
  `IsPerfmapDumpSupported` in `src/jvm/perfmap.go`). `IsJvm` decides from the
  bytes of `/proc/<pid>/cmdline` whether a process is a JVM:
  1. without a NUL byte, never;
  2. by the executable's name, exactly or as `java`, `openjdk` or `graalvm`
     followed by a version suffix (`isVersionSuffix`);
  3. by any of a list of JVM-specific substrings of the command line.
* **Node pressure** (`src/node/pressure.go`). This file reads
  `/proc/pressure/{memory,cpu,io}` and holds two classifiers of the memory
  sample: `IsMemoryPressureHigh` and `GetMemoryPressureLevel`.

These parts are not modelled:
- the older GC-only `ParseJVMParams(pid)` in part_000 lines 1-186;
- `DumpPerfmap`, whose result no code under `src/` reads;
- the metric categorisers `GetMemoryPressureCategory` and
  `GetMemoryUsageCategory`;
- the node memory usage, because `node.MemoryInfo` is not under `src/`;
- the tests, the docs and the test image.

The tests and `docs/JVM_COMPATIBILITY.md` are used as statements of intended
behaviour.

## Modules

| module | models |
|---|---|
| `JvmFlags` | The token abstraction and the pure parsers of both copies of `parseJVMParamsFromString`, `parseMemorySize`, `parsePercentage`, and the concatenation of `parseJVMParams`. |
| `JvmParamParser` | `parseJVMParams` as one action. `readEnviron` either succeeds or returns the empty map. The constant `ParserVariant` selects the copy. |
| `JvmVMFlags` | `parseSize`, `parseFromCmdline`, `parseGCTypeFromCmdline`, the HotSpot and OpenJ9 GC classifiers and VM.flags parsers, `parseVMFlagsOutput`, the three vendor detectors, and the command-line fallback (`FallbackMerge`). |
| `JvmParamsOrchestrator` | `ParseJVMParams` as a sequence of steps, one per attach call. |
| `JvmParamsResolver` | The abstract specification of `ParseJVMParams`: one atomic step that returns the command-line parse, or the dump parsed for a candidate vendor and merged with the command line. The parsers are constant parameters. |
| `ProcJvm` | `IsJvm`, `isVersionSuffix` and `IsPerfmapDumpSupported` as operators, and one inspection step that applies them. |
| `NodePressure` | `readPressureFile`, `GetSystemPressure` and the two classifiers, for the memory resource. |
| `OOMContextCollector` | `RecordOOM`, `GetOOMContext`, `GetRecentOOMs`, and the kernel updating the PSI file. |
| `LoopScan` | A generic left-to-right loop `Scan(b)` over a token sequence with a step operator, and the lemmas that let proofs reason about such loops: its equation, and an invariant rule over the positions. The proofs use it through instances for `parseFromCmdline`'s scan, the GC classifiers' scans and the `-XX:` option filter. |
| `MC*` | Constants for TLC. |
| `*_proofs` | TLAPS proofs. |

**Data abstraction.** A command line, environment value or VM.flags dump is a
sequence of tokens `[f, n, u, w]`:
- `f` is the spelling the regexes and `strings.Contains` tests tell apart
  (`Xmx`, `XXMaxHeapSize`, `XX+UseG1GC`, ...);
- `n` and `u` are the number and unit of a size;
- `w` is a vendor word of free text.

A token's index stands for its character offset. The offsets of distinct
tokens are ordered as their indices, which is all the "rightmost" and
"position" comparisons use.

In variant C the sizes are strings:
- `parseSize` returns a plain number as written and a number with a unit as
  the product text `n×multiplier`;
- the model keeps that distinction (`Text` and `Product`) and does not
  convert to bytes.

**Switches and first-match chains.** The code's `switch` statements and
`if ... else if` chains take the first case that matches. A TLA+ `CASE` whose
guards overlap is a `CHOOSE` among the true arms, so it does not say
first-match, and the provers cannot reason about it. The models therefore
write these as `IF ... ELSE IF` chains in the code's order:
- the GC classifiers `ParseHotSpotGCType`, `InferGC` and `PolicyGC`;
- the vendor detectors `PropsVendor`, `VersionVendor` and `DetectJVMVendor`;
- `GetMemoryPressureLevel`, the unit switch `UnitFactor` and `SpecMaxHeap`.

`XXOptions`, the `-XX:` filter, is `SelectSeq` written out as the recursive
function that defines `SelectSeq` in `Sequences`, so that proofs can unfold it.
TLC gives the same results as with the earlier forms.

Pressure averages are integers in hundredths. The kernel prints two decimals,
so the threshold comparisons are exact.

**Concurrency and time.** The RWMutex makes each collector call one atomic
step, so the interleavings are those of whole calls by concurrent goroutines.
`time.Now()` is the monotonic clock:
- a reading is never earlier than the one before;
- `StrictClock = FALSE` lets two readings be equal, as on a coarse clock or
  for two calls in the same tick.

Go's random map iteration is nondeterminism over which of the equally old
entries the eviction scan keeps.

**The orchestrator's steps.** The actions follow the attach calls in order:
- `GetVMFlags`: the dump, or the command-line parse on failure;
- `GetSystemProperties`: recognised, unrecognised (go on to `VM.version`), or
  failed (Unknown);
- `GetVersion`: recognised or failed;
- `ParseVMFlags`: flags-based detection when still Unknown, parsing, and the
  fallback;
- `Repoll`: the caller's next poll.

The JVM is fixed for the run.

**The refinement.** `JvmParamsOrchestrator` instantiates `JvmParamsResolver`
with this mapping:
- `done` is `pc = "done"`;
- `result` is `params`;
- the parser and detector parameters are the operators of `JvmVMFlags`.

`GetVMFlags` on success, `GetSystemProperties` and `GetVersion` map to
stutters. `GetVMFlags` on failure and `ParseVMFlags` map to `Resolve`.
`Repoll` maps to `Poll`. The property `ResolverRefinement` is `Abs!Spec`.

**The process detector.** `ProcJvm` abstracts a command line to a record:
- `nul`: whether the bytes hold a NUL at all. The kernel ends every argument
  with one. A process that rewrote its title into one string has none.
- `exe`: the last `/`-component of the text before the first NUL. It is a base
  word and a suffix of character classes (`-`, `_`, `.`, a digit `d`, the
  letter `c`, any other `x`). `javac` is `java` followed by `c`.
- `args`: the other arguments, as the flag tokens of `JvmFlags`, plus the
  spellings only the indicator list tells apart (`-jar`, `-cp`,
  `-classpath`, `-javaagent:`, a package prefix, `±PreserveFramePointer`).

`Indicators` gives the substrings of `jvmIndicators` that an argument contains
once its NUL has become a space. `Inspect` applies `IsJvm` and
`IsPerfmapDumpSupported` to one command line. No caller of these functions is
under `src/`.

## Runs

Run them with `tlc -workers 2 -config X.cfg MCModule`.

| run | cfg | result | shows |
|---|---|---|---|
| parser_main | `MCJvmParamParser.cfg` | pass (about 200k states) | The part_000 parser resolves the rightmost explicit size or the percentage sentinel exactly as the reference definitions `SpecMaxHeap` and `SpecInitialHeap` do. The command line overrides the environment. |
| parser_envorder | `_envorder.cfg` | violation | The comment "in order of precedence (highest to lowest)" is wrong: the last variable set wins. |
| parser_initspelling | `_initspelling.cfg` | violation | `-XX:InitialHeapSize` is ignored by the part_000 parser. |
| parser_containers | `_containers.cfg` | violation | The containers copy discards an explicit `-Xms` when an initial percentage is set. |
| orchestrator_main | `MCJvmParamsOrchestrator.cfg` | pass | A failed attach reports the rightmost command-line heap settings (`CommandLineFallbackRightmost`). Every invocation refines the one-step resolver (`ResolverRefinement`). |
| orchestrator_gc_lastwins | `_GCLastWinsOnFallback.cfg` | violation | The command-line GC scan is first-wins, but the test expects last-wins. |
| orchestrator_fieldwise | `_FieldwiseFallback.cfg` | violation | A dump with only an initial heap drops a command-line max heap. |
| orchestrator_hotspot_gc | `_HotSpotGCDetected.cfg` | violation | Temurin (`java.vendor=Eclipse Adoptium`) is detected as OpenJ9. |
| collector_main | `MCOOMContextCollector.cfg` | pass (about 840k states) | With a strict clock: the map stays within its bound, the entry just recorded stays retrievable, and the eviction deletes an oldest entry. |
| collector_coarse_bound | `_coarse_BoundedRecentOOMs.cfg` | violation | With equal clock readings, PID 0 is deleted and the map outgrows its bound. |
| collector_unreadable_psi | `_UnreadablePressureUnknown.cfg` | violation | An unreadable PSI file is recorded as "none", never as "unknown". |
| procjvm_main | `MCProcJvm.cfg` | pass | `java`, `openjdk` and `graalvm` with a commented version suffix (`8`, `-11`, `_8`, `.17`, up to three digits) are detected by name (`VersionedLaunchersDetected`). |

`MCOOMContextCollector_LevelAgreesWithIsHigh.cfg` is kept for running by hand,
outside the runs of `PROJECT.json`. TLC finds `LevelAgreesWithIsHigh` violated
there: the level is "high" while `IsMemoryPressureHigh` is false, e.g. for some
5.00% with full 2.00%. No statement in the code, the tests or the spec relates
the two classifiers, so it is listed as a hazard, not as a finding.

**Bounds.**

*Parser runs.*
- Command lines have up to three tokens drawn from six spellings, which covers:
  - repeated sizes of two spellings;
  - a percentage after one or after several sizes (the count condition of
    line 916).
- Environment values cover an unset variable, a size, a zero percentage and a
  GC flag.

*Orchestrator runs.*
- There are five vendor profiles: Oracle or OpenJDK HotSpot, Temurin, Zulu
  (decided by VM.version), OpenJ9 and GraalVM.
- Each profile has VM.flags dumps with both heap sizes, with neither, with a
  percentage only, or empty.
- Command lines have up to two tokens.
- Every failure pattern of the attach calls is explored.

*Process detection run.*
- The bases are `java`, `openjdk`, `kotlin` (which `kotlinc` extends) and
  `node`.
- Suffixes have up to three characters over `-`, `_`, `.`, digit and `c`.
  This covers every commented suffix, the three-digit limit, the trim order
  (`-_8` against `_-8`) and the exact names `javac` and `kotlinc`.
- There are up to two arguments from: a plain word, `-cp` (not an indicator),
  `-jar`, `-Xms`, `-XX:MaxRAMPercentage`, `-Xgcpolicy:gencon` (a GC flag
  without `-XX:`) and both `PreserveFramePointer` settings.
- Both values of `nul` are explored.

*Collector runs.*
- There are three PIDs and a bound `KeepOOMs = 2`. Eviction needs one more PID
  than the bound, and a third PID lets a tie hide among several entries.
- Clock readings go up to 6, enough for a full map plus re-recordings.
- There are five PSI samples, chosen on both sides of each threshold that the
  properties compare.

The bound of 100 entries in the code changes nothing: the eviction logic never
depends on its value, and the proofs hold for every `KeepOOMs`.

**No fairness.** The passing runs check safety only. Whether the poller
calls `ParseJVMParams` again is decided by code outside `src/`, and what an
invocation promises once started is already stated by `ResolverRefinement`
and `CommandLineFallbackRightmost`.

## Proofs

Check them with `tlapm <module>.tla`.

`OOMContextCollector_proofs` proves the following, for every set of PIDs,
every `KeepOOMs >= 1`, every `MaxTime` and every PSI content:

* `TypeCorrect: Spec => []TypeOK`. It rests on lemmas about `Store`, `Delete`,
  `Later` and `PressureOf`.
* `BoundedRecentOOMs` and `JustRecordedRetrievable` are not proved. They
  hold only when the two clock readings of `RecordOOM` differ, and
  `time.Now()` does not promise that: `collector_coarse_bound` shows the bound
  failing with equal readings. They stay model-checked, under
  `StrictClock = TRUE`, in `collector_main`.
* `EvictsOldestHolds: Spec => EvictsOldest`, the action property, for every
  clock, coarse or strict. The lemma `EvictStep` shows that every step of
  `Next`, from a state of `TypeOK`, is an `OldestEvicted` step. Only an
  overflowing `RecordOOM` removes anything. The entry it can remove is the
  victim. The victim is no recorded PID's zero sentinel (`NoPid` is not in
  `Pids`), so it was picked from the entries stamped before the second
  reading `t2`. It is no younger than any of those, and every entry the scan
  skipped is stamped at `t2` or later. No invariant beyond `TypeOK` is
  needed, which is why this property, unlike the bound, holds with a coarse
  clock too.

`JvmParamsOrchestrator_proofs` also proves `ResolverRefinementHolds:
Spec => ResolverRefinement`, for every set of JVMs and whatever the parsers
return. It rests on the inductive invariant `RInv`:
- between the attach calls, the dump held is the process's own VM.flags
  output;
- the vendor stays Unknown until a detector names one;
- at `parse`, the vendor is the properties', the version's, or Unknown.

The proof has two parts:
- `Init` maps to `Abs!Init`;
- each action maps to a stutter or to an abstract step. The lemma
  `ParseIsResolve` shows that the vendor `ParseVMFlags` parses for is in
  `CandidateVendors`.

The last step combines these by `PTL`.

`JvmParamsOrchestrator_proofs` also proves `FailedAttachReturnsCmdline:
Spec => [](pc = "done" /\ ~attached => params = Cmd)`. A finished invocation
whose attach failed returns the command-line parse of the same process, and
nothing from an earlier invocation's dump. The inductive invariant `FInv`
adds that every state past the attach has `attached` set. Without it,
`ParseVMFlags` would be a way to finish with `attached` false. This is the
orchestrator's half of `CommandLineFallbackRightmost`. The other half, that
the parse picks the rightmost heap flag, is a fact about the scan (see below).

`ProcJvm_proofs` proves `VersionedLaunchersDetectedHolds:
Spec => []VersionedLaunchersDetected` for every set of executable names and
command lines. It has two parts:
- The lemma `CommentedSuffixAccepted` says that `isVersionSuffix` accepts
  every suffix in `CommentedSuffixes`. It is proved per separator: `-`, `_`
  or `.` is the head of the suffix and `TrimPrefix` strips exactly it, while
  no `TrimPrefix` strips a digit. The lemmas `SeparatorFacts` and
  `DigitsUntrimmed` carry these facts, using `ConcatProperties`,
  `HeadTailProperties` and `SeqEqual` of `SequenceTheorems`.
- The invariant `PInv` says that an inspected process's recorded answer is
  `IsJvm` of its command line.

**Loops over token sequences.** `parseFromCmdline`'s scan, the GC
classifiers and the `-XX:` filter are recursive functions over the positions
`0..Len(b)`. `LoopScan` proves, once, the rule these proofs use:
- if a set `G` of pairs `<<k, v>>` contains `<<0, c>>`;
- and is closed under one step of the loop;
- then `<<k, Scan(b)[k]>>` is in `G` for every `k`.

The rule is proved from the fixpoint equation of `Scan`. That equation
follows from the definition, with no induction theorem that takes an
operator parameter. Each proof defines `G` as the pairs where the prefix
result agrees with a rightmost-match definition over the first `k` tokens.

`JvmParamsOrchestrator_proofs` proves `TypeCorrect: Spec => []TypeOK` with one
step per action. It also proves `CommandLineFallbackRightmostHolds:
Spec => []CommandLineFallbackRightmost`. The lemma `CmdlineRightmost` shows that `parseFromCmdline` returns the value of the
rightmost `-Xmx`/`-XX:MaxHeapSize` and `-Xms`/`-XX:InitialHeapSize` for every
command line. Combined with `FailedAttachReturnsCmdline`, this gives the
property.

`JvmParamParser_proofs` proves these results for both copies of the parser,
for all command lines and options variables:
- `TypeCorrect: Spec => []TypeOK`;
- `CommandLineOverridesEnvironmentHolds`, with no hypothesis;
- for the copy in `part_000`, `MaxHeapMatchesSpecHolds`;
- for the copy in `part_000`, `InitialHeapIgnoresInitialHeapSize`: for every
  command line, the initial heap reported is `SpecInitialHeapOver` with the
  spelling `-XX:InitialHeapSize` taken out of the explicit forms. So the code
  resolves §4.3 exactly as if that flag were absent, whatever its position.

They rest on the inductive invariant `IInv`, which TLC also checked on the
`parser_main` instance. Once a poll has happened:
- `args` is `CombinedArgs` of the command line with the environment read, or
  with the empty map;
- `params` is the parse of `args`.

The lemmas behind them:
- `PercentageRightmost`: `parsePercentage` over the `-XX:` options returns the
  rightmost percentage of the whole text.
- `MaxHeapResolves` and `InitialHeapResolves`: the precedence step equals
  `SpecMaxHeap` and `SpecInitialHeap`.
- `RightmostConcat`: the rightmost occurrence in `E \o c` is that of `c`.

The two spec theorems assume non-zero sizes,
`CmdLines \cup EnvValues \subseteq Seq(SizedTokens)`. The properties are
false without that. The precedence step reads `JavaMaxHeapSize == 0` as "no
explicit size" (part_000:910, 926). So `-Xmx0 -XX:MaxRAMPercentage=50`
reports -1, where §4.3 keeps the explicit 0. TLC finds this divergence with
`MCJvmParamParser_zerosize.cfg`, run by hand. The `parser_main` instance has
only non-zero sizes.

`InitialHeapIgnoresInitialHeapSize` has no hypothesis on the spelling. It says
what the code does with `-XX:InitialHeapSize`: it ignores it. Against the full
§4.3 (`SpecInitialHeap`), this is the divergence `parser_initspelling` shows.

Two tlapm limits shaped these proofs:
- The SMT backend fails on the empty string literal `""`. Steps that
  distinguish units therefore split on `u = "k"`, `u = "m"`, or neither.
- Zenon overflows its stack on the numeral `1048576`.

**Left to TLC.** Three properties of passing runs are model-checked and not
proved:
- `BoundedRecentOOMs` and `JustRecordedRetrievable` hold only under a strict
  clock, which `time.Now()` does not guarantee (see above);
- `InitialHeapMatchesSpec` holds only on inputs without
  `-XX:InitialHeapSize`; the theorem proves what the code computes instead.

No run checks liveness, so nothing is left to TLC for being out of the
prover's reach. The `GCLastWinsOnFallback`, `FieldwiseFallback`,
`HotSpotGCDetected`, `EnvPrecedenceAsCommented` and
`UnreadablePressureUnknown` runs are violations, shown by TLC.

## Plan for later sittings

* Model the GC-only `ParseJVMParams(pid)` (part_000:1-186), and check it
  against the vendor-aware classifier.
* Let the JVM restart between the attach calls (a stale-state hazard) and
  check what a mixed dump yields.
* Model a caller of `IsPerfmapDumpSupported` if one is added under `src/`. A
  later `-XX:-PreserveFramePointer` is ignored by the test (a hazard).
* Add the zero-size divergence as a run if one of the current runs is
  retired.
