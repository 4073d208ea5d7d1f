-------------------------- MODULE MCJvmParamParser --------------------------
(* Small alphabets of flag tokens for parseJVMParams.  Sizes are chosen    *)
(* pairwise distinct so that the winning occurrence is visible.            *)
EXTENDS JvmParamParser

Tok(f, n, u) == [f |-> f, n |-> n, u |-> u, w |-> "none"]
Xmx1m        == Tok("Xmx", 1, "m")
Xmx2k        == Tok("Xmx", 2, "k")
MaxHeap1024  == Tok("XXMaxHeapSize", 1024, "")
Xms1k        == Tok("Xms", 1, "k")
MinHeap1m    == Tok("XXMinHeapSize", 1024, "k")
InitHeap2m   == Tok("XXInitialHeapSize", 2, "m")
MaxPct50     == Tok("XXMaxRAMPercentage", 50, "")
MaxPct0      == Tok("XXMaxRAMPercentage", 0, "")
InitPct25    == Tok("XXInitialRAMPercentage", 25, "")
G1           == Tok("XX+UseG1GC", 0, "")

SeqsUpTo(S, n) == UNION {[1..k -> S] : k \in 0..n}

(* Command lines of up to three flags; each variable unset or one flag.   *)
MCCmdLines  == SeqsUpTo({Xmx1m, MaxHeap1024, Xms1k, MinHeap1m, MaxPct50, InitPct25}, 3)
MCEnvValues == {<<>>, <<Xmx2k>>, <<MaxPct0>>, <<Xms1k, G1>>}

(* The same with -XX:InitialHeapSize among the flags.                      *)
MCCmdLinesInit  == SeqsUpTo({Xms1k, InitHeap2m, InitPct25}, 3)
MCEnvValuesInit == {<<>>, <<MinHeap1m>>}

(* Two variables setting different max heaps, a command line without one. *)
MCCmdLinesOrder  == SeqsUpTo({Xms1k, G1}, 2)
MCEnvValuesOrder == {<<>>, <<Xmx2k>>, <<MaxHeap1024>>}
(* A zero size, which the precedence step cannot tell from an unset one,   *)
(* with a max percentage (hand run: MCJvmParamParser_zerosize.cfg).        *)
Xmx0         == Tok("Xmx", 0, "")
MCCmdLinesZero  == SeqsUpTo({Xmx0, MaxPct50}, 2)
MCEnvValuesZero == {<<>>}
=============================================================================
