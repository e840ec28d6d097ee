----------------------------- MODULE MCBench -----------------------------
(* The bench on its own, for what it leaves behind when it is signalled.    *)
EXTENDS BenchMotion

Spec == BenchInit /\ [][BenchNext]_bench_vars
=============================================================================
