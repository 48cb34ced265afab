----------------------------- MODULE MCThreads ------------------------------
(***************************************************************************)
(* Kinds of programs that record threads.                                  *)
(***************************************************************************)
EXTENDS Threads

Program(style, sliceLoop, maxResets) ==
  [style |-> style, sliceLoop |-> sliceLoop, maxResets |-> maxResets]

(* Tests, which reset the library between recordings, and programs with a  *)
(* slice loop that constructs its threads, as the benchmarks do.           *)
TestsAndBenchmarks ==
  { Program("begin_thread", FALSE, 1), Program("constructor", TRUE, 0) }

Constructing == { Program("constructor", FALSE, 0) }

(* A slice loop that resets the library between slices.                    *)
ResettingLoop == { Program("begin_thread", TRUE, 1) }
=============================================================================
