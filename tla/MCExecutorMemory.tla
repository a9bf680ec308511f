-------------------------- MODULE MCExecutorMemory --------------------------
(* A small instance of ExecutorMemory: a page holds 4 bytes, a medium page *)
(* is 2 pages and a large one 4.                                           *)
EXTENDS ExecutorMemory

MCPage == 1 .. 9
MCOpcodeSizes == {2, 3, 9}
MCModuleSizes == {0, 10, 18}

=============================================================================
