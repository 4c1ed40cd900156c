------------------------------ MODULE MCJitSlots ------------------------------
(* Instances of JitSlots for TLC. safeParse stands for both synchronous        *)
(* methods and safeParseAsync for both asynchronous ones.                      *)
EXTENDS JitSlots

MCSlots == <<"safeParse", "safeParseAsync", "is", "~standard">>
==============================================================================
