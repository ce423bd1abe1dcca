----------------------------- MODULE MCSmgMemory -----------------------------
(***************************************************************************)
(* Programs for checking SmgGraph, and that it implements PointerMemory.   *)
(***************************************************************************)
EXTENDS SmgMemory

\* Every memory instruction of MemoryGraphAnalysis.hpp that SmgGraph models.
AllInstructions == {"alloca", "malloc", "loadInt", "loadPtr", "storeInt", "storePtr",
                    "gep", "gepUnknown", "bitcast", "memset", "cmp", "free"}

\* Programs that build linked structures, pass pointers into the middle of
\* them around, overwrite them with values that are no known pointers, and
\* free them.
LinkInstructions == {"malloc", "alloca", "loadPtr", "storePtr", "gep", "free"}

\* Programs that compute addresses.
AddressInstructions == {"malloc", "gep"}
=============================================================================
