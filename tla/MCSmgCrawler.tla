---------------------------- MODULE MCSmgCrawler ----------------------------
(***************************************************************************)
(* Programs that allocate nodes of a list, link and unlink them through    *)
(* fields at the offsets 0 and 1, and free them; the heap is searched for  *)
(* lists and plotted at any moment.                                        *)
(***************************************************************************)
EXTENDS SmgCrawler

ListInstructions == {"malloc", "gep", "storePtr", "free"}
=============================================================================
