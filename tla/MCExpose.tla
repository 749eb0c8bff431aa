------------------------------ MODULE MCExpose ------------------------------
(***************************************************************************)
(* A directory of three entries, the last one the kernel's, with page      *)
(* tables of two pages; an address is the first byte of a page or another. *)
(***************************************************************************)
EXTENDS ExposePageTable

\* It begins in the first region, or with the second, and ends in the second.
MCPfnMaps == {<<0, 5>>, <<2, 6>>, <<4, 6>>}

=============================================================================
