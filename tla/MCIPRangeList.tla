---------------------------- MODULE MCIPRangeList ----------------------------
(***************************************************************************)
(* An instance of module IPRangeList for TLC: lists over the middle of the *)
(* address space, which has two aligned blocks of four addresses.          *)
(***************************************************************************)
EXTENDS IPRangeList

\* Ranges that touch, overlap and nest, within the blocks and across them.
MCRanges == {<<4, 7>>, <<5, 6>>, <<6, 9>>, <<8, 8>>, <<10, 11>>}

\* Nothing, one address, and several that arrive out of order.
MCSkips == {<<>>, <<4>>, <<6>>, <<7, 5>>, <<5, 4>>, <<4, 6, 5>>}

==============================================================================
