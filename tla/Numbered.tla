------------------------------ MODULE Numbered ------------------------------
(***************************************************************************)
(* Items that are numbered in the order in which they come about, such as  *)
(* the packets of a send queue and the bars of a feed.                     *)
(***************************************************************************)
EXTENDS Integers, Sequences

(* The items of s come once each and in their order. *)
Ascending(s) == \A i, j \in 1..Len(s) : i < j => s[i].n < s[j].n
=============================================================================
