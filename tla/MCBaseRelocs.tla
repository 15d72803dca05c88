------------------------------ MODULE MCBaseRelocs ------------------------------
(* Instances of BaseRelocs: sites at both ends of two adjacent pages and in a *)
(* page behind a gap, twice the same site, up to four relocations.            *)
EXTENDS BaseRelocs, TLC

MCRelocs ==
  { [rva |-> r, type |-> 10] : r \in {8192, 12280, 12287, 12288, 69632} }
    \cup { [rva |-> 8192, type |-> 3], [rva |-> 12296, type |-> 3] }

MCEntryLists == UNION {[1 .. k -> MCRelocs] : k \in 0 .. 4}
===============================================================================
