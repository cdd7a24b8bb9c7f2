----------------------------- MODULE MCAuction ------------------------------
(* Small instances of Auction for TLC. *)
EXTENDS Auction

\* An auction at once, one later, one whose window is empty.
ShortWindows == {<<0, 1>>, <<1, 2>>, <<1, 0>>}

Symmetry == Permutations(Lots) \cup Permutations(Bidders)

=============================================================================
