--------------------------------- MODULE MCListing --------------------------------
(* Listing for TLC: rows and departments are interchangeable.  The caller stops at
   the last page. *)
EXTENDS Listing, TLC

ListingSymmetry == Permutations(Rows) \cup Permutations(Departments)

===================================================================================
