----------------------------- MODULE MCListing -----------------------------
(***************************************************************************)
(* Four videos, and clients that ask for pages of one or two of them, or   *)
(* for more than the API takes.  Offsets overflow beyond page 4, and there *)
(* are pages whose offset comes out as one of the table again.             *)
(***************************************************************************)
EXTENDS Listing, TLC

Videos == Permutations(Video)
=============================================================================
