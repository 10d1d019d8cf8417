----------------------------- MODULE MCDelivery -----------------------------
(***************************************************************************)
(* Delivery with two issues and two phones (delivery, delivery_presence)   *)
(* or one (delivery_hold, delivery_report).  The phones are interchange-   *)
(* able; the issues are not, for Deactivate withdraws tags in an order     *)
(* that CHOOSE fixes.                                                      *)
(***************************************************************************)
EXTENDS Delivery

PhoneSymmetry == Permutations(Phones)
=============================================================================
