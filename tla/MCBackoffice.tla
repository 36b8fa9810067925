---------------------------- MODULE MCBackoffice ----------------------------
(* Small instances of Backoffice for TLC. *)
EXTENDS Backoffice, TLC

CONSTANTS a1, a2, r1, r2, r3, n1, n2, n3, t1, q1, q2

MCAdmins == a1 :> [on |-> TRUE, role |-> r1]
MCRoles == r1 :> n1 @@ r2 :> n2
MCGrants == r1 :> {Manage, CouponWrite} @@ r2 :> {CouponWrite} @@ r3 :> {}

Update(a, r, name, replace, codes) ==
  [kind |-> "updateRole", by |-> a, role |-> r, name |-> name, replace |-> replace, codes |-> codes]
Patch(a, b, enabled, r) ==
  [kind |-> "updateAdmin", by |-> a, target |-> b, enabled |-> enabled, role |-> r]

MCCalls ==
  {Update(a1, r2, Keep, TRUE, {Manage}),
   Update(a1, r2, n3, TRUE, {CouponWrite}),
   Patch(a1, a2, FALSE, r2),
   [kind |-> "createRole", by |-> a1, name |-> n2, codes |-> {}],
   [kind |-> "bootstrap", target |-> a2, name |-> n2],
   [kind |-> "createTemplate", by |-> a2],
   [kind |-> "switch", by |-> a2, template |-> t1, status |-> "halted"]}
=============================================================================
