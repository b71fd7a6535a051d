---------------------------- MODULE MCWebhookInbox ----------------------------
(***************************************************************************)
(* Row 1 is a charge, row 2 its refund, each with a reference of its own   *)
(* as FakePaymentProvider gives them.                                      *)
(***************************************************************************)
EXTENDS WebhookInbox, TLC

CONSTANTS ok, ko, back

MCKindOf == ok :> "transaction.success" @@ ko :> "transaction.failed" @@ back :> "refund.completed"
FakeRefOf == ok :> "a" @@ ko :> "a" @@ back :> "b"
FakeRowRef == 1 :> "a" @@ 2 :> "b"

JobSymmetry == Permutations(Jobs)
=============================================================================
