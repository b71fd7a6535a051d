---------------------------- MODULE EscrowContract ----------------------------
(***************************************************************************)
(* What the platform promises about the money of one booking: it is        *)
(* collected once, and leaves the escrow at most once and to one party,    *)
(* the traveler or the sender.  BookingPayment implements it.              *)
(***************************************************************************)
VARIABLE funds

FundStates == {"none",       \* nothing collected
               "held",       \* collected, nobody has a claim yet
               "owed",       \* a payout to the traveler is pending
               "paid",       \* the traveler is paid
               "returning",  \* a refund to the sender is pending
               "returned",   \* the sender is refunded
               "blocked"}    \* the provider failed the refund: nothing more happens

Init == funds = "none"

Move(from, to) == funds \in from /\ funds' \in to

Collect == Move({"none"}, {"held"})
Owe     == Move({"held"}, {"owed"})
Pay     == Move({"owed"}, {"paid"})
\* From "owed": a dispute is decided for the sender before the payout is made.
Refund  == Move({"held", "owed"}, {"returning", "returned"})
Settle  == Move({"returning"}, {"returned", "blocked"})

Next == Collect \/ Owe \/ Pay \/ Refund \/ Settle

Spec == Init /\ [][Next]_funds
=============================================================================
