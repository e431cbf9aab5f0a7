--------------------------- MODULE MCDvpRecording ----------------------------
(* Runs of the harness, and the edits that are tried on the claims they left. *)
EXTENDS DvpRecording

\* Every field forged: absent, another run's value, or one nobody recorded.
ids(kind) == {<<kind, r>> : r \in 0 .. 1}
MCForged ==
    [canton_version_observed |-> {Missing}, synchronizer_id |-> {"other"},
     alice |-> {"third"}, bob |-> {"third"}, executor |-> {"alice"},
     packages_observed |-> {<<>>, [p \in RequiredPackages |-> <<p, 0>>]},
     choices_exercised |-> {RequiredChoices \cup {"Archive"}, RequiredChoices \ {"Allocation_Settle"}},
     expiry_lock_id |-> {lockId(1)},
     deadline |-> {0, MaxTime}, expires_at |-> {0, MaxTime}, enact_rejected_at |-> {Missing, MaxTime},
     enact_rejection |-> {{"POST status line"}},
     withdrawn_cid |-> {<<"withdrawn", 0>>}, run_nonce |-> {Missing, 1}, recorded_at |-> {Missing, MaxTime},
     update_id |-> ids("settle"), effective_at |-> {Missing, 1}, lock_id |-> {Missing, lockId(0)},
     lock_contract_id |-> ids("lock"), command_count |-> {3},
     transfer_leg_ids |-> {<<>>, <<deliveryLegId(0)>>, <<paymentLegId(1)>>},
     amulet_allocation_cids |-> {<<<<"sender", 1>>>>, <<<<"receiver", 1>>, <<"sender", 1>>>>},
     delivery_cid |-> ids("delivered"), delivery_package |-> {"splice-amulet"},
     delivery_receiver |-> {"alice", "third"}, delivery_amount |-> {Missing, 99},
     delivery_instrument |-> {"Amulet"},
     payment_cid |-> ids("paid"), payment_package |-> {"splice-test-token-v2"},
     payment_receiver |-> {"bob", "third"}, payment_amount |-> {0},
     payment_sender |-> {"alice", "third"}, payment_instrument |-> {"TestToken"},
     expire_update_id |-> ids("expire"), returned_contract_id |-> ids("returned"),
     returned_owner |-> {"bob"}, returned_amount |-> {99}]
=============================================================================
