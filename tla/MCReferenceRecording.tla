------------------------- MODULE MCReferenceRecording ------------------------
(* Networks, image tags (two of which run into each other once joined by a   *)
(* dash), and values typed over the output of the reference script.          *)
EXTENDS ReferenceRecording

MCNetworks == {<<"localnet">>, <<"localnet", "mainnet">>}
MCTags == {<<"0.8.0">>, <<"mainnet", "0.8.0">>}

MCForged ==
    [lock |-> {Missing, <<"settle lock", 1>>, <<"award lock", 0>>},
     outputs |-> {<<>>, <<<<"award out", 1>>>>},
     rule |-> {Missing},
     enacted_at |-> {Missing} \cup 0 .. MaxTime]
=============================================================================
