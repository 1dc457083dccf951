----------------------------- MODULE MCLogStore -----------------------------
(* LogStore with small batches: a zgram of either kind, or graffiti and then a *)
(* zgram that is logged.                                                       *)
EXTENDS LogStore

MCBatches == {<<"logged">>, <<"unlogged">>, <<"unlogged", "logged">>, <<"logged", "logged">>}
=============================================================================
