------------------------------ MODULE MCRuntime ------------------------------
(* The owners of the small instance: one of each class. *)
EXTENDS Runtime

MCActionOwners == <<"fee_scheduler">>
MCObserverOwners == <<"production_db">>
\* Two forwards of one pair of channels and one amount.
MCCols == <<"a to b", "a to b">>
=============================================================================
