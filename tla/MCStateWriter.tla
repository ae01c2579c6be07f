---------------------------- MODULE MCStateWriter ----------------------------
(* Two callers of the state writer, family by family.                       *)
EXTENDS StateWriter

Keep == [how |-> "keep", v |-> 0]
Clear == [how |-> "clear", v |-> 0]
Set(x) == [how |-> "set", v |-> x]
NoInput == [strategy |-> "keep", mode |-> "keep", fee |-> Keep, lo |-> Keep, hi |-> Keep, hours |-> {}, tags |-> {}]
MCSetInputs ==
  {[NoInput EXCEPT !.fee = Clear, !.lo = Set(20)], [NoInput EXCEPT !.strategy = "static", !.hours = {24}, !.tags = {{"vip"}}]}
MCSeedRows ==
  {[Default EXCEPT !.strategy = "static", !.fee = {500}, !.hi = {10}, !.tags = {"vip"}, !.exp = "later"]}
MCBatchBound == [f \in Families |-> IF f = "policy" THEN 2 ELSE 1]
=============================================================================
