-------------------------- MODULE MCPoolLifecycle --------------------------
(* Small instances of PoolLifecycle. *)
EXTENDS PoolLifecycle, TLC

Use(calls, unique, hwm) == [calls |-> calls, unique |-> unique, Hwm |-> hwm]

\* Every call, reqIds that collide and a socket that fills up; or a calm use.
AnyUse == Use({"Create", "Delete", "SetProtocolVersion", "Open", "Refresh", "Submit", "Close"},
              FALSE, 2)
CalmUse == Use({"Create", "Open", "Submit", "Close"}, TRUE, 6)
AnyOrCalm == {AnyUse, CalmUse}
WithDelete == {Use({"Create", "Open", "Delete"}, TRUE, 6)}
=============================================================================
