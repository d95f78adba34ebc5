-------------------------- MODULE MCMessageOutbox --------------------------
(* Instances of MessageOutbox for TLC. *)
EXTENDS MessageOutbox, TLC

AllOrNone == {[m \in Message |-> A] : A \in {Member, {}}}
AnyDelivery == [Message -> {"immediate", "digest"}]
Immediate == {[m \in Message |-> "immediate"]}
NoPreference == {[a \in Member |-> "every"]}
=============================================================================
