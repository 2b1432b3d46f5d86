------------------------------ MODULE Channels ------------------------------
(***************************************************************************)
(* How often an entry stands in a channel.                                 *)
(***************************************************************************)
EXTENDS Naturals, Sequences, FiniteSets

Count(b) == IF b THEN 1 ELSE 0

Places(channel, x) == {i \in 1 .. Len(channel) : channel[i] = x}

Queued(channel, x) == Cardinality(Places(channel, x))

=============================================================================
