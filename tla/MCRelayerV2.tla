---------------------------- MODULE MCRelayerV2 ----------------------------
(* Instances of RelayerV2 for TLC.                                          *)
EXTENDS RelayerV2, TLC

CONSTANTS vote1, vote2, k1, k2, x1, x2, c1, c2, c3, h1, h2

(* Two unrelated votes.                                                     *)
TwoVotes == {[id |-> vote1, key |-> k1, hash |-> x1, cap |-> c1],
             [id |-> vote2, key |-> k2, hash |-> x2, cap |-> c2]}

(* The two votes, and the bytes of the first under the id and the key of    *)
(* the second.                                                              *)
Clashing == TwoVotes \cup {[id |-> vote2, key |-> k2, hash |-> x1, cap |-> c3]}

(* Deliveries are alike until one has begun: only safety is checked with it. *)
HandlersAlike == Permutations(Handlers)
=============================================================================
