---------------------------- MODULE MCBroadcaster ----------------------------
(* Model-checking instance of Broadcaster: a 4-bit word, the company      *)
(* wallet holding one UTXO (7 sompis) or two (13), both sums within the   *)
(* word as every real balance is within a u64, an event amount of 3 and  *)
(* funding requests that the cast saturates at both ends.                 *)
EXTENDS Broadcaster

MCLedgers ==
    { {[id |-> 2, owner |-> "sender", amt |-> 7]},
      {[id |-> 1, owner |-> "sender", amt |-> 6],
       [id |-> 2, owner |-> "sender", amt |-> 7]} }

MCFundingReqs == {-1, 5, 30}
=============================================================================
