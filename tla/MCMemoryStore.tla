--------------------------- MODULE MCMemoryStore ---------------------------
(* MemoryStore on a small instance.                                        *)
EXTENDS MemoryStore

NoFunds == [balance |-> 0, nonce |-> 0]

\* Limbs have one bit here: no two limbs have the same bits in both balances,
\* so that none can take the place of another.
Funds == {NoFunds, [balance |-> 3, nonce |-> 1], [balance |-> 5, nonce |-> 0]}

\* Halves have two bits: zero, small, negative as an i32, and both halves used.
Blocks == {0, 1, 2, 4, 7, 14}
=============================================================================
