--------------------------- MODULE HostFunctions ---------------------------
(***************************************************************************)
(* How an account and a block number cross between the Rust side           *)
(* (HostDatabase, ImportedHost) and a StateStore (storeToHostFunctions).   *)
(* An account is 72 bytes: its balance as four limbs, the most significant *)
(* first, its nonce, its code hash.  A block number is two halves, each an *)
(* i32, which JavaScript takes for a signed number.                        *)
(***************************************************************************)
EXTENDS HostStore, Integers, Sequences

CONSTANTS Limb,         \* 2^64, the values of a limb
          Half,         \* 2^32, the values of half a block number
          Block         \* block numbers asked for

ASSUME WidthAssumption ==
    /\ Limb \in Nat \ {0}
    /\ Half \in Nat \ {0}
    /\ Block \subseteq 0..(Half * Half - 1)

Limb2 == Limb * Limb
Limb3 == Limb2 * Limb

\* The purse of a host account is a number of wei and a nonce.
ASSUME PurseAssumption ==
    Purse \subseteq [balance : 0..(Limb2 * Limb2 - 1), nonce : 0..(Limb - 1)]

-----------------------------------------------------------------------------
\* commit_account: U256::to_be_bytes.
packed_info(info) ==
    LET b == info.purse.balance
    IN [limbs |-> <<(b \div Limb3) % Limb, (b \div Limb2) % Limb,
                    (b \div Limb) % Limb, b % Limb>>,
        nonce |-> info.purse.nonce, hash |-> info.hash]

\* set_account of the adapter: each limb shifted to its place.
accountState(p) ==
    [balance |-> p.limbs[1] * Limb3 + p.limbs[2] * Limb2 + p.limbs[3] * Limb + p.limbs[4],
     nonce |-> p.nonce, codeHash |-> p.hash]

\* basic of the adapter: limb by limb from the end, shifting what is left.
packed_Unshifted(acc) ==
    LET b1 == acc.balance \div Limb
        b2 == b1 \div Limb
    IN [limbs |-> <<b2 % Limb, b2 % Limb, b1 % Limb, acc.balance % Limb>>,
        nonce |-> acc.nonce % Limb, hash |-> acc.codeHash]
packed(acc) ==
    LET b1 == acc.balance \div Limb
        b2 == b1 \div Limb
    IN [limbs |-> <<(b2 \div Limb) % Limb, b2 % Limb, b1 % Limb, acc.balance % Limb>>,
        nonce |-> acc.nonce % Limb, hash |-> acc.codeHash]

\* HostDatabase::basic: U256::from_be_slice.
unpacked_info(bytes) ==
    LET l == bytes.limbs
    IN [purse |-> [balance |-> ((l[1] * Limb + l[2]) * Limb + l[3]) * Limb + l[4],
                   nonce |-> bytes.nonce],
        hash |-> bytes.hash]

-----------------------------------------------------------------------------
\* An i32 that JavaScript is given has a sign, and >>> 0 takes it away.
signed(word) == IF 2 * word >= Half THEN word - Half ELSE word
unsigned(number) == number % Half

\* ImportedHost::block_hash
halves(n) == [lo |-> signed(n % Half), hi |-> signed((n \div Half) % Half)]

\* block_hash of the adapter
blockNumber(h) == unsigned(h.hi) * Half + unsigned(h.lo)
=============================================================================
