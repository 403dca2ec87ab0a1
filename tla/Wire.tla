-------------------------------- MODULE Wire --------------------------------
(***************************************************************************)
(* The numbers the artifact gives to flags and hardforks.  They cross the  *)
(* boundary as numbers, so the package has tables of its own, and the two  *)
(* can come from different builds (RequestCodec).                          *)
(***************************************************************************)
EXTENDS Naturals

\* A flag word is the set of the bits that are set in it.  A bit that is none of
\* these is ignored.
COMMIT == 0
CREATE == 1
RELAX_VALIDATION == 2
CHECK_NONCE == 3
DISABLE_BASE_FEE == 4
DISABLE_BALANCE_CHECK == 5
DISABLE_BLOCK_GAS_LIMIT == 6
DISABLE_EIP3607 == 7

wants_commit(r) == COMMIT \in r.flags
checks_nonce(r) == CHECK_NONCE \in r.flags
is_create(r) == CREATE \in r.flags

\* RELAX_VALIDATION stands for the three switches it predates, not for EIP-3607.
from_flags(flags) ==
    LET all == RELAX_VALIDATION \in flags
    IN [base_fee        |-> all \/ DISABLE_BASE_FEE \in flags,
        balance         |-> all \/ DISABLE_BALANCE_CHECK \in flags,
        block_gas_limit |-> all \/ DISABLE_BLOCK_GAS_LIMIT \in flags,
        eip3607         |-> DISABLE_EIP3607 \in flags]

Switches == [base_fee : BOOLEAN, balance : BOOLEAN,
             block_gas_limit : BOOLEAN, eip3607 : BOOLEAN]

-----------------------------------------------------------------------------
AMSTERDAM == 14         \* the last spec this artifact knows
CANCUN == 11
spec_from_u8(byte) == IF byte <= AMSTERDAM THEN byte ELSE CANCUN
=============================================================================
