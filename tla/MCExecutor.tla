----------------------------- MODULE MCExecutor -----------------------------
(* Executor on a small instance.                                           *)
EXTENDS Executor

\* A transaction, and simulations that switch checks off by the old bit and by
\* the new ones, with a bit from a later version.
FlagWords == {{COMMIT, CHECK_NONCE}, {RELAX_VALIDATION},
              {DISABLE_EIP3607, DISABLE_BALANCE_CHECK, 9}}
=============================================================================
