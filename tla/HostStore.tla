----------------------------- MODULE HostStore -----------------------------
(***************************************************************************)
(* The embedder's state as the EVM can observe it through the ten host     *)
(* functions: accounts by address, code by hash, storage by address and    *)
(* key.  Everything the wasm module knows about the chain it learns from   *)
(* the read operators, and everything it changes it changes with the five  *)
(* write operators.                                                        *)
(*                                                                         *)
(* A 256-bit word is a member of Val, a code hash a member of Hash (code   *)
(* is content-addressed, so holding the bytes is membership of the hash in *)
(* store.code), and the pair (balance, nonce) a member of Purse, of which  *)
(* only "both zero" (EmptyPurse) is told apart from the rest.              *)
(***************************************************************************)
EXTENDS Naturals

CONSTANTS Addr,         \* addresses, ordered as their bytes are
          Key,          \* storage keys
          Val, Zero,    \* storage words and the zero word
          Hash,         \* hashes of non-empty code
          EmptyHash,    \* KECCAK_EMPTY, the hash of no code
          Purse,        \* (balance, nonce) pairs
          EmptyPurse,   \* balance 0 and nonce 0
          Absent        \* what basic reports of an account that does not exist

ASSUME StoreAssumption ==
    /\ Addr \subseteq Nat
    /\ Zero \in Val
    /\ EmptyHash \notin Hash
    /\ EmptyPurse \in Purse

\* The 72 packed bytes that cross the boundary: (balance, nonce) and code hash.
Info == [purse : Purse, hash : Hash \cup {EmptyHash}]

ASSUME AbsentAssumption == Absent \notin Info

\* The account revm works with when the host has none (AccountInfo::default).
NoInfo == [purse |-> EmptyPurse, hash |-> EmptyHash]

Store == [acct : [Addr -> Info \cup {Absent}],
          code : SUBSET Hash,
          slot : [Addr -> [Key -> Val]]]

-----------------------------------------------------------------------------
(* The reads.  An unset slot reads as the zero word, an unknown hash as no *)
(* code: Absent has its own answer only for an account.                    *)

Exists(s, a) == s.acct[a] # Absent

basic(s, a) == IF Exists(s, a) THEN s.acct[a] ELSE NoInfo

storage(s, a, k) == s.slot[a][k]

code_by_hash(s, h) == IF h \in s.code THEN h ELSE EmptyHash

-----------------------------------------------------------------------------
(* The writes.                                                             *)

set_account(s, a, info) == [s EXCEPT !.acct[a] = info]

set_code(s, h) == [s EXCEPT !.code = @ \cup {h}]

set_storage(s, a, k, v) == [s EXCEPT !.slot[a][k] = v]

clear_storage(s, a) == [s EXCEPT !.slot[a] = [k \in Key |-> Zero]]

remove_account(s, a) == [s EXCEPT !.acct[a] = Absent]

-----------------------------------------------------------------------------
(* What an embedder's state has to satisfy for the reads to describe an    *)
(* Ethereum state at all: the code of every account can be fetched, and an *)
(* account that does not exist has no storage left behind.                 *)

CodeHeld(s) == \A a \in Addr : basic(s, a).hash \in s.code \cup {EmptyHash}

NoOrphans(s) ==
    \A a \in Addr : ~ Exists(s, a) => s.slot[a] = [k \in Key |-> Zero]

WellFormed(s) == CodeHeld(s) /\ NoOrphans(s)
=============================================================================
