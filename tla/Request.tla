------------------------------ MODULE Request ------------------------------
(***************************************************************************)
(* An execution as the outside of the engine sees it: the request, the     *)
(* environment it asks for, and the outcomes it may have.                  *)
(*                                                                         *)
(* An account is its code hash, or Absent.  A request carries what the     *)
(* engine is fixed to at construction (spec byte, chain id), its flags,    *)
(* the block fields that are always there (header) and the two that may be *)
(* left out.                                                               *)
(***************************************************************************)
EXTENDS Wire

CONSTANTS Addr, Hash, EmptyHash, Absent,
          SpecByte,     \* spec bytes in use, known to the artifact or not
          Chain,
          FlagWord,     \* flag words in use
          Word, Zero,   \* values of block fields, and their default
          None          \* no value: a field left out, no request, no engine

ASSUME RequestAssumption ==
    /\ SpecByte \subseteq Nat
    /\ Zero \in Word
    /\ None \notin Word
    /\ EmptyHash \notin Hash
    /\ Absent \notin Hash \cup {EmptyHash}

CodeHash == Hash \cup {EmptyHash}
Account == CodeHash \cup {Absent}

hash_of(account) == IF account = Absent THEN EmptyHash ELSE account

Request == [spec : SpecByte, chain : Chain, flags : FlagWord, light : BOOLEAN,
            header : Word, randao : Word \cup {None}, excess : Word \cup {None}]

-----------------------------------------------------------------------------
(* The environment a request asks for.                                     *)

unwrap_or(field, default) == IF field = None THEN default ELSE field

\* The blob gas price of a block: the update fraction depends on the spec.
blob_price(excess, spec) == <<excess, spec>>

\* The precompiles of a spec, each told by the spec that brought it.  Which these
\* are is revm's; that there are fewer before some spec than after it is enough.
precompiles_for(spec) == {s \in {0, 4, 6, 7, 11, 12, 13} : s <= spec}

\* What a request asks for, whatever the engine was used for before.
EnvOf(r) ==
    LET spec == spec_from_u8(r.spec)
    IN [block |-> [header |-> r.header,
                   randao |-> unwrap_or(r.randao, Zero),
                   blob |-> blob_price(unwrap_or(r.excess, Zero), spec)],
        precompiles |-> [map |-> precompiles_for(spec), spec |-> spec],
        cfg |-> [spec |-> spec, chain |-> r.chain,
                 disable_nonce_check |-> ~ checks_nonce(r),
                 switches |-> from_flags(r.flags)]]

-----------------------------------------------------------------------------
(* Outcomes.                                                               *)

NoOutcome == [status |-> "none"]

Rejected == [status |-> "rejected"]

\* What ran where and what became of the accounts loaded; the light path keeps
\* the second to itself.
Ran(env, changes) == [status |-> "ran", env |-> env, changes |-> changes]
RanLight(env) == [status |-> "light", env |-> env]

\* A loaded account ends with a code hash, and may be gone: destroyed, cleared,
\* or never there.
Fate == [hash : CodeHash, gone : BOOLEAN]

\* The embedder's state once the changes are written back.
Written(h, changes) ==
    [a \in Addr |-> IF a \notin DOMAIN changes THEN h[a]
                    ELSE IF changes[a].fate.gone THEN Absent ELSE changes[a].fate.hash]
=============================================================================
