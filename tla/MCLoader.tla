------------------------------ MODULE MCLoader ------------------------------
(* Loader on a small instance: one load of anything, with options that      *)
(* change, and one that may read the same response.                         *)
EXTENDS Loader, TLC

CONSTANTS l1, l2, own, shared, wallet, node

\* Locks as cargo sorts them.
Package(name, version, rev) == [name |-> name, version |-> version, rev |-> rev]
Pinned == <<Package("op-revm", "9", "c"), Package("revm", "42", "a"),
            Package("revm-interpreter", "30", "a")>>
Registry == <<Package("alloy", "1", Unknown), Package("revm", "41", Unknown)>>
NoLock == <<>>

Artifact(lock, linked, features, abi, imports) ==
    [lock |-> lock, linked |-> linked, features |-> features, abi |-> abi, imports |-> imports]

Shipped == Artifact(Pinned, [version |-> "42", rev |-> "a"],
                    {"precompiles-all", "relaxed-validation"}, 1, {"basic"})
Custom == Artifact(Registry, [version |-> "41", rev |-> Unknown], {"precompiles-none"}, 1,
                   {"basic", "set_code"})
Bare == Artifact(NoLock, [version |-> Unknown, rev |-> Unknown], {}, 1, {})
Newer == Artifact(Pinned, [version |-> "42", rev |-> "a"], {"precompiles-all"}, 2,
                  {"basic", "trace"})

Direct == [kind : {"module"}, content : {Shipped, Bare, Newer}]
            \cup [kind : {"bytes"}, content : {Custom, Newer, Garbage}]
Fetched(R) == [kind : {"response"}, response : R]
SomeSources == (l1 :> Direct \cup Fetched({own, shared})) @@ (l2 :> Fetched({shared}))

Answers == [accepted : BOOLEAN, content : {Shipped, Custom, Garbage}]

Options(state, host, spec, chainId) ==
    [state |-> state, host |-> host, spec |-> spec, chainId |-> chainId]
Mine == Options(wallet, None, "PRAGUE", 5)
Raw == Options(None, {"basic", "trace"}, None, 7)
Both == Options(node, {"basic", "set_code"}, None, None)
Plain == Options(None, None, None, None)
Typo == Options(node, None, Unknown, None)
SomeVersions == (l1 :> {Mine, Raw, Both, Plain, Typo}) @@ (l2 :> {Plain})
=============================================================================
