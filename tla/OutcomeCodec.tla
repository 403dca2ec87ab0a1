---------------------------- MODULE OutcomeCodec ----------------------------
(***************************************************************************)
(* The outcome blob on its way from encode_outcome in Rust to decodeOutcome*)
(* in TypeScript.  A blob is a sequence of fields; what stands at a place  *)
(* depends on counts, lengths and flag bits that came before, so a decoder *)
(* that disagrees once with the encoder is out of step from there on.      *)
(*                                                                         *)
(* The encoder is an operator, the decoder a machine that takes the blob   *)
(* apart one head, log or account at a time.  The accounts it reports are  *)
(* the entries of module Journal.                                          *)
(***************************************************************************)
EXTENDS Journal, SequencesExt

CONSTANTS Byte, Topic,
          Result,       \* [status, gas, output, logs] of an executed transaction
          Changes,      \* what became of its accounts: functions to entries
          Message,      \* texts of a rejection
          Price,        \* effective gas prices
          Undefined     \* a field the decoded outcome does not have

\* A log, and the entry of an account (Journal!Entry), as revm's types have them.
Log == [address : Addr, topics : Seq(Topic), data : Seq(Byte)]
Reported == [touched : BOOLEAN, selfdestructed : BOOLEAN, created : BOOLEAN, deleted : BOOLEAN,
             info : Info, code : Code, slot : UNION {[L -> Val] : L \in SUBSET Key}]

ASSUME ResultAssumption ==
    /\ Result \subseteq [status : {"success", "revert", "halt"}, gas : Nat \X Nat \X Nat,
                         output : Seq(Byte), logs : Seq(Log)]
    /\ Message \subseteq Seq(Byte)

\* Addresses and keys are so many bytes, and in the order of their bytes.
ASSUME ChangesAssumption ==
    /\ IsFiniteSet(Addr) /\ IsFiniteSet(Key) /\ Key \subseteq Nat
    /\ Changes \subseteq UNION {[D -> Reported] : D \in SUBSET Addr}

VARIABLES
    told,       \* what the execution had to tell
    light,      \* whether it ran on the light path
    blob,       \* how it was told
    o,          \* how far the decoder has come
    at,         \* what it expects there
    todo,       \* how many logs or accounts are still to come
    out         \* the outcome, as far as it is decoded

vars == <<told, light, blob, o, at, todo, out>>

-----------------------------------------------------------------------------
(* Encoding.                                                               *)

Field(kind, value) == <<[kind |-> kind, value |-> value]>>
Sized(bytes) == Field("u32", Len(bytes)) \o Field("bytes", bytes)

\* A map yields its keys in any order; the encoder sorts them.
Iterations(S) == SetToSeqs(S)
sort_by_key_Unsorted(iteration) == iteration
sort_by_key(iteration) ==
    CHOOSE s \in Iterations(ToSet(iteration)) :
        \A i, j \in DOMAIN s : i < j => s[i] < s[j]

Each(seq, fields(_)) == FlattenSeq([i \in 1..Len(seq) |-> fields(seq[i])])

STATUS == <<"success", "revert", "halt", "validation-error">>
StatusByte(status) == (CHOOSE i \in 1..Len(STATUS) : STATUS[i] = status) - 1

encode_head(r) ==
    Field("status", StatusByte(r.status))
      \o Field("u64", r.gas[1]) \o Field("u64", r.gas[2]) \o Field("u64", r.gas[3])
      \o Sized(IF r.status = "halt" THEN <<>> ELSE r.output)

log_fields(log) ==
    Field("address", log.address) \o Field("u8", Len(log.topics))
      \o Each(log.topics, LAMBDA t : Field("topic", t)) \o Sized(log.data)

bloom_fields_Always(logs) == Field("bloom", logs)
bloom_fields(logs) == IF logs = <<>> THEN <<>> ELSE Field("bloom", logs)

\* An entry carries code exactly when the hash is a new one (Journal!Entry).
code_changed(e) == e.code # NotLoaded

\* Two units of code stand for the bytes of a contract.
code_bytes(h) == IF h = EmptyHash THEN <<>> ELSE <<h, h>>

flags(e) == {b \in 0..4 : \/ b = 0 /\ e.selfdestructed
                          \/ b = 1 /\ e.touched
                          \/ b = 2 /\ e.created
                          \/ b = 3 /\ code_changed(e)
                          \/ b = 4 /\ e.deleted}

account_fields(a, e, iteration) ==
    LET slots == sort_by_key(iteration)
    IN Field("address", a) \o Field("flags", flags(e))
         \o Field("purse", e.info.purse) \o Field("hash", e.info.hash)
         \o (IF code_changed(e) THEN Sized(code_bytes(e.code)) ELSE <<>>)
         \o Field("u32", Len(slots))
         \o Each(slots, LAMBDA k : Field("key", k) \o Field("word", e.slot[k]))

\* accounts, and slots for each of them, are the orders in which the maps are iterated.
encode_full(r, changes, price, accounts, slots) ==
    encode_head(r)
      \o Field("u32", Len(r.logs)) \o Each(r.logs, log_fields) \o bloom_fields(r.logs)
      \o Field("u32", Len(accounts))
      \o Each(sort_by_key(accounts), LAMBDA a : account_fields(a, changes[a], slots[a]))
      \o Field("price", price)

encode_outcome_light(r) == encode_head(r)

encode_validation_error(message) ==
    Field("status", 3) \o Field("u64", 0) \o Field("u64", 0) \o Field("u64", 0)
      \o Sized(message) \o Field("u32", 0) \o Field("u32", 0) \o Field("price", 0)

-----------------------------------------------------------------------------
Init ==
    /\ told = Undefined
    /\ light = FALSE
    /\ blob = <<>>
    /\ o = 1
    /\ at = "idle"
    /\ todo = 0
    /\ out = Undefined

\* The blob is on its way to the decoder.
Encoded(what, is_light, fields) ==
    /\ told' = what
    /\ light' = is_light
    /\ blob' = fields
    /\ at' = "head"
    /\ UNCHANGED <<o, todo, out>>

\* execute and execute_light, once revm has finished.
Execute(r, changes, price) ==
    \E accounts \in Iterations(DOMAIN changes),
       slots \in [DOMAIN changes -> UNION {Iterations(DOMAIN changes[a].slot) : a \in DOMAIN changes}] :
        /\ \A a \in DOMAIN changes : slots[a] \in Iterations(DOMAIN changes[a].slot)
        /\ Encoded([result |-> r, changes |-> changes, price |-> price], FALSE,
                   encode_full(r, changes, price, accounts, slots))

ExecuteLight(r) == Encoded([result |-> r], TRUE, encode_outcome_light(r))

\* Either of them, and decode_request, when the request is refused.
Reject(message, is_light) ==
    Encoded([message |-> message], is_light, encode_validation_error(message))

-----------------------------------------------------------------------------
(* Decoding.                                                               *)

\* The fields from place p on are of these kinds.
Fits(p, kinds) ==
    /\ p + Len(kinds) - 1 <= Len(blob)
    /\ \A i \in 1..Len(kinds) : blob[p + i - 1].kind = kinds[i]

Value(p) == blob[p].value

\* So many bytes as the length before them says.
FitsSized(p) == Fits(p, <<"u32", "bytes">>) /\ Value(p) = Len(Value(p + 1))

HeadFits == Fits(o, <<"status", "u64", "u64", "u64">>) /\ FitsSized(o + 4)

Topics(p) == [i \in 1..Value(p) |-> "topic"]
LogFits ==
    /\ Fits(o, <<"address", "u8">>)
    /\ Fits(o + 2, Topics(o + 1))
    /\ FitsSized(o + 2 + Value(o + 1))

\* Where an account's slot count is: code comes before it under bit 3.
HasCode(p) == 3 \in Value(p + 1)
SlotCount(p) == IF HasCode(p) THEN p + 6 ELSE p + 4
Slots(p) == [i \in 1..2 * Value(p) |-> IF i % 2 = 1 THEN "key" ELSE "word"]
AccountFits ==
    /\ Fits(o, <<"address", "flags", "purse", "hash">>)
    /\ HasCode(o) => FitsSized(o + 4)
    /\ Fits(SlotCount(o), <<"u32">>)
    /\ Fits(SlotCount(o) + 1, Slots(SlotCount(o)))

DecodeHead ==
    /\ at = "head"
    /\ HeadFits
    /\ LET status == STATUS[Value(o) + 1]
       IN out' = [status |-> status, gas |-> <<Value(o + 1), Value(o + 2), Value(o + 3)>>,
                  returnData |-> Value(o + 5),
                  error |-> IF status = "validation-error" THEN Value(o + 5) ELSE Undefined,
                  logs |-> Undefined, stateChanges |-> Undefined, price |-> 0]
    /\ o' = o + 6
    /\ at' = IF o' > Len(blob) THEN "done" ELSE "logs"
    /\ UNCHANGED <<told, light, blob, todo>>

\* A count, and an empty list for what it counts.
DecodeCount(list, then, field) ==
    /\ at = list
    /\ Fits(o, <<"u32">>)
    /\ todo' = Value(o)
    /\ out' = [out EXCEPT ![field] = <<>>]
    /\ o' = o + 1
    /\ at' = then
    /\ UNCHANGED <<told, light, blob>>

DecodeLogCount == DecodeCount("logs", "log", "logs")

DecodeLog ==
    /\ at = "log"
    /\ todo > 0
    /\ LogFits
    /\ LET n == Value(o + 1)
           log == [address |-> Value(o), topics |-> [i \in 1..n |-> Value(o + 1 + i)],
                   data |-> Value(o + 3 + n)]
       IN /\ out' = [out EXCEPT !.logs = Append(@, log)]
          /\ o' = o + 4 + n
    /\ todo' = todo - 1
    /\ UNCHANGED <<told, light, blob, at>>

DecodeBloom ==
    /\ at = "log"
    /\ todo = 0
    /\ out.logs # <<>> => Fits(o, <<"bloom">>)
    /\ o' = IF out.logs # <<>> THEN o + 1 ELSE o
    /\ at' = "accounts"
    /\ UNCHANGED <<told, light, blob, todo, out>>

DecodeAccountCount == DecodeCount("accounts", "account", "stateChanges")

\* The entry at place p.
EntryAt_BitsSwapped(p) ==
    LET n == SlotCount(p)
        b == Value(p + 1)
    IN [address |-> Value(p),
        selfdestructed |-> 0 \in b, touched |-> 2 \in b, created |-> 1 \in b,
        deleted |-> 4 \in b, info |-> [purse |-> Value(p + 2), hash |-> Value(p + 3)],
        code |-> IF HasCode(p) THEN Value(p + 5) ELSE Undefined,
        storage |-> [i \in 1..Value(n) |-> <<Value(n + 2 * i - 1), Value(n + 2 * i)>>]]
EntryAt(p) ==
    LET n == SlotCount(p)
        b == Value(p + 1)
    IN [address |-> Value(p),
        selfdestructed |-> 0 \in b, touched |-> 1 \in b, created |-> 2 \in b,
        deleted |-> 4 \in b, info |-> [purse |-> Value(p + 2), hash |-> Value(p + 3)],
        code |-> IF HasCode(p) THEN Value(p + 5) ELSE Undefined,
        storage |-> [i \in 1..Value(n) |-> <<Value(n + 2 * i - 1), Value(n + 2 * i)>>]]

DecodeAccount ==
    /\ at = "account"
    /\ todo > 0
    /\ AccountFits
    /\ out' = [out EXCEPT !.stateChanges = Append(@, EntryAt(o))]
    /\ o' = SlotCount(o) + 1 + 2 * Value(SlotCount(o))
    /\ todo' = todo - 1
    /\ UNCHANGED <<told, light, blob, at>>

\* The price is read if there is room for one.
DecodePrice ==
    /\ at = "account"
    /\ todo = 0
    /\ IF o > Len(blob)
       THEN UNCHANGED <<out, o>>
       ELSE /\ Fits(o, <<"price">>)
            /\ out' = [out EXCEPT !.price = Value(o)]
            /\ o' = o + 1
    /\ at' = "done"
    /\ UNCHANGED <<told, light, blob, todo>>

Collect ==
    /\ at = "done"
    /\ told' = Undefined
    /\ light' = FALSE
    /\ blob' = <<>>
    /\ o' = 1
    /\ at' = "idle"
    /\ todo' = 0
    /\ out' = Undefined

\* A transaction that ran or was refused on the full path or the light one.
Encode ==
    /\ at = "idle"
    /\ \/ \E r \in Result, changes \in Changes, price \in Price : Execute(r, changes, price)
       \/ \E r \in Result : ExecuteLight(r)
       \/ \E message \in Message, is_light \in BOOLEAN : Reject(message, is_light)

Next ==
    \/ Encode
    \/ DecodeHead \/ DecodeLogCount \/ DecodeLog \/ DecodeBloom
    \/ DecodeAccountCount \/ DecodeAccount \/ DecodePrice
    \/ Collect

Spec == Init /\ [][Next]_vars

-----------------------------------------------------------------------------
\* The decoder is never out of step: what it is about to read, with the counts
\* and lengths it has read, is what the encoder put there.
InStep ==
    CASE at = "head" -> HeadFits
      [] at \in {"logs", "accounts"} -> Fits(o, <<"u32">>)
      [] at = "log" -> IF todo > 0 THEN LogFits ELSE out.logs # <<>> => Fits(o, <<"bloom">>)
      [] at = "account" -> IF todo > 0 THEN AccountFits ELSE Fits(o, <<"price">>)
      [] at = "done" -> o = Len(blob) + 1
      [] OTHER -> TRUE

\* The decoded list, as the entries the execution had to tell.
Entries(list) ==
    [a \in {list[i].address : i \in 1..Len(list)} |->
        LET e == list[CHOOSE i \in 1..Len(list) : list[i].address = a]
        IN [touched |-> e.touched, selfdestructed |-> e.selfdestructed,
            created |-> e.created, deleted |-> e.deleted, info |-> e.info,
            code |-> e.code,
            slot |-> [k \in {s[1] : s \in ToSet(e.storage)} |->
                         (CHOOSE s \in ToSet(e.storage) : s[1] = k)[2]]]]

\* Code as the outcome carries it: bytes, or nothing.
AsBytes(changes) ==
    [a \in DOMAIN changes |->
        [changes[a] EXCEPT !.code = IF @ = NotLoaded THEN Undefined ELSE code_bytes(@)]]

\* A consumer is told what happened: status, gas, output, logs in their order,
\* every account with its flags, code and slots, and the price.
RoundTrip ==
    at = "done" =>
        IF "message" \in DOMAIN told
        THEN out.status = "validation-error" /\ out.error = told.message
        ELSE /\ out.status = told.result.status
             /\ out.gas = told.result.gas
             /\ out.returnData = IF out.status = "halt" THEN <<>> ELSE told.result.output
             /\ out.error = Undefined
             /\ IF light
                THEN out.logs = Undefined /\ out.stateChanges = Undefined
                ELSE /\ out.logs = told.result.logs
                     /\ Entries(out.stateChanges) = AsBytes(told.changes)
                     /\ out.price = told.price

\* Accounts and slots come sorted and once each, whatever order the maps of the
\* native or the wasm build happen to have, so that blobs can be compared.
Ascending(list, key(_)) ==
    \A i, j \in 1..Len(list) : i < j => key(list[i]) < key(list[j])

Canonical ==
    at = "done" /\ out.stateChanges # Undefined =>
        /\ Ascending(out.stateChanges, LAMBDA e : e.address)
        /\ \A i \in 1..Len(out.stateChanges) :
              Ascending(out.stateChanges[i].storage, LAMBDA s : s[1])

\* The state changes are "Undefined when `returnState: false` was requested."
\* (types.ts:289), and returnState: false is the light path.
UndefinedWhenLight == at = "done" /\ light => out.stateChanges = Undefined
=============================================================================
