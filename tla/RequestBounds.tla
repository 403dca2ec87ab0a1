--------------------------- MODULE RequestBounds ---------------------------
(***************************************************************************)
(* The lengths and counts of a request blob: encodeRequest lays its parts  *)
(* out one after the other, and decode_request finds them again.  A part   *)
(* is only its size here; what the bytes say is left out, except for the   *)
(* numbers that say how many bytes or parts follow.                        *)
(*                                                                         *)
(* The blob is honest when it is what encodeRequest makes of a call.  Any  *)
(* other blob may say anything where a number is read.  The decoder counts *)
(* in usize, which wraps around.                                           *)
(***************************************************************************)
EXTENDS Naturals, SequencesExt

CONSTANTS Usize,        \* how many numbers a usize can be: 2^32 in the artifact
          Data,         \* lengths of calldata
          Lists,        \* access lists, as the number of keys of each entry
          Few,          \* numbers of blob hashes and of authorizations
          Length,       \* lengths of a blob that is not honest
          Count         \* numbers found in it

ASSUME BoundsAssumption ==
    /\ Usize \in Nat /\ Usize >= 65536
    /\ Data \cup Few \cup Length \cup Count \subseteq 0..Usize - 1
    /\ Lists \subseteq Seq(Nat)

VARIABLES
    len,        \* length of the request
    honest,     \* encodeRequest made it
    numbers,    \* what an honest blob still has to say
    randao,     \* bit 3 of present
    at,         \* what is decoded next, or how it ended
    data_at, data_len,
    extras_len,
    o,          \* offset into the extras
    todo,       \* entries or authorizations still to come
    biggest     \* ghost: the biggest number read

vars == <<len, honest, numbers, randao, at, data_at, data_len, extras_len, o, todo, biggest>>

\* Sizes in the blob, and in memory (AuthInMemory is at least this big).
REQ_HEAD == 140
TX_EXTRAS_HEAD == 76
Entry == 24
Word == 32
Auth == 125
Item == 32
AuthInMemory == 168

-----------------------------------------------------------------------------
(* encodeExtras and encodeRequest.                                         *)

Total(list) == FoldSeq(LAMBDA n, sum : n + sum, 0, list)

ExtrasSize(list, blobs, auths, with_randao) ==
    TX_EXTRAS_HEAD + 4 + Entry * Len(list) + Word * Total(list)
      + 4 + Word * blobs + 4 + Auth * auths + IF with_randao THEN Word ELSE 0

\* A vector of n elements panics when it is bigger than isize::MAX.
Allocates(n, size) == n * size < Usize \div 2

\* What the package sends stands in a vector, the request buffer, and what is
\* listed in it has room in others.
ASSUME HonestAssumption ==
    \A d \in Data :
        /\ Allocates(REQ_HEAD + 8 + d, 1)
        /\ \A list \in Lists, blobs, auths \in Few :
              /\ Allocates(REQ_HEAD + 8 + d + ExtrasSize(list, blobs, auths, TRUE), 1)
              /\ Allocates(Len(list), Item) /\ Allocates(auths, AuthInMemory)

Start(length, is_honest, said, with_randao) ==
    /\ len = length
    /\ honest = is_honest
    /\ numbers = said
    /\ randao = with_randao

\* No extras are sent when there is nothing to say in them.
Encoded ==
    \/ \E d \in Data : Start(REQ_HEAD + 8 + d, TRUE, <<d, 0>>, FALSE)
    \/ \E d \in Data, list \in Lists, blobs, auths \in Few, with_randao \in BOOLEAN :
          LET size == ExtrasSize(list, blobs, auths, with_randao)
          IN Start(REQ_HEAD + 8 + d + size, TRUE,
                   <<d, size, Len(list)>> \o list \o <<blobs, auths>>, with_randao)

Init ==
    /\ \/ Encoded
       \/ \E length \in Length, with_randao \in BOOLEAN :
             Start(length, FALSE, <<>>, with_randao)
    /\ at = "head"
    /\ data_at = REQ_HEAD + 4
    /\ data_len = 0
    /\ extras_len = 0
    /\ o = 0
    /\ todo = 0
    /\ biggest = 0

-----------------------------------------------------------------------------
(* decode_request and TxExtras::decode.                                    *)

plus(a, b) == (a + b) % Usize
times(a, b) == (a * b) % Usize

\* Where a number is read, it is some number.
Numbers == IF honest THEN {numbers[i] : i \in 1..Len(numbers)} ELSE Count
Reads(n) ==
    /\ honest => numbers # <<>> /\ n = numbers[1]
    /\ numbers' = IF honest THEN Tail(numbers) ELSE numbers
    /\ biggest' = IF n > biggest THEN n ELSE biggest

\* A slice panics unless its ends are in order and inside the buffer.
Sliced(from, to, length) == from <= to /\ to <= length

need_StartOnly(n) == o <= extras_len
need(n) == plus(o, n) <= extras_len

\* The next n bytes of the extras are read.
Take(n, then) ==
    /\ o' = plus(o, n)
    /\ at' = IF Sliced(o, o', extras_len) THEN then ELSE "trapped"

Ends(how) ==
    /\ at' = how
    /\ UNCHANGED <<len, honest, numbers, randao, data_at, data_len, extras_len, o, todo, biggest>>

\* Too short for the head and one number, or not of this version.
DecodeHead ==
    /\ at = "head"
    /\ \/ len < REQ_HEAD + 4 /\ Ends("rejected")
       \/ ~ honest /\ Ends("rejected")
       \/ len >= REQ_HEAD + 4 /\ Ends("data_len")

DecodeDataLength(n) ==
    /\ at = "data_len"
    /\ Reads(n)
    /\ data_len' = n
    /\ at' = IF len < plus(plus(data_at, n), 4) THEN "rejected"
             ELSE IF ~ Sliced(plus(data_at, n), plus(plus(data_at, n), 4), len) THEN "trapped"
             ELSE "extras_len"
    /\ UNCHANGED <<len, honest, randao, data_at, extras_len, o, todo>>

DecodeExtrasLength(n) ==
    LET start == plus(plus(data_at, data_len), 4)
    IN /\ at = "extras_len"
       /\ Reads(n)
       /\ extras_len' = n
       /\ at' = IF len < plus(start, n) THEN "rejected"
                ELSE IF n = 0 THEN "data"
                ELSE IF ~ Sliced(start, plus(start, n), len) THEN "trapped"
                ELSE "extras"
       /\ UNCHANGED <<len, honest, randao, data_at, data_len, o, todo>>

\* The head of the extras, and their version.
DecodeExtras ==
    /\ at = "extras"
    /\ \/ extras_len < TX_EXTRAS_HEAD /\ at' = "rejected" /\ UNCHANGED o
       \/ ~ honest /\ at' = "rejected" /\ UNCHANGED o
       \/ extras_len >= TX_EXTRAS_HEAD /\ at' = "entries" /\ o' = TX_EXTRAS_HEAD
    /\ UNCHANGED <<len, honest, numbers, randao, data_at, data_len, extras_len, todo, biggest>>

\* The part is not all there.
Truncated ==
    /\ \/ at \in {"entries", "blobs", "auths"} /\ ~ need(4)
       \/ at = "entry" /\ todo > 0 /\ ~ need(Entry)
       \/ at = "auth" /\ todo > 0 /\ ~ need(Auth)
       \/ at = "randao" /\ randao /\ ~ need(Word)
    /\ Ends("rejected")

\* How many entries, or authorizations, follow; room is made for all of them.
DecodeCount(list, each, size, n) ==
    /\ at = list
    /\ need(4)
    /\ Reads(n)
    /\ Take(4, IF Allocates(n, size) THEN each ELSE "trapped")
    /\ todo' = n
    /\ UNCHANGED <<len, honest, randao, data_at, data_len, extras_len>>

\* A head of size bytes that ends in a number, and so many words.
DecodeWords(size, n, then) ==
    IF ~ need(size + times(n, Word)) THEN at' = "rejected" /\ UNCHANGED o
    ELSE Take(size + times(n, Word), IF Allocates(n, Word) THEN then ELSE "trapped")

\* The keys of an entry are asked for once its head is read.
DecodeEntry(n) ==
    /\ at = "entry"
    /\ todo > 0
    /\ need(Entry)
    /\ Reads(n)
    /\ DecodeWords(Entry, n, "entry")
    /\ todo' = todo - 1
    /\ UNCHANGED <<len, honest, randao, data_at, data_len, extras_len>>

DecodeBlobs(n) ==
    /\ at = "blobs"
    /\ need(4)
    /\ Reads(n)
    /\ DecodeWords(4, n, "auths")
    /\ UNCHANGED <<len, honest, randao, data_at, data_len, extras_len, todo>>

DecodeAuth_Short ==
    /\ at = "auth"
    /\ todo > 0
    /\ need(Auth)
    /\ Take(Auth - 1, "auth")
    /\ todo' = todo - 1
    /\ UNCHANGED <<len, honest, numbers, randao, data_at, data_len, extras_len, biggest>>
DecodeAuth ==
    /\ at = "auth"
    /\ todo > 0
    /\ need(Auth)
    /\ Take(Auth, "auth")
    /\ todo' = todo - 1
    /\ UNCHANGED <<len, honest, numbers, randao, data_at, data_len, extras_len, biggest>>

NoMore ==
    /\ todo = 0
    /\ \/ at = "entry" /\ Ends("blobs")
       \/ at = "auth" /\ Ends("randao")

\* prevRandao comes last, if it comes.
DecodeRandao ==
    /\ at = "randao"
    /\ randao => need(Word)
    /\ Take(IF randao THEN Word ELSE 0, "data")
    /\ UNCHANGED <<len, honest, numbers, randao, data_at, data_len, extras_len, todo, biggest>>

\* The calldata is taken once all else is decoded.
DecodeData ==
    /\ at = "data"
    /\ Ends(IF Sliced(data_at, plus(data_at, data_len), len) THEN "accepted" ELSE "trapped")

\* The request is served, refused, or the end of the instance.
Ended == at \in {"accepted", "rejected", "trapped"} /\ UNCHANGED vars

Next ==
    \/ Ended
    \/ DecodeHead \/ DecodeExtras \/ Truncated \/ DecodeAuth \/ NoMore
    \/ DecodeRandao \/ DecodeData
    \/ \E n \in Numbers :
          \/ DecodeDataLength(n) \/ DecodeExtrasLength(n)
          \/ DecodeCount("entries", "entry", Item, n) \/ DecodeEntry(n)
          \/ DecodeBlobs(n)
          \/ DecodeCount("auths", "auth", AuthInMemory, n)

Spec == Init /\ [][Next]_vars

-----------------------------------------------------------------------------
\* The encoder and the decoder agree on the size of every part: a request the
\* package makes is accepted, and every byte of it belongs to a part.
EncoderAgrees ==
    honest => /\ at \notin {"rejected", "trapped"}
              /\ at = "accepted" => /\ numbers = <<>>
                                    /\ REQ_HEAD + 8 + data_len + extras_len = len
                                    /\ o = extras_len

\* A request that is cut short or says too much of itself is refused.  What it
\* takes to trap is a number so big that the bytes it stands for do not fit a
\* vector, if they are counted without wrapping around.
TrapsOnlyOnHugeNumbers == at = "trapped" => ~ Allocates(biggest, AuthInMemory)

\* "It never traps, because trapping a wasm instance is unrecoverable and a bad
\* request is a caller bug, not a machine fault." (crates/wasm/src/lib.rs:383-385)
NeverTraps == at # "trapped"
=============================================================================
