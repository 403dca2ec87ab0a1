------------------------------- MODULE Loader -------------------------------
(***************************************************************************)
(* createRevm and createRevmSync: a source becomes a module, and a module  *)
(* with the options becomes an instance, or the load fails.  A response    *)
(* is compiled as it streams in where the platform can, and read whole     *)
(* where it cannot or when that fails; its body can be read once, whoever  *)
(* reads it.  The options object is the embedder's, who may change it      *)
(* while a load waits.                                                     *)
(***************************************************************************)
EXTENDS Build

CONSTANTS Load,             \* calls of createRevm or createRevmSync
          Sources,          \* load -> what it may be given as its wasm
          Versions,         \* load -> what its options may be, at first and later
          Response,
          Served,           \* what a server may answer: [accepted, content]
          Garbage,          \* bytes that do not compile
          HostCalls,        \* what storeToHostFunctions provides
          None

\* A source is a module or bytes, with their content, or a response; a module
\* has been compiled.
ASSUME SourcesAssumption ==
    \A l \in Load : \A s \in Sources[l] :
        /\ s # None
        /\ s.kind \in {"module", "bytes", "response"}
        /\ s.kind = "module" => s.content # Garbage
        /\ s.kind = "response" => /\ s.response \in Response
                                  /\ s = [kind |-> "response", response |-> s.response]

\* What may turn out to be an artifact, whoever gives it.
Contents == {s.content : s \in {s \in UNION {Sources[l] : l \in Load} : s.kind # "response"}}
              \cup {s.content : s \in Served}

ASSUME NoneAssumption ==
    /\ None \notin {"options", "link", "spec", "abi"}
    /\ None \notin Served \cup Contents

\* Cargo: what is linked is the one package of the lock, a sequence, that has the
\* name; of a build without a lock nothing is known.
ASSUME CargoAssumption ==
    \A artifact \in Contents \ {Garbage} :
        LET entries == {i \in 1 .. Len(artifact.lock) : artifact.lock[i].name = "revm"}
        IN /\ DOMAIN artifact.lock = 1 .. Len(artifact.lock) /\ Len(artifact.lock) \in Nat
           /\ \/ entries = {} /\ artifact.linked = [version |-> Unknown, rev |-> Unknown]
              \/ \E i \in entries :
                    /\ entries = {i}
                    /\ artifact.linked.version = artifact.lock[i].version
                    /\ artifact.linked.rev = artifact.lock[i].rev

VARIABLES
    streams,    \* whether the platform has compileStreaming
    network,    \* response -> how far it has come
    served,     \* response -> what it turns out to be
    read,       \* responses whose body is being, or has been, read
    phase,      \* load -> where it is
    source,     \* load -> what it was given
    module,     \* load -> the bytes it has, then the module
    asked,      \* load -> its options when it was called
    options,    \* load -> its options now
    instance    \* load -> what it made, or why it failed

vars == <<streams, network, served, read, phase, source, module, asked, options, instance>>

SUPPORTED_ABI_VERSION == 1

Settled == {"ready", "failed"}

Init ==
    /\ streams \in BOOLEAN
    /\ network = [r \in Response |-> "sent"]
    /\ served = [r \in Response |-> None]
    /\ read = {}
    /\ phase = [l \in Load |-> "idle"]
    /\ source = [l \in Load |-> None]
    /\ module = [l \in Load |-> None]
    /\ asked = [l \in Load |-> None]
    /\ options = [l \in Load |-> None]
    /\ instance = [l \in Load |-> None]

-----------------------------------------------------------------------------
(* The network, and the embedder.                                          *)

Arrive(r) ==
    /\ network[r] = "sent"
    /\ network' = [network EXCEPT ![r] = "headers"]
    /\ served' \in {[served EXCEPT ![r] = s] : s \in Served}
    /\ UNCHANGED <<streams, read, phase, source, module, asked, options, instance>>

Transfer(r) ==
    /\ \/ network[r] = "sent" /\ network' = [network EXCEPT ![r] = "failed"]
       \/ network[r] = "headers" /\ \E end \in {"complete", "broken"} :
                                      network' = [network EXCEPT ![r] = end]
    /\ UNCHANGED <<streams, served, read, phase, source, module, asked, options, instance>>

\* The promise of the response is kept.
Headers(r) == network[r] \notin {"sent", "failed"}

\* Once for each load.
ChangeOptions(l) ==
    /\ phase[l] \notin {"idle"} \cup Settled
    /\ options[l] = asked[l]
    /\ options' \in {[options EXCEPT ![l] = o] : o \in Versions[l]}
    /\ UNCHANGED <<streams, network, served, read, phase, source, module, asked, instance>>

-----------------------------------------------------------------------------
(* instantiate: the options are read when the module is there.             *)

buildDefaults(o) == [spec |-> IF o.spec = None THEN "CANCUN" ELSE o.spec,
                     chainId |-> IF o.chainId = None THEN 1 ELSE o.chainId]
storeOf(l, o) == IF o.host # None THEN None
                 ELSE IF o.state # None THEN o.state ELSE <<"MemoryStore", l>>
provided(o) == IF o.host # None THEN o.host ELSE HostCalls

\* Why there is no instance, and None if there is one.
Refusal(artifact, o) ==
    IF o.host # None /\ o.state # None THEN "options"
    ELSE IF ~ artifact.imports \subseteq provided(o) THEN "link"
    ELSE IF o.spec = Unknown THEN "spec"
    ELSE IF artifact.abi # SUPPORTED_ABI_VERSION THEN "abi"
    ELSE None

\* The defaults of load l, whose options are o by now.
defaultsOf_AtCall(l, o) == buildDefaults(IF asked[l] = None THEN o ELSE asked[l])
defaultsOf(l, o) == buildDefaults(o)

instantiated(l, artifact, o) ==
    IF Refusal(artifact, o) # None THEN [error |-> Refusal(artifact, o)]
    ELSE [store |-> storeOf(l, o), defaults |-> defaultsOf(l, o),
          abi |-> artifact.abi, info |-> INFO(artifact.lock, artifact.features)]

Settle(l, result) ==
    /\ instance' = [instance EXCEPT ![l] = result]
    /\ phase' = [phase EXCEPT ![l] = IF "error" \in DOMAIN result THEN "failed" ELSE "ready"]

Fail(l, why) == /\ Settle(l, [error |-> why])
                /\ UNCHANGED <<streams, network, served, read, source, module, asked, options>>

Instantiate(l) ==
    /\ phase[l] = "compiled"
    /\ Settle(l, instantiated(l, module[l], options[l]))
    /\ UNCHANGED <<streams, network, served, read, source, module, asked, options>>

-----------------------------------------------------------------------------
(* toModule.                                                               *)

Called(l, s, o) ==
    /\ phase[l] = "idle"
    /\ source' = [source EXCEPT ![l] = s]
    /\ asked' = [asked EXCEPT ![l] = o]
    /\ options' = [options EXCEPT ![l] = o]
    /\ UNCHANGED <<streams, network, served, read>>

\* Bytes are copied when the call is made.
createRevm(l, s, o) ==
    /\ Called(l, s, o)
    /\ phase' = [phase EXCEPT ![l] = CASE s.kind = "module" -> "compiled"
                                       [] s.kind = "bytes" -> "compiling"
                                       [] s.kind = "response" ->
                                            IF streams THEN "streaming" ELSE "fallback"]
    /\ module' = [module EXCEPT ![l] = IF s.kind = "response" THEN None ELSE s.content]
    /\ UNCHANGED instance

createRevmSync(l, s, o) ==
    /\ s.kind \in {"module", "bytes"}
    /\ Called(l, s, o)
    /\ Settle(l, IF s.content = Garbage THEN [error |-> "compile"]
                 ELSE instantiated(l, s.content, o))
    /\ UNCHANGED module

\* compileStreaming throws: what its catch is followed by.
caught_Rethrown(l) == "failed"
caught_Retried(l) == "streaming"
caught(l) == "fallback"

Throws(l) == /\ phase' = [phase EXCEPT ![l] = caught(l)]
             /\ UNCHANGED <<streams, network, served, read, source, module, asked,
                            options, instance>>

\* A response of another type or without an ok status, or one that is being
\* read, is refused before anything is read of it.
StreamRefused(l) ==
    /\ phase[l] = "streaming"
    /\ LET r == source[l].response
       IN \/ network[r] = "failed"
          \/ Headers(r) /\ (~ served[r].accepted \/ r \in read)
    /\ Throws(l)

StreamBegins(l) ==
    /\ phase[l] = "streaming"
    /\ LET r == source[l].response
       IN /\ Headers(r)
          /\ served[r].accepted /\ r \notin read
          /\ read' = read \cup {r}
    /\ phase' = [phase EXCEPT ![l] = "draining"]
    /\ UNCHANGED <<streams, network, served, source, module, asked, options, instance>>

StreamBreaks(l) ==
    /\ phase[l] = "draining"
    /\ LET r == source[l].response
       IN network[r] = "broken" \/ served[r].content = Garbage
    /\ Throws(l)

StreamEnds(l) ==
    /\ phase[l] = "draining"
    /\ LET r == source[l].response
       IN /\ network[r] = "complete" /\ served[r].content # Garbage
          /\ module' = [module EXCEPT ![l] = served[r].content]
    /\ phase' = [phase EXCEPT ![l] = "compiled"]
    /\ UNCHANGED <<streams, network, served, read, source, asked, options, instance>>

\* await res, then arrayBuffer(), which rejects for a body that was read.
Unfetched(l) ==
    /\ phase[l] = "fallback"
    /\ network[source[l].response] = "failed"
    /\ Fail(l, "network")

Reread(l) ==
    /\ phase[l] = "fallback"
    /\ Headers(source[l].response)
    /\ source[l].response \in read
    /\ Fail(l, "read")

BufferBegins(l) ==
    /\ phase[l] = "fallback"
    /\ LET r == source[l].response
       IN /\ Headers(r)
          /\ r \notin read
          /\ read' = read \cup {r}
    /\ phase' = [phase EXCEPT ![l] = "buffering"]
    /\ UNCHANGED <<streams, network, served, source, module, asked, options, instance>>

BufferBreaks(l) ==
    /\ phase[l] = "buffering"
    /\ network[source[l].response] = "broken"
    /\ Fail(l, "network")

Buffered(l) ==
    /\ phase[l] = "buffering"
    /\ network[source[l].response] = "complete"
    /\ module' = [module EXCEPT ![l] = served[source[l].response].content]
    /\ phase' = [phase EXCEPT ![l] = "compiling"]
    /\ UNCHANGED <<streams, network, served, read, source, asked, options, instance>>

Miscompile(l) ==
    /\ phase[l] = "compiling"
    /\ module[l] = Garbage
    /\ Fail(l, "compile")

Compile_Unchecked(l) ==
    /\ phase[l] = "compiling"
    /\ phase' = [phase EXCEPT ![l] = "compiled"]
    /\ UNCHANGED <<streams, network, served, read, source, module, asked, options, instance>>
Compile(l) ==
    /\ phase[l] = "compiling"
    /\ module[l] # Garbage
    /\ phase' = [phase EXCEPT ![l] = "compiled"]
    /\ UNCHANGED <<streams, network, served, read, source, module, asked, options, instance>>

-----------------------------------------------------------------------------
Step(l) ==
    \/ StreamRefused(l) \/ StreamBegins(l) \/ StreamBreaks(l) \/ StreamEnds(l)
    \/ Unfetched(l) \/ Reread(l) \/ BufferBegins(l) \/ BufferBreaks(l) \/ Buffered(l)
    \/ Miscompile(l) \/ Compile(l)
    \/ Instantiate(l)

InUse(r) == \E l \in Load : source[l] # None /\ source[l].kind = "response"
                                             /\ source[l].response = r

Next ==
    \/ \E l \in Load, s \in UNION {Sources[m] : m \in Load} :
         /\ s \in Sources[l]
         /\ \E o \in Versions[l] : createRevm(l, s, o) \/ createRevmSync(l, s, o)
    \/ \E l \in Load : ChangeOptions(l) \/ Step(l)
    \/ \E r \in {r \in Response : InUse(r)} : Arrive(r) \/ Transfer(r)

\* The platform runs the jobs of settled promises; the network owes nothing.
Spec == Init /\ [][Next]_vars /\ \A l \in Load : WF_vars(Step(l))

-----------------------------------------------------------------------------
Reasons == {"options", "link", "spec", "abi", "compile", "network", "read"}

TypeOK ==
    /\ read \subseteq Response
    /\ \A r \in Response : Headers(r) <=> served[r] \in Served
    /\ \A l \in Load :
         /\ phase[l] = "idle" <=> source[l] = None
         /\ source[l] # None => source[l] \in Sources[l] /\ options[l] \in Versions[l]
         /\ phase[l] \notin Settled => instance[l] = None
         /\ phase[l] = "failed" => instance[l] \in [error : Reasons]
         /\ phase[l] = "ready" => DOMAIN instance[l] = {"store", "defaults", "abi", "info"}
         /\ phase[l] = "compiled" => module[l] \notin {None, Garbage}

\* The bytes of a load are no artifact this loader can drive with its options.
Unfit(l, content) == content = Garbage \/ Refusal(content, options[l]) # None

\* A load fails only when the network does, when what it is given is not fit for
\* it, or when someone else reads its response: not because a server sends another
\* type, and not because the platform cannot stream.
FailsForCause ==
    \A l \in Load : phase[l] = "failed" =>
        IF source[l].kind # "response" THEN Unfit(l, source[l].content)
        ELSE LET r == source[l].response
             IN \/ network[r] \in {"failed", "broken"}
                \/ Unfit(l, served[r].content)
                \/ \E m \in Load \ {l} : source[m] = source[l]

\* An instance has its store and its defaults from one state of the options, when
\* they change while it loads, and one in which they agree with each other.  Its
\* bytes are of the options as they were when it was asked for: source is read
\* before the load waits, and the rest after.
OneReading ==
    \A l \in Load : phase[l] = "ready" =>
        \E o \in {asked[l], options[l]} :
            /\ instance[l].store = storeOf(l, o)
            /\ instance[l].defaults = buildDefaults(o)
            /\ ~ (o.host # None /\ o.state # None)

\* What an instance says of itself is true of the artifact it was given: the revm
\* linked into it, the switches it has and the calling convention it follows.
LoadedIsWhatItSays ==
    \A l \in Load : phase[l] = "ready" =>
        LET artifact == IF source[l].kind = "response" THEN served[source[l].response].content
                        ELSE source[l].content
        IN /\ instance[l].info.revm = artifact.linked.version
           /\ instance[l].info.revmRev = artifact.linked.rev
           /\ "relaxed-validation" \in instance[l].info.build
                <=> "relaxed-validation" \in artifact.features
           /\ artifact.abi = SUPPORTED_ABI_VERSION

\* A load whose bytes are there, or will not come, does not leave its caller waiting.
Answered(l) == /\ source[l] # None
               /\ source[l].kind = "response" =>
                    network[source[l].response] \in {"failed", "complete", "broken"}
Settles == \A l \in Load : Answered(l) ~> phase[l] \in Settled
=============================================================================
