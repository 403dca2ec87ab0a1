---------------------------- MODULE LoaderProofs ----------------------------
(***************************************************************************)
(* What holds of any number of loads, sources, responses and options.      *)
(***************************************************************************)
EXTENDS Loader, TLAPS

Domains ==
    /\ DOMAIN phase = Load /\ DOMAIN source = Load /\ DOMAIN module = Load
    /\ DOMAIN options = Load /\ DOMAIN instance = Load
    /\ DOMAIN network = Response /\ DOMAIN served = Response

Fetching == {"streaming", "draining", "fallback", "buffering"}

\* Someone else was given the same response.
Shared(l) == \E m \in Load \ {l} : source[m] = source[l]

\* The body will not do for anyone.
Spoilt(r) == network[r] = "broken" \/ (Headers(r) /\ served[r].content = Garbage)

\* What a load has so far is what it was given or served.
Carries(l) ==
    /\ phase[l] # "idle" => source[l] \in Sources[l]
    /\ phase[l] \in Fetching => source[l].kind = "response"
    /\ phase[l] = "draining" => Headers(source[l].response)
    /\ phase[l] \in {"compiling", "compiled"} =>
         /\ source[l].kind # "response" => module[l] = source[l].content
         /\ source[l].kind = "response" =>
              /\ Headers(source[l].response)
              /\ module[l] = served[source[l].response].content
    /\ phase[l] \in Settled /\ source[l].kind = "response" =>
         network[source[l].response] # "sent"

\* A body that a load has yet to read was read by someone else, or is spoilt: then
\* it may be this load itself that read it.
Reads(l) ==
    /\ phase[l] = "streaming" /\ source[l].response \in read => Shared(l)
    /\ phase[l] = "fallback" /\ source[l].response \in read =>
         Shared(l) \/ Spoilt(source[l].response)

Cause(l) ==
    phase[l] = "failed" =>
        IF source[l].kind # "response" THEN Unfit(l, source[l].content)
        ELSE \/ network[source[l].response] \in {"failed", "broken"}
             \/ Unfit(l, served[source[l].response].content)
             \/ Shared(l)

\* Every body that was read was read by a load that was given it.
Readers ==
    \A r \in read : \E m \in Load : /\ phase[m] # "idle"
                                    /\ source[m] = [kind |-> "response", response |-> r]

Idle(l) == phase[l] = "idle" => source[l] = None

LoadInv == /\ Domains /\ Readers
           /\ \A l \in Load : Idle(l) /\ Carries(l) /\ Reads(l) /\ Cause(l)

-----------------------------------------------------------------------------
LEMMA LoadInvInit == Init => LoadInv
  BY DEF Init, LoadInv, Domains, Readers, Idle, Carries, Reads, Cause, Fetching, Settled

\* What the network has done is not undone.
LEMMA NetworkStep ==
    ASSUME LoadInv, NEW q \in Response, Arrive(q) \/ Transfer(q)
    PROVE  LoadInv'
<1>1. UNCHANGED <<read, phase, source, module, options, instance>>
  BY DEF Arrive, Transfer
<1>2. DOMAIN network' = Response /\ DOMAIN served' = Response
  BY DEF Arrive, Transfer, LoadInv, Domains
<1>3. ASSUME NEW r \in Response
      PROVE  /\ Headers(r) => Headers(r)' /\ served'[r] = served[r]
             /\ network[r] # "sent" => network'[r] # "sent" /\ served'[r] = served[r]
             /\ network[r] = "broken" => network'[r] = "broken"
             /\ network[r] = "failed" => network'[r] = "failed"
  BY DEF Arrive, Transfer, Headers, LoadInv, Domains
<1>4. Domains' /\ Readers'
  BY <1>1, <1>2 DEF LoadInv, Domains, Readers
<1> SUFFICES ASSUME NEW l \in Load PROVE Idle(l)' /\ Carries(l)' /\ Reads(l)' /\ Cause(l)'
  BY <1>4 DEF LoadInv
<1>5. Idle(l) /\ Carries(l) /\ Reads(l) /\ Cause(l)
  BY DEF LoadInv
<1>6. phase[l] # "idle" /\ source[l].kind = "response" => source[l].response \in Response
  BY <1>5, SourcesAssumption DEF Carries
<1>7. Shared(l)' <=> Shared(l)
  BY <1>1 DEF Shared
<1>8. Idle(l)' /\ Carries(l)'
  BY <1>1, <1>3, <1>5, <1>6 DEF Idle, Carries, Fetching, Settled
<1>9. Reads(l)'
  BY <1>1, <1>3, <1>5, <1>6, <1>7 DEF Reads, Carries, Spoilt, Fetching
<1>10. Cause(l)'
  BY <1>1, <1>3, <1>5, <1>6, <1>7 DEF Cause, Carries, Unfit, Settled
<1> QED
  BY <1>8, <1>9, <1>10

\* A step of one load, which leaves what the others were given and have.
LEMMA OtherLoads ==
    ASSUME LoadInv, NEW l \in Load, Domains',
           UNCHANGED <<network, served>>,
           \A m \in Load \ {l} : /\ phase'[m] = phase[m] /\ source'[m] = source[m]
                                 /\ module'[m] = module[m] /\ options'[m] = options[m],
           phase[l] # "idle" => source'[l] = source[l],
           phase'[l] # "idle",
           \/ read' = read
           \/ /\ read' = read \cup {source'[l].response}
              /\ source'[l] = [kind |-> "response", response |-> source'[l].response],
           Idle(l)', Carries(l)', Reads(l)', Cause(l)'
    PROVE  LoadInv'
<1>1. ASSUME NEW m \in Load \ {l} PROVE Idle(m)' /\ Carries(m)' /\ Reads(m)' /\ Cause(m)'
  <2>1. Idle(m) /\ Carries(m) /\ Reads(m) /\ Cause(m) /\ Idle(l)
    BY DEF LoadInv
  <2>2. Shared(m) /\ source[m] # None => Shared(m)'
    BY <2>1 DEF Shared, Idle
  <2>3. phase[m] # "idle" => source[m] # None /\ source[m] \in Sources[m]
    BY <2>1, SourcesAssumption DEF Carries
  <2>4. Idle(m)' /\ Carries(m)'
    BY <2>1 DEF Idle, Carries, Headers
  <2>5. ASSUME phase[m] \in Fetching, source[m].response \in read',
               source[m].response \notin read
        PROVE  Shared(m)'
    <3>1. source[m] = [kind |-> "response", response |-> source[m].response]
      BY <2>1, <2>3, <2>5, SourcesAssumption DEF Carries, Fetching
    <3>2. source'[l] = source[m]
      BY <2>5, <3>1
    <3> QED
      BY <3>2 DEF Shared
  <2>6. Reads(m)'
    <3>1. Spoilt(source[m].response) => Spoilt(source[m].response)'
      BY DEF Spoilt, Headers
    <3> QED
      BY <2>1, <2>2, <2>3, <2>5, <3>1 DEF Reads, Fetching
  <2>7. Cause(m)'
    BY <2>1, <2>2, <2>3 DEF Cause, Unfit
  <2> QED
    BY <2>4, <2>6, <2>7
<1>2. Readers'
  <2> SUFFICES ASSUME NEW r \in read'
               PROVE  \E m \in Load : /\ phase'[m] # "idle"
                                      /\ source'[m] = [kind |-> "response", response |-> r]
    BY DEF Readers
  <2>1. CASE r \in read
    <3>1. PICK m \in Load : /\ phase[m] # "idle"
                            /\ source[m] = [kind |-> "response", response |-> r]
      BY <2>1 DEF LoadInv, Readers
    <3> QED
      BY <3>1
  <2>2. CASE r \notin read
    BY <2>2
  <2> QED
    BY <2>1, <2>2
<1> QED
  BY <1>1, <1>2 DEF LoadInv

-----------------------------------------------------------------------------
(* The steps of one load.                                                  *)

\* One that reads nothing and fails for a cause, if it fails.
LEMMA Settling ==
    ASSUME LoadInv, NEW l \in Load, NEW why,
           phase[l] # "idle", phase[l] \notin Settled, Fail(l, why),
           \/ source[l].kind = "response" /\ Shared(l)
           \/ source[l].kind = "response" /\ Spoilt(source[l].response)
           \/ source[l].kind = "response" /\ network[source[l].response] = "failed"
           \/ module[l] = Garbage /\ phase[l] = "compiling",
           source[l].kind = "response" => network[source[l].response] # "sent"
    PROVE  LoadInv'
<1>1. /\ phase' = [phase EXCEPT ![l] = "failed"]
      /\ instance' = [instance EXCEPT ![l] = [error |-> why]]
      /\ UNCHANGED <<network, served, read, source, module, options>>
  BY DEF Fail, Settle
<1>2. Domains' /\ phase'[l] = "failed"
  BY <1>1 DEF LoadInv, Domains
<1>3. Idle(l) /\ Carries(l) /\ source[l].kind \in {"module", "bytes", "response"}
  BY SourcesAssumption DEF LoadInv, Carries
<1>4. Idle(l)' /\ Carries(l)' /\ Reads(l)'
  BY <1>1, <1>2, <1>3 DEF Idle, Carries, Reads, Fetching, Settled
<1>5. Cause(l)'
  <2>1. Shared(l) => Shared(l)'
    BY <1>1 DEF Shared
  <2>2. CASE source[l].kind = "response" /\ Spoilt(source[l].response)
    BY <1>1, <2>2 DEF Cause, Spoilt, Unfit
  <2>3. CASE source[l].kind = "response" /\ Shared(l)
    BY <1>1, <2>1, <2>3 DEF Cause
  <2>4. CASE source[l].kind = "response" /\ network[source[l].response] = "failed"
    BY <1>1, <2>4 DEF Cause
  <2>5. CASE module[l] = Garbage /\ phase[l] = "compiling"
    BY <1>1, <1>3, <2>5 DEF Cause, Carries, Unfit
  <2> QED
    BY <2>2, <2>3, <2>4, <2>5
<1> QED
  BY <1>1, <1>2, <1>4, <1>5, OtherLoads DEF LoadInv, Domains

\* An instance, or the reason that there is none.
LEMMA Made ==
    ASSUME NEW l, NEW artifact, NEW o
    PROVE  "error" \in DOMAIN instantiated(l, artifact, o) <=> Refusal(artifact, o) # None
<1>1. CASE Refusal(artifact, o) # None
  BY <1>1 DEF instantiated
<1>2. CASE Refusal(artifact, o) = None
  <2>1. instantiated(l, artifact, o)
          = [store |-> storeOf(l, o), defaults |-> defaultsOf(l, o),
             abi |-> artifact.abi, info |-> INFO(artifact.lock, artifact.features)]
    BY <1>2 DEF instantiated
  <2> QED
    BY <1>2, <2>1
<1> QED
  BY <1>1, <1>2

LEMMA InstantiateStep ==
    ASSUME LoadInv, NEW l \in Load, Instantiate(l)
    PROVE  LoadInv'
<1>1. /\ phase[l] = "compiled"
      /\ phase' = [phase EXCEPT ![l] = IF Refusal(module[l], options[l]) # None
                                       THEN "failed" ELSE "ready"]
      /\ UNCHANGED <<network, served, read, source, module, options>>
  BY Made DEF Instantiate, Settle
<1>2. DOMAIN instance' = Load
  BY DEF Instantiate, Settle, LoadInv, Domains
<1>3. Domains'
  BY <1>1, <1>2 DEF LoadInv, Domains
<1>4. Idle(l) /\ Carries(l)
  BY DEF LoadInv
<1>5. /\ phase'[l] \in Settled
      /\ phase'[l] = "failed" => Refusal(module[l], options[l]) # None
  BY <1>1 DEF Settled, LoadInv, Domains
<1>6. Idle(l)' /\ Carries(l)' /\ Reads(l)'
  BY <1>1, <1>4, <1>5 DEF Idle, Carries, Reads, Fetching, Settled, Headers
<1>7. Cause(l)'
  BY <1>1, <1>4, <1>5 DEF Cause, Carries, Unfit
<1> QED
  BY <1>1, <1>3, <1>5, <1>6, <1>7, OtherLoads DEF LoadInv, Domains, Settled

\* The steps of a load that read a body, or go on with what they have.
LEMMA GoingOn ==
    ASSUME LoadInv, NEW l \in Load,
           \/ StreamRefused(l) \/ StreamBegins(l) \/ StreamBreaks(l) \/ StreamEnds(l)
           \/ BufferBegins(l) \/ Buffered(l) \/ Compile(l)
    PROVE  LoadInv'
<1> DEFINE r == source[l].response
<1>1. /\ DOMAIN phase' = Load /\ DOMAIN module' = Load
      /\ \A m \in Load \ {l} : phase'[m] = phase[m] /\ module'[m] = module[m]
      /\ UNCHANGED <<network, served, source, options, instance>>
      /\ phase[l] \notin {"idle"} \cup Settled
  BY DEF StreamRefused, StreamBegins, StreamBreaks, StreamEnds, BufferBegins, Buffered,
         Compile, Throws, LoadInv, Domains, Settled
<1>2. Domains'
  BY <1>1 DEF LoadInv, Domains
<1>3. /\ Idle(l) /\ Carries(l) /\ Reads(l)
      /\ source[l].kind = "response" => r \in Response
                                        /\ source[l] = [kind |-> "response", response |-> r]
  BY <1>1, SourcesAssumption DEF LoadInv, Carries
<1>4. Shared(l)' <=> Shared(l)
  BY <1>1 DEF Shared
<1>5. CASE StreamRefused(l)
  <2>1. /\ phase[l] = "streaming" /\ phase'[l] = "fallback"
        /\ read' = read /\ module' = module
    BY <1>5 DEF StreamRefused, Throws, caught, LoadInv, Domains
  <2>2. Idle(l)' /\ Carries(l)' /\ Reads(l)' /\ Cause(l)'
    BY <1>1, <1>3, <1>4, <2>1 DEF Idle, Carries, Reads, Cause, Fetching, Settled
  <2> QED
    BY <1>1, <1>2, <2>1, <2>2, OtherLoads
<1>6. CASE StreamBegins(l) \/ BufferBegins(l)
  <2>1. /\ phase[l] \in Fetching /\ phase'[l] \in {"draining", "buffering"}
        /\ Headers(r)
        /\ read' = read \cup {r} /\ module' = module
    BY <1>6 DEF StreamBegins, BufferBegins, Fetching, LoadInv, Domains
  <2>2. Headers(r)'
    BY <1>1, <2>1 DEF Headers
  <2>3. Idle(l)' /\ Carries(l)' /\ Reads(l)' /\ Cause(l)'
    BY <1>1, <1>3, <2>1, <2>2 DEF Idle, Carries, Reads, Cause, Fetching, Settled
  <2>4. source'[l] = [kind |-> "response", response |-> r]
    BY <1>1, <1>3, <2>1 DEF Carries
  <2> QED
    BY <1>1, <1>2, <2>1, <2>3, <2>4, OtherLoads
<1>7. CASE StreamBreaks(l)
  <2>1. /\ phase[l] = "draining" /\ phase'[l] = "fallback"
        /\ network[r] = "broken" \/ served[r].content = Garbage
        /\ read' = read /\ module' = module
    BY <1>7 DEF StreamBreaks, Throws, caught, LoadInv, Domains
  <2>2. Spoilt(r)'
    BY <1>1, <1>3, <2>1 DEF Spoilt, Carries, Headers
  <2>3. Idle(l)' /\ Carries(l)' /\ Reads(l)' /\ Cause(l)'
    BY <1>1, <1>3, <2>1, <2>2 DEF Idle, Carries, Reads, Cause, Fetching, Settled
  <2> QED
    BY <1>1, <1>2, <2>1, <2>3, OtherLoads
<1>8. CASE StreamEnds(l) \/ Buffered(l)
  <2>1. /\ phase[l] \in Fetching /\ phase'[l] \in {"compiled", "compiling"}
        /\ network[r] = "complete"
        /\ module'[l] = served[r].content
        /\ read' = read
    BY <1>8 DEF StreamEnds, Buffered, Fetching, LoadInv, Domains
  <2>2. Headers(r)'
    BY <1>1, <2>1 DEF Headers
  <2>3. Idle(l)' /\ Carries(l)' /\ Reads(l)' /\ Cause(l)'
    BY <1>1, <1>3, <2>1, <2>2 DEF Idle, Carries, Reads, Cause, Fetching, Settled
  <2> QED
    BY <1>1, <1>2, <2>1, <2>3, OtherLoads
<1>9. CASE Compile(l)
  <2>1. phase[l] = "compiling" /\ phase'[l] = "compiled" /\ read' = read /\ module' = module
    BY <1>9 DEF Compile, LoadInv, Domains
  <2>2. Idle(l)' /\ Carries(l)' /\ Reads(l)' /\ Cause(l)'
    BY <1>1, <1>3, <2>1 DEF Idle, Carries, Reads, Cause, Fetching, Settled, Headers
  <2> QED
    BY <1>1, <1>2, <2>1, <2>2, OtherLoads
<1> QED
  BY <1>5, <1>6, <1>7, <1>8, <1>9

\* The body of a response that is given to a load may have been read by another.
LEMMA CreateStep ==
    ASSUME LoadInv, NEW l \in Load, NEW s \in Sources[l], NEW o, createRevm(l, s, o)
    PROVE  LoadInv'
<1>1. /\ phase[l] = "idle"
      /\ phase' = [phase EXCEPT ![l] = CASE s.kind = "module" -> "compiled"
                                         [] s.kind = "bytes" -> "compiling"
                                         [] s.kind = "response" ->
                                              IF streams THEN "streaming" ELSE "fallback"]
      /\ source' = [source EXCEPT ![l] = s]
      /\ options' = [options EXCEPT ![l] = o]
      /\ module' = [module EXCEPT ![l] = IF s.kind = "response" THEN None ELSE s.content]
      /\ UNCHANGED <<network, served, read, instance>>
  BY DEF createRevm, Called
<1>2. /\ s # None /\ s.kind \in {"module", "bytes", "response"}
      /\ s.kind = "response" => s = [kind |-> "response", response |-> s.response]
  BY SourcesAssumption
<1>3. Domains' /\ source'[l] = s
  BY <1>1 DEF LoadInv, Domains
<1>4. CASE s.kind # "response"
  <2>1. phase'[l] \in {"compiled", "compiling"} /\ module'[l] = s.content
    BY <1>1, <1>2, <1>4 DEF LoadInv, Domains
  <2>2. Idle(l)' /\ Carries(l)' /\ Reads(l)' /\ Cause(l)'
    BY <1>3, <1>4, <2>1 DEF Idle, Carries, Reads, Cause, Fetching, Settled
  <2> QED
    BY <1>1, <1>3, <2>1, <2>2, OtherLoads DEF LoadInv, Domains
<1>5. CASE s.kind = "response"
  <2>1. phase'[l] \in {"streaming", "fallback"}
    BY <1>1, <1>5 DEF LoadInv, Domains
  <2>2. s.response \in read' => Shared(l)'
    <3> SUFFICES ASSUME s.response \in read PROVE Shared(l)'
      BY <1>1
    <3>1. PICK m \in Load : /\ phase[m] # "idle"
                            /\ source[m] = [kind |-> "response", response |-> s.response]
      BY DEF LoadInv, Readers
    <3>2. m # l /\ source'[m] = source'[l]
      BY <1>1, <1>2, <1>3, <1>5, <3>1 DEF LoadInv, Domains
    <3> QED
      BY <3>2 DEF Shared
  <2>3. Idle(l)' /\ Carries(l)' /\ Reads(l)' /\ Cause(l)'
    BY <1>3, <1>5, <2>1, <2>2 DEF Idle, Carries, Reads, Cause, Fetching, Settled
  <2> QED
    BY <1>1, <1>3, <2>1, <2>3, OtherLoads DEF LoadInv, Domains
<1> QED
  BY <1>4, <1>5

LEMMA CreateSyncStep ==
    ASSUME LoadInv, NEW l \in Load, NEW s \in Sources[l], NEW o, createRevmSync(l, s, o)
    PROVE  LoadInv'
<1> DEFINE bad == s.content = Garbage \/ Refusal(s.content, o) # None
<1>1. /\ phase[l] = "idle" /\ s.kind \in {"module", "bytes"}
      /\ phase' = [phase EXCEPT ![l] = IF bad THEN "failed" ELSE "ready"]
      /\ source' = [source EXCEPT ![l] = s]
      /\ options' = [options EXCEPT ![l] = o]
      /\ UNCHANGED <<network, served, read, module>>
      /\ DOMAIN instance' = DOMAIN instance
  <2>1. /\ phase[l] = "idle" /\ s.kind \in {"module", "bytes"}
        /\ Settle(l, IF s.content = Garbage THEN [error |-> "compile"]
                     ELSE instantiated(l, s.content, o))
        /\ source' = [source EXCEPT ![l] = s]
        /\ options' = [options EXCEPT ![l] = o]
        /\ UNCHANGED <<network, served, read, module>>
    BY DEF createRevmSync, Called
  <2>2. "error" \in DOMAIN [error |-> "compile"]
    OBVIOUS
  <2> QED
    BY <2>1, <2>2, Made DEF Settle
<1>2. s # None /\ Domains' /\ source'[l] = s /\ options'[l] = o
  BY <1>1, SourcesAssumption DEF LoadInv, Domains
<1>3. phase'[l] \in Settled /\ (phase'[l] = "failed" => bad)
  BY <1>1 DEF LoadInv, Domains, Settled
<1>4. Idle(l)' /\ Carries(l)' /\ Reads(l)'
  BY <1>1, <1>2, <1>3 DEF Idle, Carries, Reads, Fetching, Settled
<1>5. Cause(l)'
  BY <1>1, <1>2, <1>3 DEF Cause, Unfit
<1> QED
  BY <1>1, <1>2, <1>3, <1>4, <1>5, OtherLoads DEF LoadInv, Domains, Settled

LEMMA ChangeStep ==
    ASSUME LoadInv, NEW l \in Load, ChangeOptions(l)
    PROVE  LoadInv'
<1>1. /\ phase[l] \notin {"idle"} \cup Settled
      /\ UNCHANGED <<network, served, read, phase, source, module, instance>>
  BY DEF ChangeOptions
<1>2. PICK o : options' = [options EXCEPT ![l] = o]
  BY DEF ChangeOptions
<1>3. Domains'
  BY <1>1, <1>2 DEF LoadInv, Domains
<1>4. Idle(l) /\ Carries(l) /\ Reads(l)
  BY DEF LoadInv
<1>5. Idle(l)' /\ Carries(l)' /\ Reads(l)' /\ Cause(l)'
  BY <1>1, <1>4 DEF Idle, Carries, Reads, Cause, Settled, Spoilt, Shared, Headers
<1> QED
  BY <1>1, <1>2, <1>3, <1>5, OtherLoads DEF LoadInv, Domains

LEMMA FailingStep ==
    ASSUME LoadInv, NEW l \in Load,
           Unfetched(l) \/ Reread(l) \/ BufferBreaks(l) \/ Miscompile(l)
    PROVE  LoadInv'
<1>1. Carries(l) /\ Reads(l)
  BY DEF LoadInv
<1>2. CASE Unfetched(l)
  BY <1>1, <1>2, Settling DEF Unfetched, Carries, Fetching, Settled
<1>3. CASE Reread(l)
  BY <1>1, <1>3, Settling DEF Reread, Carries, Reads, Fetching, Settled, Headers
<1>4. CASE BufferBreaks(l)
  BY <1>1, <1>4, Settling DEF BufferBreaks, Carries, Fetching, Settled, Spoilt
<1>5. CASE Miscompile(l)
  BY <1>1, <1>5, Settling DEF Miscompile, Carries, Settled, Headers
<1> QED
  BY <1>2, <1>3, <1>4, <1>5

LEMMA LoadInvNext == LoadInv /\ [Next]_vars => LoadInv'
<1> SUFFICES ASSUME LoadInv, [Next]_vars PROVE LoadInv'
  OBVIOUS
<1>1. ASSUME NEW l \in Load, NEW s \in Sources[l], NEW o \in Versions[l],
             createRevm(l, s, o) \/ createRevmSync(l, s, o)
      PROVE  LoadInv'
  BY <1>1, CreateStep, CreateSyncStep
<1>2. ASSUME NEW l \in Load, ChangeOptions(l) PROVE LoadInv'
  BY <1>2, ChangeStep
<1>3. ASSUME NEW l \in Load, Step(l) PROVE LoadInv'
  BY <1>3, GoingOn, FailingStep, InstantiateStep DEF Step
<1>4. ASSUME NEW r \in Response, Arrive(r) \/ Transfer(r) PROVE LoadInv'
  BY <1>4, NetworkStep
<1>5. CASE UNCHANGED vars
  BY <1>5 DEF vars, LoadInv, Domains, Readers, Idle, Carries, Reads, Cause, Shared, Spoilt,
             Headers, Unfit
<1> QED
  BY <1>1, <1>2, <1>3, <1>4, <1>5 DEF Next

\* However many loads there are and whatever responses they share, none fails for
\* the server's content type, for want of streaming, or for reading a body twice
\* that nobody else was given and that was good.
THEOREM FailuresHaveCause == Spec => []FailsForCause
<1>1. LoadInv => FailsForCause
  BY DEF LoadInv, Cause, FailsForCause, Shared
<1> QED
  BY <1>1, LoadInvInit, LoadInvNext, PTL DEF Spec

-----------------------------------------------------------------------------
\* Store and defaults both come of the options as they are when the instance is
\* made, which refuses a host and a state together; after that nobody reads them.
ReadAtOnce(l) ==
    phase[l] = "ready" =>
        /\ instance[l].store = storeOf(l, options[l])
        /\ instance[l].defaults = buildDefaults(options[l])
        /\ ~ (options[l].host # None /\ options[l].state # None)

ReadingInv == LoadInv /\ \A l \in Load : ReadAtOnce(l)

LEMMA MadeOf ==
    ASSUME NEW l, NEW artifact, NEW o, "error" \notin DOMAIN instantiated(l, artifact, o)
    PROVE  /\ instantiated(l, artifact, o).store = storeOf(l, o)
           /\ instantiated(l, artifact, o).defaults = buildDefaults(o)
           /\ ~ (o.host # None /\ o.state # None)
<1>1. instantiated(l, artifact, o)
        = [store |-> storeOf(l, o), defaults |-> defaultsOf(l, o),
           abi |-> artifact.abi, info |-> INFO(artifact.lock, artifact.features)]
  BY Made DEF instantiated
<1>2. Refusal(artifact, o) = None
  BY Made
<1>3. None # "options"
  BY NoneAssumption
<1> QED
  BY <1>1, <1>2, <1>3 DEF Refusal, defaultsOf

\* The options may change at any time until an instance is there: it never has the
\* store of one state of them and the defaults of another.
THEOREM OptionsReadOnce == Spec => []OneReading
<1>1. Init => ReadingInv
  BY LoadInvInit DEF Init, ReadingInv, ReadAtOnce
<1>2. ReadingInv /\ [Next]_vars => ReadingInv'
  <2> SUFFICES ASSUME ReadingInv, [Next]_vars PROVE \A l \in Load : ReadAtOnce(l)'
    BY LoadInvNext DEF ReadingInv
  <2>1. /\ DOMAIN phase = Load /\ DOMAIN options = Load /\ DOMAIN instance = Load
        /\ \A l \in Load : ReadAtOnce(l)
    BY DEF ReadingInv, LoadInv, Domains
  \* A load that is made an instance, by either function.
  <2>2. ASSUME NEW l \in Load, NEW result, Settle(l, result), NEW o, options'[l] = o,
               \A m \in Load \ {l} : options'[m] = options[m],
               "error" \notin DOMAIN result =>
                  /\ result.store = storeOf(l, o)
                  /\ result.defaults = buildDefaults(o)
                  /\ ~ (o.host # None /\ o.state # None)
        PROVE  \A m \in Load : ReadAtOnce(m)'
    <3>1. ReadAtOnce(l)'
      BY <2>1, <2>2 DEF Settle, ReadAtOnce
    <3>2. ASSUME NEW m \in Load \ {l} PROVE ReadAtOnce(m)'
      BY <2>1, <2>2 DEF Settle, ReadAtOnce
    <3> QED
      BY <3>1, <3>2
  \* A load that goes on or fails, or the options of one that has not ended.
  <2>3. ASSUME NEW l \in Load, phase'[l] # "ready",
               \A m \in Load \ {l} : /\ phase'[m] = phase[m] /\ options'[m] = options[m]
                                     /\ instance'[m] = instance[m]
        PROVE  \A m \in Load : ReadAtOnce(m)'
    <3>1. ReadAtOnce(l)'
      BY <2>3 DEF ReadAtOnce
    <3>2. ASSUME NEW m \in Load \ {l} PROVE ReadAtOnce(m)'
      BY <2>1, <2>3 DEF ReadAtOnce
    <3> QED
      BY <3>1, <3>2
  <2>4. ASSUME NEW l \in Load, NEW s \in Sources[l], NEW o \in Versions[l], createRevm(l, s, o)
        PROVE  \A m \in Load : ReadAtOnce(m)'
    <3>1. s.kind \in {"module", "bytes", "response"}
      BY SourcesAssumption
    <3>2. phase'[l] # "ready"
      BY <2>1, <2>4, <3>1 DEF createRevm
    <3> QED
      BY <2>1, <2>3, <2>4, <3>2 DEF createRevm, Called
  <2>5. ASSUME NEW l \in Load, NEW s \in Sources[l], NEW o \in Versions[l],
               createRevmSync(l, s, o)
        PROVE  \A m \in Load : ReadAtOnce(m)'
    <3> DEFINE result == IF s.content = Garbage THEN [error |-> "compile"]
                         ELSE instantiated(l, s.content, o)
    <3>1. Settle(l, result) /\ options' = [options EXCEPT ![l] = o]
      BY <2>5 DEF createRevmSync, Called
    <3>2. "error" \notin DOMAIN result => /\ result.store = storeOf(l, o)
                                          /\ result.defaults = buildDefaults(o)
                                          /\ ~ (o.host # None /\ o.state # None)
      BY MadeOf
    <3> HIDE DEF result
    <3> QED
      BY <2>1, <2>2, <3>1, <3>2
  <2>6. ASSUME NEW l \in Load, Instantiate(l) PROVE \A m \in Load : ReadAtOnce(m)'
    <3> DEFINE result == instantiated(l, module[l], options[l])
    <3>1. Settle(l, result) /\ options' = options
      BY <2>6 DEF Instantiate
    <3>2. "error" \notin DOMAIN result => /\ result.store = storeOf(l, options[l])
                                          /\ result.defaults = buildDefaults(options[l])
                                          /\ ~ (options[l].host # None /\ options[l].state # None)
      BY MadeOf
    <3> HIDE DEF result
    <3> QED
      BY <2>1, <2>2, <3>1, <3>2
  <2>7. ASSUME NEW l \in Load, ChangeOptions(l) PROVE \A m \in Load : ReadAtOnce(m)'
    BY <2>1, <2>3, <2>7 DEF ChangeOptions, Settled
  <2>8. ASSUME NEW l \in Load, Step(l), ~ Instantiate(l)
        PROVE  \A m \in Load : ReadAtOnce(m)'
    <3>1. CASE \/ StreamRefused(l) \/ StreamBegins(l) \/ StreamBreaks(l) \/ StreamEnds(l)
               \/ BufferBegins(l) \/ Buffered(l) \/ Compile(l)
      BY <2>1, <2>3, <3>1 DEF StreamRefused, StreamBegins, StreamBreaks, StreamEnds,
         BufferBegins, Buffered, Compile, Throws, caught
    <3>2. CASE Unfetched(l) \/ Reread(l) \/ BufferBreaks(l) \/ Miscompile(l)
      <4>1. PICK why : Fail(l, why)
        BY <3>2 DEF Unfetched, Reread, BufferBreaks, Miscompile
      <4>2. /\ phase' = [phase EXCEPT ![l] = "failed"] /\ options' = options
            /\ instance' = [instance EXCEPT ![l] = [error |-> why]]
        BY <4>1 DEF Fail, Settle
      <4> QED
        BY <2>1, <2>3, <4>2
    <3> QED
      BY <2>8, <3>1, <3>2 DEF Step
  <2>9. CASE UNCHANGED <<phase, options, instance>>
    BY <2>1, <2>9 DEF ReadAtOnce
  <2>10. ASSUME NEW r \in Response, Arrive(r) \/ Transfer(r)
         PROVE  UNCHANGED <<phase, options, instance>>
    BY <2>10 DEF Arrive, Transfer
  <2> QED
    BY <2>4, <2>5, <2>6, <2>7, <2>8, <2>9, <2>10 DEF Next, vars
<1>3. ReadingInv => OneReading
  BY DEF ReadingInv, ReadAtOnce, OneReading
<1> QED
  BY <1>1, <1>2, <1>3, PTL DEF Spec

-----------------------------------------------------------------------------
(* The types, and what an instance says of itself.                         *)

\* The bytes of a load, once they are known.
Cargo(l) == IF source[l].kind = "response" THEN served[source[l].response].content
            ELSE source[l].content

\* What an instance knows comes of the bytes it was made of, which compiled.
SpeaksOfItsCargo(l) ==
    phase[l] = "ready" =>
        /\ Cargo(l) \in Contents \ {Garbage}
        /\ instance[l].abi = Cargo(l).abi
        /\ instance[l].info = INFO(Cargo(l).lock, Cargo(l).features)
        /\ Cargo(l).abi = SUPPORTED_ABI_VERSION

TypeInv == LoadInv /\ TypeOK /\ \A l \in Load : SpeaksOfItsCargo(l)

\* The part of the types that is about one load.
Typed(l) ==
    /\ phase[l] = "idle" <=> source[l] = None
    /\ source[l] # None => source[l] \in Sources[l] /\ options[l] \in Versions[l]
    /\ phase[l] \notin Settled => instance[l] = None
    /\ phase[l] = "failed" => instance[l] \in [error : Reasons]
    /\ phase[l] = "ready" => DOMAIN instance[l] = {"store", "defaults", "abi", "info"}
    /\ phase[l] = "compiled" => module[l] \notin {None, Garbage}

LEMMA TypeInvInit == Init => TypeInv
<1> SUFFICES ASSUME Init PROVE TypeInv
  OBVIOUS
<1>1. LoadInv
  BY LoadInvInit
<1>2. \A r \in Response : Headers(r) <=> served[r] \in Served
  BY NoneAssumption DEF Init, Headers
<1> QED
  BY <1>1, <1>2 DEF Init, TypeInv, TypeOK, SpeaksOfItsCargo, Settled

\* Bytes that a load may have are among the contents.
LEMMA CargoIsContent ==
    ASSUME TypeOK, NEW l \in Load, source[l] # None,
           source[l].kind = "response" => Headers(source[l].response)
    PROVE  Cargo(l) \in Contents
<1>1. source[l] \in Sources[l]
  BY DEF TypeOK
<1>2. CASE source[l].kind # "response"
  BY <1>1, <1>2 DEF Cargo, Contents
<1>3. CASE source[l].kind = "response"
  <2>1. source[l].response \in Response
    BY <1>1, <1>3, SourcesAssumption
  <2>2. served[source[l].response] \in Served
    BY <1>3, <2>1 DEF TypeOK
  <2> QED
    BY <1>3, <2>2 DEF Cargo, Contents
<1> QED
  BY <1>2, <1>3

\* Before a load has its end, all that is said of it is its types.
LEMMA OneLoad ==
    ASSUME TypeInv, LoadInv', NEW l \in Load, UNCHANGED <<network, served>>,
           read' \subseteq Response,
           \A m \in Load \ {l} : /\ phase'[m] = phase[m] /\ source'[m] = source[m]
                                 /\ module'[m] = module[m] /\ options'[m] = options[m]
                                 /\ instance'[m] = instance[m],
           Typed(l)', SpeaksOfItsCargo(l)'
    PROVE  TypeInv'
<1>1. ASSUME NEW m \in Load \ {l} PROVE Typed(m)' /\ SpeaksOfItsCargo(m)'
  <2>1. Typed(m) /\ SpeaksOfItsCargo(m)
    BY DEF TypeInv, TypeOK, Typed
  <2> QED
    BY <2>1 DEF Typed, SpeaksOfItsCargo, Cargo
<1>2. \A r \in Response : Headers(r)' <=> served'[r] \in Served
  BY DEF TypeInv, TypeOK, Headers
<1>3. TypeOK'
  BY <1>1, <1>2 DEF TypeOK, Typed
<1> QED
  BY <1>1, <1>3 DEF TypeInv

LEMMA TypedNetwork ==
    ASSUME TypeInv, LoadInv', NEW q \in Response, Arrive(q) \/ Transfer(q)
    PROVE  TypeInv'
<1>1. UNCHANGED <<read, phase, source, module, options, instance>>
  BY DEF Arrive, Transfer
<1>2. ASSUME NEW r \in Response
      PROVE  /\ Headers(r)' <=> served'[r] \in Served
             /\ network[r] # "sent" => served'[r] = served[r]
  <2>1. Headers(r) <=> served[r] \in Served
    BY DEF TypeInv, TypeOK
  <2>2. CASE Arrive(q)
    BY <2>1, <2>2 DEF Arrive, Headers, TypeInv, LoadInv, Domains
  <2>3. CASE Transfer(q)
    BY <2>1, <2>3 DEF Transfer, Headers, TypeInv, LoadInv, Domains
  <2> QED
    BY <2>2, <2>3
<1>3. ASSUME NEW l \in Load PROVE Typed(l)' /\ SpeaksOfItsCargo(l)'
  <2>1. Typed(l) /\ SpeaksOfItsCargo(l) /\ Carries(l)
    BY DEF TypeInv, TypeOK, Typed, LoadInv
  <2>2. Typed(l)'
    BY <1>1, <2>1 DEF Typed
  <2>3. ASSUME phase[l] = "ready" PROVE Cargo(l)' = Cargo(l)
    <3>1. source[l].kind = "response" => /\ source[l].response \in Response
                                         /\ network[source[l].response] # "sent"
      BY <2>1, <2>3, SourcesAssumption DEF Carries, Settled
    <3> QED
      BY <1>1, <1>2, <3>1 DEF Cargo
  <2> QED
    BY <1>1, <2>1, <2>2, <2>3 DEF SpeaksOfItsCargo
<1>4. TypeOK'
  BY <1>1, <1>2, <1>3 DEF TypeInv, TypeOK, Typed
<1> QED
  BY <1>3, <1>4 DEF TypeInv

\* What is made of an artifact and options: one of the reasons, or an instance that
\* knows the artifact.
LEMMA MadeTyped ==
    ASSUME NEW l, NEW artifact, NEW o
    PROVE  LET result == instantiated(l, artifact, o)
           IN /\ "error" \in DOMAIN result => result \in [error : Reasons]
              /\ "error" \notin DOMAIN result =>
                    /\ DOMAIN result = {"store", "defaults", "abi", "info"}
                    /\ result.abi = artifact.abi
                    /\ result.info = INFO(artifact.lock, artifact.features)
                    /\ artifact.abi = SUPPORTED_ABI_VERSION
<1>1. CASE Refusal(artifact, o) # None
  <2>1. instantiated(l, artifact, o) = [error |-> Refusal(artifact, o)]
    BY <1>1 DEF instantiated
  <2>2. Refusal(artifact, o) \in Reasons
    BY <1>1 DEF Refusal, Reasons
  <2> QED
    BY <2>1, <2>2
<1>2. CASE Refusal(artifact, o) = None
  <2>1. instantiated(l, artifact, o)
          = [store |-> storeOf(l, o), defaults |-> defaultsOf(l, o),
             abi |-> artifact.abi, info |-> INFO(artifact.lock, artifact.features)]
    BY <1>2 DEF instantiated
  <2>2. artifact.abi = SUPPORTED_ABI_VERSION
    BY <1>2, NoneAssumption DEF Refusal
  <2> QED
    BY <2>1, <2>2
<1> QED
  BY <1>1, <1>2

LEMMA TypedInstantiate ==
    ASSUME TypeInv, LoadInv', NEW l \in Load, Instantiate(l)
    PROVE  TypeInv'
<1> DEFINE result == instantiated(l, module[l], options[l])
<1>1. /\ phase[l] = "compiled" /\ Settle(l, result)
      /\ UNCHANGED <<network, served, read, source, module, options>>
  BY DEF Instantiate
<1>2. /\ "error" \in DOMAIN result => result \in [error : Reasons]
      /\ "error" \notin DOMAIN result =>
            /\ DOMAIN result = {"store", "defaults", "abi", "info"}
            /\ result.abi = module[l].abi
            /\ result.info = INFO(module[l].lock, module[l].features)
            /\ module[l].abi = SUPPORTED_ABI_VERSION
  BY MadeTyped
<1> HIDE DEF result
<1>3. Typed(l) /\ Carries(l) /\ read \subseteq Response
  BY DEF TypeInv, TypeOK, Typed, LoadInv
<1>4. /\ phase' = [phase EXCEPT ![l] = IF "error" \in DOMAIN result THEN "failed" ELSE "ready"]
      /\ instance' = [instance EXCEPT ![l] = result]
      /\ DOMAIN phase = Load /\ DOMAIN instance = Load
  BY <1>1 DEF Settle, TypeInv, LoadInv, Domains
<1>5. /\ phase'[l] = IF "error" \in DOMAIN result THEN "failed" ELSE "ready"
      /\ instance'[l] = result
      /\ \A m \in Load \ {l} : phase'[m] = phase[m] /\ instance'[m] = instance[m]
  BY <1>4
<1>6. Typed(l)'
  BY <1>1, <1>2, <1>3, <1>5 DEF Typed, Settled
<1>7. module[l] = Cargo(l) /\ Cargo(l) \in Contents \ {Garbage} /\ Cargo(l)' = Cargo(l)
  <2>1. source[l] # None /\ module[l] # Garbage
    BY <1>1, <1>3 DEF Typed
  <2>2. source[l].kind = "response" => Headers(source[l].response)
    BY <1>1, <1>3, <2>1 DEF Carries
  <2>3. module[l] = Cargo(l)
    BY <1>1, <1>3 DEF Carries, Cargo
  <2> QED
    BY <1>1, <2>1, <2>2, <2>3, CargoIsContent DEF TypeInv, Cargo
<1>8. SpeaksOfItsCargo(l)'
  BY <1>2, <1>5, <1>7 DEF SpeaksOfItsCargo
<1> QED
  BY <1>1, <1>3, <1>5, <1>6, <1>8, OneLoad

LEMMA TypedFailing ==
    ASSUME TypeInv, LoadInv', NEW l \in Load,
           Unfetched(l) \/ Reread(l) \/ BufferBreaks(l) \/ Miscompile(l)
    PROVE  TypeInv'
<1>1. PICK why \in Reasons : Fail(l, why)
  BY DEF Unfetched, Reread, BufferBreaks, Miscompile, Reasons
<1>2. /\ phase' = [phase EXCEPT ![l] = "failed"]
      /\ instance' = [instance EXCEPT ![l] = [error |-> why]]
      /\ UNCHANGED <<network, served, read, source, module, options>>
  BY <1>1 DEF Fail, Settle
<1>3. phase[l] \notin {"idle"} \cup Settled
  BY DEF Unfetched, Reread, BufferBreaks, Miscompile, Settled
<1>4. DOMAIN phase = Load /\ DOMAIN instance = Load /\ Typed(l) /\ read \subseteq Response
  BY DEF TypeInv, TypeOK, Typed, LoadInv, Domains
<1>5. /\ phase'[l] = "failed" /\ instance'[l] = [error |-> why]
      /\ \A m \in Load \ {l} : phase'[m] = phase[m] /\ instance'[m] = instance[m]
  BY <1>2, <1>4
<1>6. Typed(l)' /\ SpeaksOfItsCargo(l)'
  BY <1>2, <1>3, <1>4, <1>5 DEF Typed, Settled, SpeaksOfItsCargo
<1> QED
  BY <1>2, <1>4, <1>5, <1>6, OneLoad

LEMMA TypedGoingOn ==
    ASSUME TypeInv, LoadInv', NEW l \in Load,
           \/ StreamRefused(l) \/ StreamBegins(l) \/ StreamBreaks(l) \/ StreamEnds(l)
           \/ BufferBegins(l) \/ Buffered(l) \/ Compile(l)
    PROVE  TypeInv'
<1>1. /\ \A m \in Load \ {l} : phase'[m] = phase[m] /\ module'[m] = module[m]
      /\ UNCHANGED <<network, served, source, options, instance>>
      /\ phase[l] \notin {"idle"} \cup Settled
      /\ phase'[l] \notin {"idle"} \cup Settled
  BY DEF StreamRefused, StreamBegins, StreamBreaks, StreamEnds, BufferBegins, Buffered,
         Compile, Throws, caught, TypeInv, LoadInv, Domains, Settled
<1>2. Typed(l) /\ Carries(l) /\ read \subseteq Response
  BY DEF TypeInv, TypeOK, Typed, LoadInv
<1>3. phase'[l] = "compiled" => module'[l] \notin {None, Garbage}
  <2>1. CASE StreamEnds(l)
    <3>1. /\ phase[l] = "draining" /\ module'[l] = Cargo(l) /\ Cargo(l) # Garbage
      BY <1>2, <2>1 DEF StreamEnds, Carries, Fetching, Cargo, TypeInv, LoadInv, Domains
    <3>2. source[l] # None /\ Headers(source[l].response)
      BY <1>2, <3>1 DEF Typed, Carries
    <3>3. Cargo(l) \in Contents
      BY <3>2, CargoIsContent DEF TypeInv
    <3> QED
      BY <3>1, <3>3, NoneAssumption
  <2>2. CASE Compile(l)
    <3>1. phase[l] = "compiling" /\ module'[l] = module[l] /\ module[l] # Garbage
      BY <2>2 DEF Compile
    <3>2. /\ source[l] # None /\ module[l] = Cargo(l)
          /\ source[l].kind = "response" => Headers(source[l].response)
      BY <1>2, <3>1 DEF Typed, Carries, Cargo
    <3>3. Cargo(l) \in Contents
      BY <3>2, CargoIsContent DEF TypeInv
    <3> QED
      BY <3>1, <3>2, <3>3, NoneAssumption
  <2>3. CASE ~ (StreamEnds(l) \/ Compile(l))
    BY <2>3 DEF StreamRefused, StreamBegins, StreamBreaks, BufferBegins, Buffered,
           Throws, caught, TypeInv, LoadInv, Domains
  <2> QED
    BY <2>1, <2>2, <2>3
<1>4. Typed(l)' /\ SpeaksOfItsCargo(l)'
  BY <1>1, <1>2, <1>3 DEF Typed, SpeaksOfItsCargo, Settled
<1>5. read' \subseteq Response
  <2>1. phase[l] \in Fetching => source[l].response \in Response
    BY <1>2, SourcesAssumption DEF Carries, Fetching
  <2> QED
    BY <1>2, <2>1 DEF StreamRefused, StreamBegins, StreamBreaks, StreamEnds, BufferBegins,
           Buffered, Compile, Throws, Fetching
<1> QED
  BY <1>1, <1>4, <1>5, OneLoad

LEMMA TypedCreate ==
    ASSUME TypeInv, LoadInv', NEW l \in Load, NEW s \in Sources[l], NEW o \in Versions[l],
           createRevm(l, s, o)
    PROVE  TypeInv'
<1>1. /\ phase[l] = "idle"
      /\ phase' = [phase EXCEPT ![l] = CASE s.kind = "module" -> "compiled"
                                         [] s.kind = "bytes" -> "compiling"
                                         [] s.kind = "response" ->
                                              IF streams THEN "streaming" ELSE "fallback"]
      /\ source' = [source EXCEPT ![l] = s]
      /\ options' = [options EXCEPT ![l] = o]
      /\ module' = [module EXCEPT ![l] = IF s.kind = "response" THEN None ELSE s.content]
      /\ UNCHANGED <<network, served, read, instance>>
  BY DEF createRevm, Called
<1>2. s # None /\ s.kind \in {"module", "bytes", "response"}
  BY SourcesAssumption
<1>3. Typed(l) /\ read \subseteq Response /\ Domains
  BY DEF TypeInv, TypeOK, Typed, LoadInv
<1>4. /\ source'[l] = s /\ options'[l] = o
      /\ phase'[l] \in {"compiled", "compiling", "streaming", "fallback"}
      /\ phase'[l] = "compiled" => s.kind = "module" /\ module'[l] = s.content
  BY <1>1, <1>2, <1>3 DEF Domains
<1>5. s.kind = "module" => s.content \notin {None, Garbage}
  BY SourcesAssumption, NoneAssumption DEF Contents
<1>6. instance'[l] = None
  BY <1>1, <1>3 DEF Typed, Settled
<1>7. Typed(l)' /\ SpeaksOfItsCargo(l)'
  BY <1>2, <1>4, <1>5, <1>6 DEF Typed, SpeaksOfItsCargo, Settled
<1> QED
  BY <1>1, <1>3, <1>7, OneLoad DEF Domains

LEMMA TypedCreateSync ==
    ASSUME TypeInv, LoadInv', NEW l \in Load, NEW s \in Sources[l], NEW o \in Versions[l],
           createRevmSync(l, s, o)
    PROVE  TypeInv'
<1> DEFINE made == instantiated(l, s.content, o)
           result == IF s.content = Garbage THEN [error |-> "compile"] ELSE made
<1>1. /\ phase[l] = "idle" /\ s.kind \in {"module", "bytes"} /\ Settle(l, result)
      /\ source' = [source EXCEPT ![l] = s]
      /\ options' = [options EXCEPT ![l] = o]
      /\ UNCHANGED <<network, served, read, module>>
  BY DEF createRevmSync, Called
<1>2. /\ "error" \in DOMAIN made => made \in [error : Reasons]
      /\ "error" \notin DOMAIN made =>
            /\ DOMAIN made = {"store", "defaults", "abi", "info"}
            /\ made.abi = s.content.abi
            /\ made.info = INFO(s.content.lock, s.content.features)
            /\ s.content.abi = SUPPORTED_ABI_VERSION
  BY MadeTyped
<1> HIDE DEF made
<1>3. /\ "error" \in DOMAIN result => result \in [error : Reasons]
      /\ "error" \notin DOMAIN result =>
            /\ s.content # Garbage
            /\ DOMAIN result = {"store", "defaults", "abi", "info"}
            /\ result.abi = s.content.abi
            /\ result.info = INFO(s.content.lock, s.content.features)
            /\ s.content.abi = SUPPORTED_ABI_VERSION
  BY <1>2 DEF Reasons
<1> HIDE DEF result
<1>4. s # None /\ s.content \in Contents
  BY <1>1, SourcesAssumption DEF Contents
<1>5. Domains /\ read \subseteq Response
  BY DEF TypeInv, TypeOK, LoadInv
<1>6. /\ source'[l] = s /\ options'[l] = o
      /\ phase'[l] = IF "error" \in DOMAIN result THEN "failed" ELSE "ready"
      /\ instance'[l] = result
      /\ \A m \in Load \ {l} : phase'[m] = phase[m] /\ instance'[m] = instance[m]
  BY <1>1, <1>5 DEF Settle, Domains
<1>7. Typed(l)'
  BY <1>3, <1>4, <1>6 DEF Typed, Settled
<1>8. SpeaksOfItsCargo(l)'
  BY <1>1, <1>3, <1>4, <1>6 DEF SpeaksOfItsCargo, Cargo
<1> QED
  BY <1>1, <1>5, <1>6, <1>7, <1>8, OneLoad DEF Domains

LEMMA TypedChange ==
    ASSUME TypeInv, LoadInv', NEW l \in Load, ChangeOptions(l)
    PROVE  TypeInv'
<1>1. /\ phase[l] \notin {"idle"} \cup Settled
      /\ UNCHANGED <<network, served, read, phase, source, module, instance>>
  BY DEF ChangeOptions
<1>2. PICK o \in Versions[l] : options' = [options EXCEPT ![l] = o]
  BY DEF ChangeOptions
<1>3. Typed(l) /\ read \subseteq Response /\ DOMAIN options = Load
  BY DEF TypeInv, TypeOK, Typed, LoadInv, Domains
<1>4. Typed(l)' /\ SpeaksOfItsCargo(l)'
  BY <1>1, <1>2, <1>3 DEF Typed, SpeaksOfItsCargo, Settled
<1> QED
  BY <1>1, <1>2, <1>3, <1>4, OneLoad

LEMMA TypeInvNext == TypeInv /\ [Next]_vars => TypeInv'
<1> SUFFICES ASSUME TypeInv, [Next]_vars PROVE TypeInv'
  OBVIOUS
<1>1. LoadInv'
  BY LoadInvNext DEF TypeInv
<1>2. ASSUME NEW l \in Load, NEW s \in Sources[l], NEW o \in Versions[l],
             createRevm(l, s, o) \/ createRevmSync(l, s, o)
      PROVE  TypeInv'
  BY <1>1, <1>2, TypedCreate, TypedCreateSync
<1>3. ASSUME NEW l \in Load, ChangeOptions(l) PROVE TypeInv'
  BY <1>1, <1>3, TypedChange
<1>4. ASSUME NEW l \in Load, Step(l) PROVE TypeInv'
  BY <1>1, <1>4, TypedGoingOn, TypedFailing, TypedInstantiate DEF Step
<1>5. ASSUME NEW r \in Response, Arrive(r) \/ Transfer(r) PROVE TypeInv'
  BY <1>1, <1>5, TypedNetwork
<1>6. CASE UNCHANGED vars
  BY <1>1, <1>6 DEF vars, TypeInv, TypeOK, SpeaksOfItsCargo, Cargo, Headers
<1> QED
  BY <1>2, <1>3, <1>4, <1>5, <1>6 DEF Next

\* A load has its source and options from its caller for as long as it goes on, no
\* end before it ends, one that says which it is when it has, and never a module of
\* bytes that did not compile; a response is known as soon as its headers are there.
THEOREM LoaderTypes == Spec => []TypeOK
<1>1. TypeInv => TypeOK
  BY DEF TypeInv
<1> QED
  BY <1>1, TypeInvInit, TypeInvNext, PTL DEF Spec

\* The build script finds the package called revm, not one whose name has it as a
\* part, and none where there is none.
LEMMA FoundIsLinked ==
    ASSUME NEW artifact \in Contents \ {Garbage}
    PROVE  /\ revm_package(artifact.lock).version = artifact.linked.version
           /\ revm_package(artifact.lock).rev = artifact.linked.rev
<1> DEFINE lock == artifact.lock
           entries == {i \in DOMAIN lock : lock[i].name = "revm"}
<1>0. DOMAIN lock = 1 .. Len(lock) /\ Len(lock) \in Nat
  BY CargoAssumption
<1>1. \/ entries = {} /\ artifact.linked = [version |-> Unknown, rev |-> Unknown]
      \/ \E i \in entries :
            /\ entries = {i}
            /\ artifact.linked.version = lock[i].version
            /\ artifact.linked.rev = lock[i].rev
  BY <1>0, CargoAssumption
<1>2. {i \in DOMAIN lock : is_revm(lock[i])} = entries
  BY DEF is_revm
<1>3. CASE entries = {}
  <2>1. revm_package(lock) = [version |-> Unknown, rev |-> Unknown]
    BY <1>2, <1>3 DEF revm_package
  <2> QED
    BY <1>1, <1>3, <2>1
<1>4. CASE entries # {}
  <2>1. PICK i \in entries :
           /\ entries = {i}
           /\ artifact.linked.version = lock[i].version
           /\ artifact.linked.rev = lock[i].rev
    BY <1>1, <1>4
  <2>2. revm_package(lock) = lock[CHOOSE k \in entries : \A j \in entries : k <= j]
    BY <1>2, <1>4 DEF revm_package
  <2>3. i \in Nat
    BY <1>0
  <2>4. (CHOOSE k \in entries : \A j \in entries : k <= j) = i
    BY <2>1, <2>3
  <2> QED
    BY <2>1, <2>2, <2>4
<1> QED
  BY <1>3, <1>4

\* However it was loaded and whatever else its lock holds: what an instance reports
\* of the revm in it and of its switches is so of the bytes that it runs.
THEOREM ReportsItsArtifact == Spec => []LoadedIsWhatItSays
<1>1. TypeInv => LoadedIsWhatItSays
  <2> SUFFICES ASSUME TypeInv, NEW l \in Load, phase[l] = "ready"
               PROVE  /\ instance[l].info.revm = Cargo(l).linked.version
                      /\ instance[l].info.revmRev = Cargo(l).linked.rev
                      /\ "relaxed-validation" \in instance[l].info.build
                           <=> "relaxed-validation" \in Cargo(l).features
                      /\ Cargo(l).abi = SUPPORTED_ABI_VERSION
    BY DEF LoadedIsWhatItSays, Cargo
  <2>1. SpeaksOfItsCargo(l)
    BY DEF TypeInv
  <2>2. /\ Cargo(l) \in Contents \ {Garbage}
        /\ instance[l].info = INFO(Cargo(l).lock, Cargo(l).features)
        /\ Cargo(l).abi = SUPPORTED_ABI_VERSION
    BY <2>1 DEF SpeaksOfItsCargo
  <2>3. \A features : "relaxed-validation" \in build_config(features)
                        <=> "relaxed-validation" \in features
    BY DEF build_config
  <2> QED
    BY <2>2, <2>3, FoundIsLinked DEF INFO
<1> QED
  BY <1>1, TypeInvInit, TypeInvNext, PTL DEF Spec
=============================================================================
