------------------------------ MODULE Instance ------------------------------
(***************************************************************************)
(* The boundary between JavaScript and the wasm instances of one page.     *)
(*                                                                         *)
(* There is one thread.  A call into an instance is a frame on its stack:  *)
(* it reserves the request buffer, writes the request, runs, and collects  *)
(* the outcome.  While it runs, the instance calls host functions, and the *)
(* embedder's code in them can do what it likes: throw, or call any        *)
(* instance, the running one included.                                     *)
(*                                                                         *)
(* A call is a number, and its request and its outcome are told by it.     *)
(* Linear memory has a generation, which growing it advances; a view is    *)
(* the generation it was made of, and is detached when that has passed.    *)
(***************************************************************************)
EXTENDS Naturals, Sequences

CONSTANTS Inst,         \* instances, in order of creation
          Addr,         \* addresses the host is asked about
          MaxCalls,     \* calls made in all
          MaxDepth,     \* calls under way at a time
          MaxGrowth     \* times a memory grows

ASSUME InstanceAssumption ==
    /\ Inst \subseteq Nat
    /\ MaxCalls \in Nat
    /\ MaxDepth \in Nat
    /\ MaxGrowth \in Nat

VARIABLES
    stack,      \* the calls under way, the innermost last
    thrown,     \* an exception is on its way out
    inst,       \* the instances
    calls,      \* calls made so far
    returned,   \* the last call that returned an outcome, and whose it was
    lost        \* ghost: the instances whose execution was abandoned half way

vars == <<stack, thrown, inst, calls, returned, lost>>

NoCall == 0
Calls == 0..MaxCalls
NoAddr == "none"

\* borrowed: the RefCell around the module state; request, outcome: what its
\* buffers hold; gen: the generation of its memory; view: the one Revm holds;
\* scratch: the address buffer of the store adapter.
Instances == [borrowed : BOOLEAN, request : Calls, outcome : Calls,
              gen : 0..MaxGrowth, view : 0..MaxGrowth, scratch : Addr \cup {NoAddr}]

\* addr and held are what the adapter was asked and the view it answers into.
Frames == [inst : Inst, call : Calls, recover : BOOLEAN, decoded : Calls,
           pc : {"reserve", "write", "enter", "inside", "callback", "collect"},
           addr : Addr \cup {NoAddr},
           held : [memory : Inst, gen : 0..MaxGrowth]]

Running(frame) == frame.pc \in {"inside", "callback"}

\* Only the innermost call may be out of a host function, and a call that is
\* executing has the state of its instance borrowed.
TypeOK ==
    /\ stack \in Seq(Frames)
    /\ Len(stack) <= MaxDepth
    /\ thrown \in BOOLEAN
    /\ inst \in [Inst -> Instances]
    /\ calls \in Calls
    /\ returned \in [inst : Inst, call : Calls, outcome : Calls]
    /\ lost \subseteq Inst
    /\ \A n \in 1..Len(stack) - 1 : stack[n].pc = "callback"
    /\ \A n \in 1..Len(stack) : Running(stack[n]) => inst[stack[n].inst].borrowed

Init ==
    /\ stack = <<>>
    /\ thrown = FALSE
    /\ inst = [i \in Inst |-> [borrowed |-> FALSE, request |-> NoCall, outcome |-> NoCall,
                               gen |-> 0, view |-> 0, scratch |-> NoAddr]]
    /\ calls = 0
    /\ returned \in [inst : Inst, call : {NoCall}, outcome : {NoCall}]
    /\ lost = {}

-----------------------------------------------------------------------------
Top == stack[Len(stack)]
Pop == SubSeq(stack, 1, Len(stack) - 1)
Become(frame) == [stack EXCEPT ![Len(stack)] = frame]

At(pc) == ~ thrown /\ stack # <<>> /\ Top.pc = pc

\* The embedder's code is running: between calls, or inside a host function.
Embedder == ~ thrown /\ (stack # <<>> => Top.pc = "callback")

\* Whatever allocates inside the module may grow its memory.
Grown(i) == {inst[i].gen} \cup ({inst[i].gen + 1} \cap 0..MaxGrowth)

\* A cached view is replaced when it turns out to be detached.
refreshed_Kept(view, gen) == view
refreshed(view, gen) == gen
mem(i) == refreshed(inst[i].view, inst[i].gen)

\* An array that is detached throws when it is written to or copied from.
Detached(i) == mem(i) # inst[i].gen

-----------------------------------------------------------------------------
\* The embedder calls executeRaw or recoverSigner.
Call(i, recover) ==
    /\ Embedder
    /\ calls < MaxCalls
    /\ Len(stack) < MaxDepth
    /\ calls' = calls + 1
    /\ stack' = Append(stack, [inst |-> i, call |-> calls', recover |-> recover,
                               decoded |-> NoCall, pc |-> "reserve", addr |-> NoAddr,
                               held |-> [memory |-> i, gen |-> 0]])
    /\ UNCHANGED <<thrown, inst, returned, lost>>

\* borrow_mut of a borrowed cell panics, and the panic is an exception.
Panic ==
    /\ \E pc \in {"reserve", "enter", "collect"} : At(pc)
    /\ inst[Top.inst].borrowed
    /\ stack' = Pop
    /\ thrown' = TRUE
    /\ UNCHANGED <<inst, calls, returned, lost>>

\* revm_wasm_request_buffer
Reserve ==
    /\ At("reserve")
    /\ ~ inst[Top.inst].borrowed
    /\ \E g \in Grown(Top.inst) : inst' = [inst EXCEPT ![Top.inst].gen = g]
    /\ stack' = Become([Top EXCEPT !.pc = "write"])
    /\ UNCHANGED <<thrown, calls, returned, lost>>

\* The request is written through the view.
WriteRequest ==
    /\ At("write")
    /\ LET i == Top.inst
       IN IF Detached(i)
          THEN stack' = Pop /\ thrown' = TRUE /\ UNCHANGED inst
          ELSE /\ inst' = [inst EXCEPT ![i].view = mem(i), ![i].request = Top.call]
               /\ stack' = Become([Top EXCEPT !.pc = "enter"])
               /\ UNCHANGED thrown
    /\ UNCHANGED <<calls, returned, lost>>

\* run: the state is borrowed until the execution is over.
Enter_Unborrowed ==
    /\ At("enter")
    /\ ~ Top.recover
    /\ stack' = Become([Top EXCEPT !.pc = "inside", !.decoded = inst[Top.inst].request])
    /\ UNCHANGED <<thrown, inst, calls, returned, lost>>
Enter ==
    /\ At("enter")
    /\ ~ Top.recover
    /\ ~ inst[Top.inst].borrowed
    /\ inst' = [inst EXCEPT ![Top.inst].borrowed = TRUE]
    /\ stack' = Become([Top EXCEPT !.pc = "inside", !.decoded = inst[Top.inst].request])
    /\ UNCHANGED <<thrown, calls, returned, lost>>

\* revm_wasm_ecrecover calls no host function.  It has an answer or it has not,
\* in which case the outcome buffer is left as it was, and not looked at.
Recover ==
    /\ At("enter")
    /\ Top.recover
    /\ ~ inst[Top.inst].borrowed
    /\ \E g \in Grown(Top.inst) :
          inst' = [inst EXCEPT ![Top.inst].gen = g,
                               ![Top.inst].outcome = inst[Top.inst].request]
    /\ stack' = Become([Top EXCEPT !.pc = "collect"])
    /\ UNCHANGED <<thrown, calls, returned, lost>>

RecoverNone_Unchecked ==
    /\ At("enter")
    /\ Top.recover
    /\ ~ inst[Top.inst].borrowed
    /\ stack' = Become([Top EXCEPT !.pc = "collect"])
    /\ UNCHANGED <<thrown, inst, calls, returned, lost>>
RecoverNone ==
    /\ At("enter")
    /\ Top.recover
    /\ ~ inst[Top.inst].borrowed
    /\ stack' = Pop
    /\ UNCHANGED <<thrown, inst, calls, returned, lost>>

-----------------------------------------------------------------------------
\* The memory an instance's host functions reach, and the scratch they use.
memory_LastCreated(i) == CHOOSE m \in Inst : \A j \in Inst : j <= m
memory(i) == i
adapter_Shared(i) == CHOOSE m \in Inst : \A j \in Inst : j <= m
adapter(i) == i

\* A host function takes its view, copies the address it is asked about into
\* its scratch buffer, and hands that to the store.
HostCall(a) ==
    /\ At("inside")
    /\ LET m == memory(Top.inst)
       IN stack' = Become([Top EXCEPT !.pc = "callback", !.addr = a,
                                      !.held = [memory |-> m, gen |-> inst[m].gen]])
    /\ inst' = [inst EXCEPT ![adapter(Top.inst)].scratch = a]
    /\ UNCHANGED <<thrown, calls, returned, lost>>

\* The store answers, and the answer is written through the view taken before.
Answer ==
    /\ At("callback")
    /\ \E g \in Grown(Top.inst) : inst' = [inst EXCEPT ![Top.inst].gen = g]
    /\ stack' = Become([Top EXCEPT !.pc = "inside"])
    /\ UNCHANGED <<thrown, calls, returned, lost>>

\* The store throws, or does not catch what a call it made has thrown.  The wasm
\* frames are unwound without running anything: the borrow is never given back.
Unwind_Released ==
    /\ stack # <<>>
    /\ Top.pc = "callback"
    /\ inst' = [inst EXCEPT ![Top.inst].borrowed = FALSE]
    /\ stack' = Pop
    /\ thrown' = TRUE
    /\ lost' = lost \cup {Top.inst}
    /\ UNCHANGED <<calls, returned>>
Unwind ==
    /\ stack # <<>>
    /\ Top.pc = "callback"
    /\ stack' = Pop
    /\ thrown' = TRUE
    /\ lost' = lost \cup {Top.inst}
    /\ UNCHANGED <<inst, calls, returned>>

\* The embedder catches it, in the host function it is in or at top level.
Catch ==
    /\ thrown
    /\ thrown' = FALSE
    /\ UNCHANGED <<stack, inst, calls, returned, lost>>

\* run returns.
Leave ==
    /\ At("inside")
    /\ \E g \in Grown(Top.inst) :
          inst' = [inst EXCEPT ![Top.inst].gen = g, ![Top.inst].borrowed = FALSE,
                               ![Top.inst].outcome = Top.decoded]
    /\ stack' = Become([Top EXCEPT !.pc = "collect"])
    /\ UNCHANGED <<thrown, calls, returned, lost>>

\* revm_wasm_outcome_ptr, and a copy of what is there.
Collect ==
    /\ At("collect")
    /\ ~ inst[Top.inst].borrowed
    /\ LET i == Top.inst
       IN IF Detached(i)
          THEN thrown' = TRUE /\ UNCHANGED <<inst, returned>>
          ELSE /\ inst' = [inst EXCEPT ![i].view = mem(i)]
               /\ returned' = [inst |-> i, call |-> Top.call, outcome |-> inst[i].outcome]
               /\ UNCHANGED thrown
    /\ stack' = Pop
    /\ UNCHANGED <<calls, lost>>

-----------------------------------------------------------------------------
Next == \/ \E i \in Inst, recover \in BOOLEAN : Call(i, recover)
        \/ Panic \/ Reserve \/ WriteRequest \/ Enter \/ Recover \/ RecoverNone
        \/ \E a \in Addr : HostCall(a)
        \/ Answer \/ Unwind \/ Catch \/ Leave \/ Collect

Spec == Init /\ [][Next]_vars

-----------------------------------------------------------------------------
\* An instance executes one request at a time: a host function that calls back
\* into it gets an exception.
OneAtATime ==
    \A m, n \in 1..Len(stack) :
        Running(stack[m]) /\ Running(stack[n]) /\ stack[m].inst = stack[n].inst => m = n

\* What a call returns was computed from its own request.
OwnOutcome == returned.outcome = returned.call

\* A call fails because a store threw, or because it was made into an instance
\* that is executing or was abandoned; never because memory grew under it.
ThrowsForCause ==
    [][~ thrown /\ thrown' => Top.pc = "callback" \/ inst[Top.inst].borrowed]_vars

\* The view a host function took before it called the store is still attached,
\* to the memory of the instance that asked, when it writes the answer.
AnswersLand ==
    \A n \in 1..Len(stack) :
        LET f == stack[n]
        IN f.pc = "callback" => f.held = [memory |-> f.inst, gen |-> inst[f.inst].gen]

\* The address a store was handed in a reused buffer stays what it was for as
\* long as the store works on it.
AddressHeld ==
    \A n \in 1..Len(stack) :
        LET f == stack[n]
        IN f.pc = "callback" => inst[f.inst].scratch = f.addr

\* An instance whose execution was abandoned half way, its journal half full,
\* never executes or answers anything again.
AbandonedStaysSilent ==
    [][\A i \in lost :
            /\ \A n \in 1..Len(stack') : Running(stack'[n]) => stack'[n].inst # i
            /\ inst'[i].outcome = inst[i].outcome
            /\ returned'.inst = i => returned' = returned]_vars
=============================================================================
