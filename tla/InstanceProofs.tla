--------------------------- MODULE InstanceProofs ---------------------------
(***************************************************************************)
(* What holds at the boundary for any number of instances and calls, any   *)
(* depth of nesting and any growth of the memories.                        *)
(***************************************************************************)
EXTENDS Instance, SequenceTheorems, TLAPS

-----------------------------------------------------------------------------
(* The stack.                                                              *)

LEMMA PopFacts ==
    ASSUME NEW S, NEW s \in Seq(S), s # <<>>
    PROVE  LET t == SubSeq(s, 1, Len(s) - 1)
           IN /\ t \in Seq(S)
              /\ Len(s) \in Nat \ {0}
              /\ Len(t) = Len(s) - 1
              /\ \A n \in 1..Len(s) - 1 : t[n] = s[n]
<1>1. Len(s) \in Nat \ {0} /\ \A n \in 1..Len(s) - 1 : s[n] \in S
  OBVIOUS
<1> DEFINE m == Len(s) - 1
<1>2. m \in Int /\ m = Len(s) - 1
  BY <1>1
<1> HIDE DEF m
<1>3. /\ SubSeq(s, 1, m) \in Seq(S)
      /\ Len(SubSeq(s, 1, m)) = IF 1 <= m THEN m - 1 + 1 ELSE 0
      /\ \A n \in 1..m - 1 + 1 : SubSeq(s, 1, m)[n] = s[1 + n - 1]
  BY <1>1, <1>2, SubSeqProperties
<1>4. \A n \in 1..m : n \in 1..m - 1 + 1 /\ 1 + n - 1 = n
  BY <1>2
<1>5. Len(SubSeq(s, 1, m)) = m
  BY <1>1, <1>2, <1>3
<1>6. \A n \in 1..m : SubSeq(s, 1, m)[n] = s[n]
  BY <1>3, <1>4
<1> QED
  BY <1>1, <1>2, <1>3, <1>5, <1>6

LEMMA BecomeFacts ==
    ASSUME NEW S, NEW s \in Seq(S), s # <<>>, NEW f \in S
    PROVE  LET t == [s EXCEPT ![Len(s)] = f]
           IN /\ t \in Seq(S)
              /\ Len(s) \in Nat \ {0}
              /\ Len(t) = Len(s)
              /\ t[Len(s)] = f
              /\ \A n \in 1..Len(s) - 1 : t[n] = s[n]
  OBVIOUS

LEMMA AppendFacts ==
    ASSUME NEW S, NEW s \in Seq(S), NEW f \in S
    PROVE  LET t == Append(s, f)
           IN /\ t \in Seq(S)
              /\ Len(s) \in Nat
              /\ Len(t) = Len(s) + 1
              /\ t[Len(s) + 1] = f
              /\ \A n \in 1..Len(s) : t[n] = s[n]
  OBVIOUS

-----------------------------------------------------------------------------
(* The inductive invariant.                                                *)

\* A frame that is executing has its instance to itself, and knows its own
\* request; the buffers of an instance hold what the frame between writing its
\* request and collecting its outcome believes they hold.
Good(f, i) ==
    /\ Running(f) => i.borrowed /\ f.decoded = f.call
    /\ f.pc \in {"write", "enter", "collect"} => ~ i.borrowed
    /\ f.pc = "enter" => i.request = f.call
    /\ f.pc = "collect" => i.outcome = f.call
    /\ f.pc = "callback" => /\ f.held = [memory |-> f.inst, gen |-> i.gen]
                            /\ i.scratch = f.addr

AllGood == \A n \in 1..Len(stack) : Good(stack[n], inst[stack[n].inst])

\* The borrow that was never given back.
Stuck ==
    \A i \in lost :
        /\ inst[i].borrowed
        /\ \A n \in 1..Len(stack) : Running(stack[n]) => stack[n].inst # i

BoundaryInv ==
    /\ TypeOK
    /\ OneAtATime
    /\ AllGood
    /\ OwnOutcome
    /\ Stuck

\* What TypeOK says of the frame on top.
LEMMA TopFacts ==
    ASSUME TypeOK, stack # <<>>
    PROVE  /\ stack \in Seq(Frames) /\ Len(stack) \in Nat \ {0}
           /\ Top \in Frames /\ Top.inst \in Inst
           /\ inst[Top.inst] \in Instances
           /\ Top = stack[Len(stack)]
<1>1. stack \in Seq(Frames) /\ Len(stack) \in Nat \ {0}
  BY DEF TypeOK
<1>2. Top \in Frames
  BY <1>1 DEF Top
<1> QED
  BY <1>1, <1>2 DEF Top, Frames, TypeOK

\* A frame that executes, or whose instance is free, is the only one of its
\* instance: those below it are all in a host function.
LEMMA Apart ==
    ASSUME BoundaryInv, stack # <<>>, Running(Top) \/ ~ inst[Top.inst].borrowed
    PROVE  /\ Top.inst \notin lost
           /\ \A n \in 1..Len(stack) - 1 : stack[n].inst # Top.inst
<1>1. Len(stack) \in Nat \ {0} /\ Top = stack[Len(stack)] /\ Len(stack) \in 1..Len(stack)
  BY TopFacts DEF BoundaryInv
<1>2. Top.inst \notin lost
  BY <1>1 DEF BoundaryInv, Stuck
<1>3. \A n \in 1..Len(stack) - 1 : Running(stack[n]) /\ inst[stack[n].inst].borrowed
                                   /\ n \in 1..Len(stack) /\ n # Len(stack)
  BY <1>1 DEF BoundaryInv, TypeOK, Running
<1>4. \A n \in 1..Len(stack) - 1 : stack[n].inst # Top.inst
  BY <1>1, <1>3 DEF BoundaryInv, OneAtATime
<1> QED
  BY <1>2, <1>4

\* The frame on top moves on, and changes only the instance it runs in.
LEMMA Moves ==
    ASSUME BoundaryInv, stack # <<>>, Running(Top) \/ ~ inst[Top.inst].borrowed,
           NEW f \in Frames, f.inst = Top.inst, stack' = Become(f),
           inst' \in [Inst -> Instances],
           \A i \in Inst \ {Top.inst} : inst'[i] = inst[i],
           Good(f, inst'[f.inst]), UNCHANGED <<thrown, calls, returned, lost>>
    PROVE  BoundaryInv'
<1>1. /\ Len(stack) \in Nat \ {0} /\ stack \in Seq(Frames)
      /\ Top = stack[Len(stack)]
  BY TopFacts DEF BoundaryInv
<1>2. /\ stack' \in Seq(Frames) /\ Len(stack') = Len(stack)
      /\ stack'[Len(stack)] = f
      /\ \A n \in 1..Len(stack) - 1 : stack'[n] = stack[n]
  BY <1>1, BecomeFacts DEF Become
<1>3. /\ Top.inst \notin lost
      /\ \A n \in 1..Len(stack) - 1 : stack[n].inst # Top.inst
  BY Apart
<1>4. ASSUME NEW n \in 1..Len(stack) - 1
      PROVE  /\ n \in 1..Len(stack)
             /\ inst'[stack[n].inst] = inst[stack[n].inst]
             /\ stack[n].pc = "callback"
  <2>1. n \in 1..Len(stack) /\ stack[n] \in Frames
    BY <1>1
  <2>2. stack[n].inst \in Inst \ {Top.inst}
    BY <1>3, <2>1 DEF Frames
  <2> QED
    BY <2>1, <2>2 DEF BoundaryInv, TypeOK
<1>5. AllGood'
  <2>1. ASSUME NEW n \in 1..Len(stack) - 1 PROVE Good(stack'[n], inst'[stack'[n].inst])
    BY <1>2, <1>4 DEF BoundaryInv, AllGood
  <2> QED
    BY <1>1, <1>2, <2>1 DEF AllGood
<1>6. TypeOK'
  <2>1. \A n \in 1..Len(stack') : Running(stack'[n]) => inst'[stack'[n].inst].borrowed
    BY <1>5 DEF AllGood, Good
  <2>2. \A n \in 1..Len(stack') - 1 : stack'[n].pc = "callback"
    BY <1>2, <1>4
  <2> QED
    BY <1>2, <2>1, <2>2 DEF BoundaryInv, TypeOK
<1>7. OneAtATime'
  <2> SUFFICES ASSUME NEW m \in 1..Len(stack), NEW n \in 1..Len(stack),
                      Running(stack'[m]), Running(stack'[n]),
                      stack'[m].inst = stack'[n].inst
               PROVE  m = n
    BY <1>2 DEF OneAtATime
  <2>1. CASE m = Len(stack) \/ n = Len(stack)
    BY <1>1, <1>2, <1>3, <2>1
  <2>2. CASE m # Len(stack) /\ n # Len(stack)
    <3>1. m \in 1..Len(stack) - 1 /\ n \in 1..Len(stack) - 1
      BY <1>1, <2>2
    <3> QED
      BY <1>2, <3>1 DEF BoundaryInv, OneAtATime
  <2> QED
    BY <2>1, <2>2
<1>8. Stuck'
  <2> SUFFICES ASSUME NEW i \in lost
               PROVE  /\ inst'[i].borrowed
                      /\ \A n \in 1..Len(stack) : Running(stack'[n]) => stack'[n].inst # i
    BY <1>2 DEF Stuck
  <2>1. i \in Inst \ {Top.inst} /\ inst[i].borrowed
    BY <1>3 DEF BoundaryInv, TypeOK, Stuck
  <2>2. \A n \in 1..Len(stack) - 1 : Running(stack'[n]) => stack'[n].inst # i
    BY <1>1, <1>2 DEF BoundaryInv, Stuck
  <2> QED
    BY <1>1, <1>2, <2>1, <2>2
<1> QED
  BY <1>5, <1>6, <1>7, <1>8 DEF BoundaryInv, OwnOutcome

\* The frame on top goes away, and leaves the instances of those below alone.
LEMMA Goes ==
    ASSUME BoundaryInv, stack # <<>>, stack' = Pop,
           inst' \in [Inst -> Instances],
           \A i \in Inst : inst'[i].borrowed = inst[i].borrowed,
           \A n \in 1..Len(stack) - 1 : inst'[stack[n].inst] = inst[stack[n].inst],
           thrown' \in BOOLEAN, calls' \in Calls,
           returned' \in [inst : Inst, call : Calls, outcome : Calls],
           OwnOutcome',
           lost' = lost \/ (lost' = lost \cup {Top.inst} /\ Running(Top))
    PROVE  BoundaryInv'
<1>1. /\ Len(stack) \in Nat \ {0} /\ stack \in Seq(Frames)
      /\ Top = stack[Len(stack)] /\ Top.inst \in Inst
      /\ Len(stack) \in 1..Len(stack)
  BY TopFacts DEF BoundaryInv
<1>2. /\ stack' \in Seq(Frames) /\ Len(stack') = Len(stack) - 1
      /\ \A n \in 1..Len(stack) - 1 : stack'[n] = stack[n] /\ n \in 1..Len(stack)
  BY <1>1, PopFacts DEF Pop
<1>3. AllGood'
  BY <1>2 DEF BoundaryInv, AllGood
<1>4. lost' \subseteq Inst
  BY <1>1 DEF BoundaryInv, TypeOK
<1>5. TypeOK'
  <2>1. \A n \in 1..Len(stack') : Running(stack'[n]) => inst'[stack'[n].inst].borrowed
    BY <1>3 DEF AllGood, Good
  <2>2. \A n \in 1..Len(stack') - 1 : stack'[n].pc = "callback"
    BY <1>1, <1>2 DEF BoundaryInv, TypeOK
  <2>3. Len(stack') <= MaxDepth
    BY <1>1, <1>2, InstanceAssumption DEF BoundaryInv, TypeOK
  <2> QED
    BY <1>2, <1>4, <2>1, <2>2, <2>3 DEF BoundaryInv, TypeOK
<1>6. OneAtATime'
  BY <1>1, <1>2 DEF BoundaryInv, OneAtATime
<1>7. Stuck'
  <2>1. ASSUME NEW i \in lost
        PROVE  /\ inst'[i].borrowed
               /\ \A n \in 1..Len(stack') : Running(stack'[n]) => stack'[n].inst # i
    BY <1>1, <1>2 DEF BoundaryInv, Stuck, TypeOK
  <2>2. ASSUME Running(Top)
        PROVE  /\ inst'[Top.inst].borrowed
               /\ \A n \in 1..Len(stack') : Running(stack'[n]) => stack'[n].inst # Top.inst
    <3>1. inst[Top.inst].borrowed
      BY <1>1, <2>2 DEF BoundaryInv, TypeOK
    <3> QED
      BY <1>1, <1>2, <2>2, <3>1, Apart
  <2> QED
    BY <2>1, <2>2 DEF Stuck
<1> QED
  BY <1>3, <1>5, <1>6, <1>7 DEF BoundaryInv

\* A call the embedder makes starts on top of the host function it is made from.
LEMMA CallBoundary ==
    ASSUME BoundaryInv, NEW i \in Inst, NEW recover \in BOOLEAN, Call(i, recover)
    PROVE  BoundaryInv'
<1>1. PICK f : f = [inst |-> i, call |-> calls + 1, recover |-> recover, decoded |-> NoCall,
                    pc |-> "reserve", addr |-> NoAddr, held |-> [memory |-> i, gen |-> 0]]
  OBVIOUS
<1>2. /\ stack' = Append(stack, f) /\ calls' = calls + 1
      /\ calls < MaxCalls /\ Len(stack) < MaxDepth
      /\ UNCHANGED <<thrown, inst, returned, lost>>
      /\ stack # <<>> => Top.pc = "callback"
  BY <1>1 DEF Call, Embedder
<1>3. calls' \in Calls /\ NoCall \in Calls /\ 0 \in 0..MaxGrowth
  BY <1>2, InstanceAssumption DEF BoundaryInv, TypeOK, Calls, NoCall
<1>4. f \in Frames /\ ~ Running(f) /\ f.pc = "reserve"
  BY <1>1, <1>2, <1>3 DEF Frames, Running
<1>5. /\ stack' \in Seq(Frames) /\ Len(stack) \in Nat /\ Len(stack') = Len(stack) + 1
      /\ stack'[Len(stack) + 1] = f
      /\ \A n \in 1..Len(stack) : stack'[n] = stack[n]
  BY <1>2, <1>4, AppendFacts DEF BoundaryInv, TypeOK
<1>6. \A n \in 1..Len(stack) : stack[n].pc = "callback"
  <2>1. \A n \in 1..Len(stack) - 1 : stack[n].pc = "callback"
    BY DEF BoundaryInv, TypeOK
  <2> QED
    BY <1>2, <1>5, <2>1 DEF Top
<1>7. AllGood'
  <2>1. Good(f, inst[f.inst])
    BY <1>4 DEF Good
  <2> QED
    BY <1>2, <1>5, <2>1 DEF BoundaryInv, AllGood
<1>8. TypeOK'
  <2>1. \A n \in 1..Len(stack') : Running(stack'[n]) => inst'[stack'[n].inst].borrowed
    BY <1>7 DEF AllGood, Good
  <2>2. \A n \in 1..Len(stack') - 1 : stack'[n].pc = "callback"
    BY <1>5, <1>6
  <2>3. Len(stack') <= MaxDepth
    BY <1>2, <1>5, InstanceAssumption
  <2> QED
    BY <1>2, <1>3, <1>5, <2>1, <2>2, <2>3 DEF BoundaryInv, TypeOK
<1>9. OneAtATime' /\ Stuck'
  BY <1>2, <1>4, <1>5 DEF BoundaryInv, OneAtATime, Stuck
<1> QED
  BY <1>2, <1>7, <1>8, <1>9 DEF BoundaryInv, OwnOutcome

LEMMA GrownType ==
    ASSUME TypeOK, NEW i \in Inst, NEW g \in Grown(i)
    PROVE  g \in 0..MaxGrowth
  BY DEF TypeOK, Instances, Grown

\* What is common to the steps of the frame on top, which move it to pc.
LEMMA TopAt ==
    ASSUME BoundaryInv, NEW pc, At(pc)
    PROVE  /\ stack # <<>> /\ Top.pc = pc /\ Top \in Frames /\ Top.inst \in Inst
           /\ inst \in [Inst -> Instances] /\ inst[Top.inst] \in Instances
           /\ Good(Top, inst[Top.inst])
  BY TopFacts DEF At, BoundaryInv, TypeOK, AllGood

LEMMA ReserveBoundary == ASSUME BoundaryInv, Reserve PROVE BoundaryInv'
<1>1. PICK f : f = [Top EXCEPT !.pc = "write"]
  OBVIOUS
<1>2. PICK g \in Grown(Top.inst) : inst' = [inst EXCEPT ![Top.inst].gen = g]
  BY DEF Reserve
<1>3. /\ stack # <<>> /\ Top \in Frames /\ Top.inst \in Inst /\ Top.pc = "reserve"
      /\ inst \in [Inst -> Instances] /\ ~ inst[Top.inst].borrowed
      /\ stack' = Become(f) /\ UNCHANGED <<thrown, calls, returned, lost>>
  BY <1>1, TopAt DEF Reserve
<1>4. g \in 0..MaxGrowth
  BY <1>2, <1>3, GrownType DEF BoundaryInv
<1>5. /\ f \in Frames /\ f.inst = Top.inst /\ f.pc = "write"
  BY <1>1, <1>3 DEF Frames
<1>6. /\ inst' \in [Inst -> Instances]
      /\ \A i \in Inst \ {Top.inst} : inst'[i] = inst[i]
      /\ ~ inst'[Top.inst].borrowed
  BY <1>2, <1>3, <1>4, SMTT(30) DEF Instances
<1>7. Good(f, inst'[f.inst])
  BY <1>5, <1>6 DEF Good, Running
<1> QED
  BY <1>3, <1>5, <1>6, <1>7, Moves

\* The view is taken when it is needed, and so is attached.
LEMMA NeverDetached == \A i \in Inst : mem(i) = inst[i].gen /\ ~ Detached(i)
  BY DEF Detached, mem, refreshed

LEMMA WriteRequestBoundary == ASSUME BoundaryInv, WriteRequest PROVE BoundaryInv'
<1> DEFINE i == Top.inst
<1>1. PICK f : f = [Top EXCEPT !.pc = "enter"]
  OBVIOUS
<1>2. /\ stack # <<>> /\ Top \in Frames /\ i \in Inst /\ Top.pc = "write"
      /\ inst \in [Inst -> Instances] /\ inst[i] \in Instances /\ ~ inst[i].borrowed
  BY TopAt DEF WriteRequest, Good
<1>3. /\ inst' = [inst EXCEPT ![i].view = inst[i].gen, ![i].request = Top.call]
      /\ stack' = Become(f) /\ UNCHANGED <<thrown, calls, returned, lost>>
  BY <1>1, <1>2, NeverDetached DEF WriteRequest
<1>4. /\ f \in Frames /\ f.inst = i /\ f.pc = "enter" /\ f.call = Top.call /\ Top.call \in Calls
  BY <1>1, <1>2 DEF Frames
<1>5. /\ inst' \in [Inst -> Instances]
      /\ \A j \in Inst \ {i} : inst'[j] = inst[j]
      /\ ~ inst'[i].borrowed
      /\ inst'[i].request = Top.call
  BY <1>2, <1>3, <1>4 DEF Instances
<1>6. Good(f, inst'[f.inst])
  BY <1>4, <1>5 DEF Good, Running
<1> QED
  BY <1>2, <1>3, <1>4, <1>5, <1>6, Moves

LEMMA EnterBoundary == ASSUME BoundaryInv, Enter PROVE BoundaryInv'
<1> DEFINE i == Top.inst
<1>1. PICK f : f = [Top EXCEPT !.pc = "inside", !.decoded = inst[i].request]
  OBVIOUS
<1>2. /\ stack # <<>> /\ Top \in Frames /\ i \in Inst /\ Top.pc = "enter"
      /\ inst \in [Inst -> Instances] /\ inst[i] \in Instances /\ ~ inst[i].borrowed
      /\ inst[i].request = Top.call
      /\ stack' = Become(f) /\ UNCHANGED <<thrown, calls, returned, lost>>
  BY <1>1, TopAt DEF Enter, Good
<1>3. inst' = [inst EXCEPT ![i].borrowed = TRUE]
  BY DEF Enter
<1>4. /\ f \in Frames /\ f.inst = i /\ f.pc = "inside" /\ f.decoded = f.call
  BY <1>1, <1>2 DEF Frames, Instances
<1>5. /\ inst' \in [Inst -> Instances]
      /\ \A j \in Inst \ {i} : inst'[j] = inst[j]
      /\ inst'[i].borrowed
  BY <1>2, <1>3 DEF Instances
<1>6. Good(f, inst'[f.inst])
  BY <1>4, <1>5 DEF Good, Running
<1> QED
  BY <1>2, <1>4, <1>5, <1>6, Moves

LEMMA RecoverBoundary == ASSUME BoundaryInv, Recover PROVE BoundaryInv'
<1> DEFINE i == Top.inst
<1>1. PICK f : f = [Top EXCEPT !.pc = "collect"]
  OBVIOUS
<1>2. /\ stack # <<>> /\ Top \in Frames /\ i \in Inst /\ Top.pc = "enter"
      /\ inst \in [Inst -> Instances] /\ inst[i] \in Instances /\ ~ inst[i].borrowed
      /\ inst[i].request = Top.call
      /\ stack' = Become(f) /\ UNCHANGED <<thrown, calls, returned, lost>>
  BY <1>1, TopAt DEF Recover, Good
<1>3. PICK g \in Grown(i) : inst' = [inst EXCEPT ![i].gen = g, ![i].outcome = inst[i].request]
  BY DEF Recover
<1>4. /\ f \in Frames /\ f.inst = i /\ f.pc = "collect" /\ f.call = Top.call
  BY <1>1, <1>2 DEF Frames
<1>5. /\ inst' \in [Inst -> Instances]
      /\ \A j \in Inst \ {i} : inst'[j] = inst[j]
      /\ ~ inst'[i].borrowed /\ inst'[i].outcome = Top.call
  <2>1. g \in 0..MaxGrowth /\ inst[i].request \in Calls
    BY <1>2, GrownType DEF BoundaryInv, Instances
  <2> QED
    BY <1>2, <1>3, <2>1 DEF Instances
<1>6. Good(f, inst'[f.inst])
  BY <1>4, <1>5 DEF Good, Running
<1> QED
  BY <1>2, <1>4, <1>5, <1>6, Moves

LEMMA HostCallBoundary ==
    ASSUME BoundaryInv, NEW a \in Addr, HostCall(a) PROVE BoundaryInv'
<1> DEFINE i == Top.inst
<1>1. PICK f : f = [Top EXCEPT !.pc = "callback", !.addr = a,
                               !.held = [memory |-> i, gen |-> inst[i].gen]]
  OBVIOUS
<1>2. /\ stack # <<>> /\ Top \in Frames /\ i \in Inst /\ Top.pc = "inside" /\ Running(Top)
      /\ inst \in [Inst -> Instances] /\ inst[i] \in Instances /\ inst[i].borrowed
      /\ Top.decoded = Top.call
      /\ stack' = Become(f) /\ UNCHANGED <<thrown, calls, returned, lost>>
  BY <1>1, TopAt DEF HostCall, Good, Running, memory
<1>3. inst' = [inst EXCEPT ![i].scratch = a]
  BY DEF HostCall, adapter
<1>4. /\ f \in Frames /\ f.inst = i /\ f.pc = "callback" /\ f.decoded = f.call /\ f.addr = a
      /\ f.held = [memory |-> i, gen |-> inst[i].gen]
  BY <1>1, <1>2 DEF Frames, Instances
<1>5. /\ inst' \in [Inst -> Instances]
      /\ \A j \in Inst \ {i} : inst'[j] = inst[j]
      /\ inst'[i].borrowed /\ inst'[i].scratch = a /\ inst'[i].gen = inst[i].gen
  BY <1>2, <1>3 DEF Instances
<1>6. Good(f, inst'[f.inst])
  BY <1>4, <1>5 DEF Good, Running
<1> QED
  BY <1>2, <1>4, <1>5, <1>6, Moves

LEMMA AnswerBoundary == ASSUME BoundaryInv, Answer PROVE BoundaryInv'
<1> DEFINE i == Top.inst
<1>1. PICK f : f = [Top EXCEPT !.pc = "inside"]
  OBVIOUS
<1>2. /\ stack # <<>> /\ Top \in Frames /\ i \in Inst /\ Top.pc = "callback" /\ Running(Top)
      /\ inst \in [Inst -> Instances] /\ inst[i] \in Instances /\ inst[i].borrowed
      /\ Top.decoded = Top.call
      /\ stack' = Become(f) /\ UNCHANGED <<thrown, calls, returned, lost>>
  BY <1>1, TopAt DEF Answer, Good, Running
<1>3. PICK g \in Grown(i) : inst' = [inst EXCEPT ![i].gen = g]
  BY DEF Answer
<1>4. /\ f \in Frames /\ f.inst = i /\ f.pc = "inside" /\ f.decoded = f.call
  BY <1>1, <1>2 DEF Frames
<1>5. /\ inst' \in [Inst -> Instances]
      /\ \A j \in Inst \ {i} : inst'[j] = inst[j]
      /\ inst'[i].borrowed
  BY <1>2, <1>3, GrownType DEF Instances, BoundaryInv
<1>6. Good(f, inst'[f.inst])
  BY <1>4, <1>5 DEF Good, Running
<1> QED
  BY <1>2, <1>4, <1>5, <1>6, Moves

LEMMA LeaveBoundary == ASSUME BoundaryInv, Leave PROVE BoundaryInv'
<1> DEFINE i == Top.inst
<1>1. PICK f : f = [Top EXCEPT !.pc = "collect"]
  OBVIOUS
<1>2. /\ stack # <<>> /\ Top \in Frames /\ i \in Inst /\ Top.pc = "inside" /\ Running(Top)
      /\ inst \in [Inst -> Instances] /\ inst[i] \in Instances /\ inst[i].borrowed
      /\ Top.decoded = Top.call /\ Top.decoded \in Calls
      /\ stack' = Become(f) /\ UNCHANGED <<thrown, calls, returned, lost>>
  BY <1>1, TopAt DEF Leave, Good, Running, Frames
<1>3. PICK g \in Grown(i) : inst' = [inst EXCEPT ![i].gen = g, ![i].borrowed = FALSE,
                                                 ![i].outcome = Top.decoded]
  BY DEF Leave
<1>4. /\ f \in Frames /\ f.inst = i /\ f.pc = "collect" /\ f.call = Top.call
  BY <1>1, <1>2 DEF Frames
<1>5. g \in 0..MaxGrowth
  BY <1>2, GrownType DEF BoundaryInv
<1>6. /\ inst' \in [Inst -> Instances]
      /\ \A j \in Inst \ {i} : inst'[j] = inst[j]
      /\ ~ inst'[i].borrowed /\ inst'[i].outcome = Top.call
  BY <1>2, <1>3, <1>5 DEF Instances
<1>7. Good(f, inst'[f.inst])
  BY <1>4, <1>6 DEF Good, Running
<1> QED
  BY <1>2, <1>4, <1>6, <1>7, Moves

\* Panic, an answer that is no signer, and a throw leave the instances as they are.
LEMMA LeavesAsIs ==
    ASSUME BoundaryInv, Panic \/ RecoverNone \/ Unwind PROVE BoundaryInv'
<1>1. /\ stack # <<>> /\ stack' = Pop /\ UNCHANGED <<inst, calls, returned>>
      /\ thrown' \in BOOLEAN
      /\ lost' = lost \/ (lost' = lost \cup {Top.inst} /\ Running(Top))
  BY DEF Panic, RecoverNone, Unwind, At, Running, BoundaryInv, TypeOK
<1>2. inst \in [Inst -> Instances] /\ calls \in Calls
      /\ returned \in [inst : Inst, call : Calls, outcome : Calls]
      /\ OwnOutcome'
  BY <1>1 DEF BoundaryInv, TypeOK, OwnOutcome
<1> QED
  BY <1>1, <1>2, Goes

LEMMA CollectBoundary == ASSUME BoundaryInv, Collect PROVE BoundaryInv'
<1> DEFINE i == Top.inst
<1>1. /\ stack # <<>> /\ Top \in Frames /\ i \in Inst /\ Top.pc = "collect"
      /\ inst \in [Inst -> Instances] /\ inst[i] \in Instances /\ ~ inst[i].borrowed
      /\ inst[i].outcome = Top.call
      /\ stack' = Pop /\ UNCHANGED <<calls, lost>>
  BY TopAt DEF Collect, Good
<1>2. /\ inst' = [inst EXCEPT ![i].view = inst[i].gen]
      /\ returned' = [inst |-> i, call |-> Top.call, outcome |-> inst[i].outcome]
      /\ UNCHANGED thrown
  BY <1>1, NeverDetached DEF Collect
<1>3. /\ inst' \in [Inst -> Instances]
      /\ \A j \in Inst : inst'[j].borrowed = inst[j].borrowed
      /\ \A j \in Inst \ {i} : inst'[j] = inst[j]
  BY <1>1, <1>2 DEF Instances
<1>4. /\ returned' \in [inst : Inst, call : Calls, outcome : Calls]
      /\ OwnOutcome'
  BY <1>1, <1>2 DEF Frames, OwnOutcome
<1>5. \A n \in 1..Len(stack) - 1 : inst'[stack[n].inst] = inst[stack[n].inst]
  <2>1. ASSUME NEW n \in 1..Len(stack) - 1 PROVE stack[n].inst \in Inst \ {i}
    <3>1. stack[n] \in Frames
      BY DEF BoundaryInv, TypeOK
    <3> QED
      BY <1>1, <3>1, Apart DEF Frames
  <2> QED
    BY <1>3, <2>1
<1>6. thrown' \in BOOLEAN /\ calls' \in Calls
  BY <1>1, <1>2 DEF BoundaryInv, TypeOK
<1> QED
  BY <1>1, <1>3, <1>4, <1>5, <1>6, Goes

LEMMA CatchBoundary == ASSUME BoundaryInv, Catch PROVE BoundaryInv'
  BY DEF Catch, BoundaryInv, TypeOK, OneAtATime, AllGood, OwnOutcome, Stuck

LEMMA StutterBoundary == ASSUME BoundaryInv, UNCHANGED vars PROVE BoundaryInv'
  BY DEF vars, BoundaryInv, TypeOK, OneAtATime, AllGood, OwnOutcome, Stuck

LEMMA InitBoundary == Init => BoundaryInv
<1> SUFFICES ASSUME Init PROVE BoundaryInv
  OBVIOUS
<1>1. NoCall \in Calls /\ 0 \in 0..MaxGrowth /\ Len(stack) = 0 /\ 0 <= MaxDepth
  BY InstanceAssumption DEF Init, NoCall, Calls
<1>2. inst \in [Inst -> Instances] /\ returned \in [inst : Inst, call : Calls, outcome : Calls]
  BY <1>1 DEF Init, Instances
<1>3. stack = <<>> /\ stack \in Seq(Frames) /\ \A n \in 1..Len(stack) : FALSE
  BY <1>1 DEF Init
<1>4. thrown \in BOOLEAN /\ calls \in Calls /\ lost = {} /\ Len(stack) <= MaxDepth
  BY <1>1 DEF Init, NoCall
<1>5. \A n \in 1..Len(stack) - 1 : FALSE
  BY <1>1
<1>6. returned.outcome = returned.call
  BY DEF Init
<1>7. TypeOK
  BY <1>2, <1>3, <1>4, <1>5 DEF TypeOK
<1> QED
  BY <1>3, <1>4, <1>6, <1>7 DEF BoundaryInv, OneAtATime, AllGood, OwnOutcome, Stuck

LEMMA StepBoundary == BoundaryInv /\ [Next]_vars => BoundaryInv'
<1> SUFFICES ASSUME BoundaryInv, [Next]_vars PROVE BoundaryInv'
  OBVIOUS
<1>1. CASE \E i \in Inst, recover \in BOOLEAN : Call(i, recover)
  BY <1>1, CallBoundary
<1>2. CASE \E a \in Addr : HostCall(a)
  BY <1>2, HostCallBoundary
<1>3. CASE Panic \/ RecoverNone \/ Unwind
  BY <1>3, LeavesAsIs
<1>4. CASE Reserve
  BY <1>4, ReserveBoundary
<1>5. CASE WriteRequest
  BY <1>5, WriteRequestBoundary
<1>6. CASE Enter
  BY <1>6, EnterBoundary
<1>7. CASE Recover
  BY <1>7, RecoverBoundary
<1>8. CASE Answer
  BY <1>8, AnswerBoundary
<1>9. CASE Leave
  BY <1>9, LeaveBoundary
<1>10. CASE Collect
  BY <1>10, CollectBoundary
<1>11. CASE Catch
  BY <1>11, CatchBoundary
<1>12. CASE UNCHANGED vars
  BY <1>12, StutterBoundary
<1> QED
  BY <1>1, <1>2, <1>3, <1>4, <1>5, <1>6, <1>7, <1>8, <1>9, <1>10, <1>11, <1>12 DEF Next

LEMMA AlwaysBoundary == Spec => []BoundaryInv
<1> QED
  BY InitBoundary, StepBoundary, PTL DEF Spec

-----------------------------------------------------------------------------
(* What the run checks, for every value of the constants.                    *)

\* The stack of calls, the instances and their buffers are of the types the code
\* gives them, every call below the innermost is in a host function, and a call
\* that executes has its instance borrowed.
THEOREM BoundaryTypes == Spec => []TypeOK
<1>1. BoundaryInv => TypeOK
  BY DEF BoundaryInv
<1> QED
  BY <1>1, AlwaysBoundary, PTL

\* However host functions call back, no instance runs two requests at once.
THEOREM NeverTwoAtATime == Spec => []OneAtATime
<1>1. BoundaryInv => OneAtATime
  BY DEF BoundaryInv
<1> QED
  BY <1>1, AlwaysBoundary, PTL

\* However calls nest, throw and grow the memory between them, what a call
\* returns was computed from its own request.
THEOREM OutcomeIsOwn == Spec => []OwnOutcome
<1>1. BoundaryInv => OwnOutcome
  BY DEF BoundaryInv
<1> QED
  BY <1>1, AlwaysBoundary, PTL

\* Whatever grows when, the exceptions of a call are those of a store or of a
\* borrowed instance.
THEOREM ThrowsAreDeserved == Spec => ThrowsForCause
<1>1. BoundaryInv /\ [Next]_vars =>
        [~ thrown /\ thrown' => Top.pc = "callback" \/ inst[Top.inst].borrowed]_vars
  <2> SUFFICES ASSUME BoundaryInv, Next, ~ thrown, thrown'
               PROVE  Top.pc = "callback" \/ inst[Top.inst].borrowed
    OBVIOUS
  <2>1. CASE WriteRequest \/ Collect
    <3>1. Top.inst \in Inst
      BY <2>1, TopAt DEF WriteRequest, Collect
    <3> QED
      BY <2>1, <3>1, NeverDetached DEF WriteRequest, Collect
  <2>2. CASE Panic \/ Unwind
    BY <2>2 DEF Panic, Unwind
  <2> QED
    BY <2>1, <2>2 DEF Next, Call, Reserve, Enter, Recover, RecoverNone, HostCall, Answer,
                      Catch, Leave
<1> QED
  BY <1>1, AlwaysBoundary, PTL DEF Spec, ThrowsForCause

\* However deep the calls a store makes, the view its answer is written through
\* is attached to the memory of the instance that asked.
THEOREM AnswersAlwaysLand == Spec => []AnswersLand
<1>1. BoundaryInv => AnswersLand
  BY DEF BoundaryInv, AllGood, Good, AnswersLand
<1> QED
  BY <1>1, AlwaysBoundary, PTL

\* And the address it was handed is still in the scratch buffer.
THEOREM AddressAlwaysHeld == Spec => []AddressHeld
<1>1. BoundaryInv => AddressHeld
  BY DEF BoundaryInv, AllGood, Good, AddressHeld
<1> QED
  BY <1>1, AlwaysBoundary, PTL

\* An instance a throw went through never runs and never answers again.
THEOREM AbandonedForever == Spec => AbandonedStaysSilent
<1> DEFINE A == \A i \in lost :
                   /\ \A n \in 1..Len(stack') : Running(stack'[n]) => stack'[n].inst # i
                   /\ inst'[i].outcome = inst[i].outcome
                   /\ returned'.inst = i => returned' = returned
<1>1. BoundaryInv /\ BoundaryInv' /\ [Next]_vars => [A]_vars
  <2> SUFFICES ASSUME BoundaryInv, BoundaryInv', Next, NEW i \in lost
               PROVE  /\ \A n \in 1..Len(stack') : Running(stack'[n]) => stack'[n].inst # i
                      /\ inst'[i].outcome = inst[i].outcome
                      /\ returned'.inst = i => returned' = returned
    OBVIOUS
  <2>1. i \in lost'
    BY DEF Next, Call, Panic, Reserve, WriteRequest, Enter, Recover, RecoverNone, HostCall,
           Answer, Unwind, Catch, Leave, Collect
  <2>2. \A n \in 1..Len(stack') : Running(stack'[n]) => stack'[n].inst # i
    BY <2>1 DEF BoundaryInv, Stuck
  <2>3. i \in Inst /\ inst \in [Inst -> Instances] /\ inst[i] \in Instances /\ inst[i].borrowed
    BY DEF BoundaryInv, TypeOK, Stuck
  <2>4. inst'[i].outcome = inst[i].outcome
    <3>1. CASE Recover
      <4>1. Top.inst # i
        BY <2>3, <3>1 DEF Recover
      <4> QED
        BY <2>3, <3>1, <4>1 DEF Recover
    <3>2. CASE Leave
      <4>1. Top.inst # i
        BY <3>2, TopAt, Apart DEF Leave, Running
      <4> QED
        BY <2>3, <3>2, <4>1 DEF Leave
    <3>3. CASE \E j \in Inst, recover \in BOOLEAN : Call(j, recover)
      BY <3>3 DEF Call
    <3>4. CASE Reserve \/ Answer
      <4>1. PICK g : inst' = [inst EXCEPT ![Top.inst].gen = g]
        BY <3>4 DEF Reserve, Answer
      <4> QED
        BY <2>3, <4>1 DEF Instances
    <3>5. CASE Enter
      BY <2>3, <3>5 DEF Enter, Instances
    <3>6. CASE Collect
      <4>1. PICK v : inst' = [inst EXCEPT ![Top.inst].view = v] \/ inst' = inst
        BY <3>6 DEF Collect
      <4> QED
        BY <2>3, <4>1 DEF Instances
    <3>7. CASE WriteRequest
      <4>1. PICK v, r : \/ inst' = [inst EXCEPT ![Top.inst].view = v, ![Top.inst].request = r]
                        \/ inst' = inst
        BY <3>7 DEF WriteRequest
      <4> QED
        BY <2>3, <4>1 DEF Instances
    <3>8. CASE \E a \in Addr : HostCall(a)
      <4>1. PICK a, j : inst' = [inst EXCEPT ![j].scratch = a]
        BY <3>8 DEF HostCall
      <4> QED
        BY <2>3, <4>1 DEF Instances
    <3>9. CASE Panic \/ RecoverNone \/ Unwind \/ Catch
      BY <3>9 DEF Panic, RecoverNone, Unwind, Catch
    <3> QED
      BY <3>1, <3>2, <3>3, <3>4, <3>5, <3>6, <3>7, <3>8, <3>9 DEF Next
  <2>5. returned'.inst = i => returned' = returned
    <3>1. CASE Collect
      BY <2>3, <3>1 DEF Collect
    <3> QED
      BY <3>1 DEF Next, Call, Panic, Reserve, WriteRequest, Enter, Recover, RecoverNone,
                  HostCall, Answer, Unwind, Catch, Leave
  <2> QED
    BY <2>2, <2>4, <2>5
<1> QED
  BY <1>1, AlwaysBoundary, PTL DEF Spec, AbandonedStaysSilent
=============================================================================
