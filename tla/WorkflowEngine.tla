-------------------------- MODULE WorkflowEngine --------------------------
(***************************************************************************)
(* The interpreter of Cloud Workflows (execution/engine.ts).  A program is   *)
(* a function from block names to sequences of steps; "main" is one block,   *)
(* the subworkflows and every nested "steps" are the others.  The calls of   *)
(* executeBlock() that are in progress are the frames of a stack, and what   *)
(* it returns or throws to its caller is the signal.  Values are left out    *)
(* but for one variable that assignments and loops share: expressions have   *)
(* any value and may throw.                                                  *)
(***************************************************************************)
EXTENDS Absent, Naturals, Sequences, FiniteSets

CONSTANTS
  WorkflowPrograms,  (* the programs run                                     *)
  Subworkflows,      (* the names of the blocks "call" can name              *)
  CallStackLimit     (* CALL_STACK_DEPTH_LIMIT                               *)

(* parseWorkflowYaml(), parseSteps(): the blocks that a step opens are there.*)
StepFits(blocks, step) ==
  /\ step.op \in {"for", "try", "steps"} => step.block \in DOMAIN blocks
  /\ step.op = "switch" => \A i \in DOMAIN step.cases : step.cases[i].block \in DOMAIN blocks
  /\ step.op = "for" => step.length \in Nat
  /\ step.op = "try" =>
       /\ step.except \in DOMAIN blocks \cup {NoRow} /\ step.predicate \in Subworkflows \cup {NoRow}
       /\ step.retries \in Nat
IsProgram(blocks) ==
  /\ Subworkflows \cup {"main"} \subseteq DOMAIN blocks
  /\ \A b \in DOMAIN blocks :
       /\ Len(blocks[b]) \in Nat /\ DOMAIN blocks[b] = 1 .. Len(blocks[b])
       /\ \A i \in DOMAIN blocks[b] : StepFits(blocks, blocks[b][i])

ASSUME EngineAssumption ==
  /\ CallStackLimit \in Nat /\ "main" \notin Subworkflows /\ NoRow \notin Subworkflows
  /\ \A p \in WorkflowPrograms : IsProgram(p) /\ NoRow \notin DOMAIN p

VARIABLES
  program,     (* definition                                                 *)
  frames,      (* the blocks in progress, innermost last                     *)
  scopes,      (* the shared variable in each scope of main and subworkflows *)
  signal,      (* "none", or the control signal or error on its way outwards *)
  jumpTarget,  (* where a "next" signal leads                                *)
  callDepth,
  calling,     (* a function of the library is being waited for              *)
  stepOutcome      (* "ACTIVE", then the state execute() answers                 *)

engineVars == <<program, frames, scopes, signal, jumpTarget, callDepth, calling, stepOutcome>>

Signals == {"none", "next", "return", "end", "throw"}
Unset == {}             \* the variable is not in the scope
Indexed(i) == {i}       \* a loop gave it the value at this index
Assigned == {0}         \* an assignment gave it a value

(* What a frame remembers: the step that opened it and how far it is         *)
Frame(kind, block, step, saved) ==
  [kind |-> kind, block |-> block, pc |-> 1, step |-> step, round |-> 1, saved |-> saved]
NoStep == [op |-> "none", next |-> NoRow]

(* execute(): main runs in a scope of its own.                               *)
EngineInit ==
  /\ program \in WorkflowPrograms
  /\ frames = <<Frame("main", "main", NoStep, NoRow)>> /\ scopes = <<Unset>>
  /\ signal = "none" /\ jumpTarget = NoRow /\ callDepth = 0 /\ calling = FALSE
  /\ stepOutcome = "ACTIVE"

InnerFrame == frames[Len(frames)]
CallerFrame == frames[Len(frames) - 1]
Outer(seq) == SubSeq(seq, 1, Len(seq) - 1)
TopTo(frame) == frames' = [frames EXCEPT ![Len(frames)] = frame]
Variable == scopes[Len(scopes)]
SetVariable(value) == scopes' = [scopes EXCEPT ![Len(scopes)] = value]
Push(frame) == frames' = Append(frames, frame)
ScopesKept == UNCHANGED <<scopes, callDepth>>
Rest == UNCHANGED <<program, stepOutcome>>

(* executeStep() after the body of a step: its own "next", or the next step. *)
StepDone(outer, step) ==
  /\ frames' = [outer EXCEPT ![Len(outer)].pc = @ + 1]
  /\ IF step.next = NoRow THEN signal' = "none" /\ UNCHANGED jumpTarget
                          ELSE signal' = "next" /\ jumpTarget' = step.next

-----------------------------------------------------------------------------
(* executeStep(): what a step does when its turn comes                       *)

Runs == stepOutcome = "ACTIVE" /\ signal = "none" /\ ~calling
          /\ InnerFrame.pc <= Len(program[InnerFrame.block])
ThisStep == program[InnerFrame.block][InnerFrame.pc]

ExecuteAssign ==
  /\ Runs /\ ThisStep.op = "assign"
  /\ SetVariable(Assigned) /\ StepDone(frames, ThisStep)
  /\ UNCHANGED <<callDepth, calling>> /\ Rest

(* resolveValue() throws in any step that evaluates something.               *)
ExpressionThrows ==
  /\ Runs /\ ThisStep.op \in {"assign", "return", "raise", "call", "switch", "for"}
  /\ signal' = "throw"
  /\ UNCHANGED <<frames, jumpTarget, calling>> /\ ScopesKept /\ Rest

ExecuteReturn ==
  /\ Runs /\ ThisStep.op = "return" /\ signal' = "return"
  /\ UNCHANGED <<frames, jumpTarget, calling>> /\ ScopesKept /\ Rest

ExecuteNext ==
  /\ Runs /\ ThisStep.op = "next" /\ StepDone(frames, ThisStep)
  /\ UNCHANGED calling /\ ScopesKept /\ Rest

(* callSubworkflow(): a scope of its own, and a limit on the depth.          *)
Enter(kind, name) ==
  IF callDepth < CallStackLimit
  THEN /\ callDepth' = callDepth + 1 /\ scopes' = Append(scopes, Unset) /\ signal' = "none"
       /\ Push(Frame(kind, name, NoStep, NoRow))
  ELSE signal' = "throw" /\ UNCHANGED frames /\ ScopesKept

CallSubworkflow ==
  /\ Runs /\ ThisStep.op = "call" /\ ThisStep.target \in Subworkflows
  /\ Enter("sub", ThisStep.target)
  /\ UNCHANGED <<jumpTarget, calling>> /\ Rest

CallStdlib ==
  /\ Runs /\ ThisStep.op = "call" /\ ThisStep.target \notin Subworkflows /\ calling' = TRUE
  /\ UNCHANGED <<frames, signal, jumpTarget>> /\ ScopesKept /\ Rest

StdlibAnswers ==
  /\ calling /\ calling' = FALSE
  /\ \/ StepDone(frames, ThisStep)
     \/ signal' = "throw" /\ UNCHANGED <<frames, jumpTarget>>
  /\ ScopesKept /\ Rest

(* executeSwitch(): the first case that holds; its steps, then its "next".   *)
ExecuteSwitch ==
  /\ Runs /\ ThisStep.op = "switch"
  /\ \/ \E i \in DOMAIN ThisStep.cases :
          /\ Push(Frame("case", ThisStep.cases[i].block, ThisStep.cases[i], NoRow))
          /\ UNCHANGED <<signal, jumpTarget>>
     \/ StepDone(frames, ThisStep)
  /\ UNCHANGED calling /\ ScopesKept /\ Rest

(* executeFor(): the loop variable takes the first index; an empty list is   *)
(* over at once.                                                             *)
ExecuteFor ==
  /\ Runs /\ ThisStep.op = "for"
  /\ IF ThisStep.length = 0
     THEN StepDone(frames, ThisStep) /\ UNCHANGED scopes
     ELSE /\ Push(Frame("for", ThisStep.block, ThisStep, Variable)) /\ SetVariable(Indexed(1))
          /\ UNCHANGED <<signal, jumpTarget>>
  /\ UNCHANGED <<callDepth, calling>> /\ Rest

(* executeTry() and nested steps                                             *)
ExecuteNested ==
  /\ Runs /\ ThisStep.op \in {"try", "steps"}
  /\ Push(Frame(ThisStep.op, ThisStep.block, ThisStep, NoRow))
  /\ UNCHANGED <<signal, jumpTarget, calling>> /\ ScopesKept /\ Rest

-----------------------------------------------------------------------------
(* Leaving a frame.  restoreLoopVars() runs in a finally, as does the count  *)
(* of callSubworkflow().                                                     *)

UnwindForgetful ==  \* mutant: the loop variable is restored only when the loop ends by itself
  CASE InnerFrame.kind = "for" ->
         /\ IF signal = "none" THEN SetVariable(InnerFrame.saved) ELSE UNCHANGED scopes
         /\ UNCHANGED callDepth
    [] InnerFrame.kind \in {"sub", "predicate"} -> scopes' = Outer(scopes) /\ callDepth' = callDepth - 1
    [] OTHER -> ScopesKept

Unwind ==
  CASE InnerFrame.kind = "for" -> SetVariable(InnerFrame.saved) /\ UNCHANGED callDepth
    [] InnerFrame.kind \in {"sub", "predicate"} -> scopes' = Outer(scopes) /\ callDepth' = callDepth - 1
    [] OTHER -> ScopesKept

Ends(state) == stepOutcome' = state /\ frames' = <<>> /\ signal' = "none" /\ UNCHANGED jumpTarget

(* executeExcept(), or the error goes on.                                    *)
FailedTry(outer, try) ==
  IF try.step.except = NoRow
  THEN frames' = outer /\ signal' = "throw"
  ELSE frames' = Append(outer, Frame("except", try.step.except, try.step, NoRow)) /\ signal' = "none"

Again(try) == [try EXCEPT !.pc = 1, !.round = @ + 1]

(* The block has run to its end without a signal.                            *)
BlockEnds ==
  /\ stepOutcome = "ACTIVE" /\ signal = "none" /\ ~calling
  /\ InnerFrame.pc > Len(program[InnerFrame.block])
  /\ CASE InnerFrame.kind = "main" -> Ends("SUCCEEDED") /\ ScopesKept
       [] InnerFrame.kind = "for" /\ InnerFrame.round < InnerFrame.step.length ->
            /\ TopTo(Again(InnerFrame)) /\ SetVariable(Indexed(InnerFrame.round + 1))
            /\ UNCHANGED <<signal, jumpTarget, callDepth, stepOutcome>>
       [] InnerFrame.kind = "predicate" ->
            /\ FailedTry(Outer(Outer(frames)), CallerFrame) /\ Unwind  \* null: no retry
            /\ UNCHANGED <<jumpTarget, stepOutcome>>
       [] InnerFrame.kind = "case" /\ InnerFrame.step.next # NoRow ->
            /\ frames' = Outer(frames) /\ signal' = "next" /\ jumpTarget' = InnerFrame.step.next
            /\ ScopesKept /\ UNCHANGED stepOutcome
       [] OTHER ->
            /\ StepDone(Outer(frames), program[CallerFrame.block][CallerFrame.pc]) /\ Unwind
            /\ UNCHANGED stepOutcome
  /\ UNCHANGED <<program, calling>>

(* executeBlock() with a "next" signal: only the block's own steps can be    *)
(* its target.                                                               *)
Jump ==
  LET block == program[InnerFrame.block]
      found == {i \in DOMAIN block : block[i].name = jumpTarget}
  IN /\ signal = "next" /\ stepOutcome = "ACTIVE"
     /\ IF jumpTarget = "end" THEN signal' = "end" /\ UNCHANGED frames
        ELSE IF found = {} THEN signal' = "throw" /\ UNCHANGED frames
        ELSE /\ TopTo([InnerFrame EXCEPT !.pc = CHOOSE i \in found : \A j \in found : i <= j])
             /\ signal' = "none"
     /\ UNCHANGED <<jumpTarget, calling>> /\ ScopesKept /\ Rest

(* A return, or the end of a workflow, leaves every block of its workflow.   *)
Returns ==
  /\ signal \in {"return", "end"} /\ stepOutcome = "ACTIVE"
  /\ CASE InnerFrame.kind = "main" -> Ends("SUCCEEDED") /\ ScopesKept
       [] InnerFrame.kind = "sub" ->
            /\ StepDone(Outer(frames), program[CallerFrame.block][CallerFrame.pc]) /\ Unwind
            /\ UNCHANGED stepOutcome
       [] InnerFrame.kind = "predicate" ->
            /\ \/ /\ signal = "return"
                  /\ frames' = Append(Outer(Outer(frames)), Again(CallerFrame)) /\ signal' = "none"
               \/ FailedTry(Outer(Outer(frames)), CallerFrame)
            /\ Unwind /\ UNCHANGED <<jumpTarget, stepOutcome>>
       [] OTHER -> frames' = Outer(frames) /\ Unwind /\ UNCHANGED <<signal, jumpTarget, stepOutcome>>
  /\ UNCHANGED <<program, calling>>

(* An error leaves its blocks up to a try with an attempt left or an except. *)
Throws ==
  /\ signal = "throw" /\ stepOutcome = "ACTIVE"
  /\ CASE InnerFrame.kind = "main" -> Ends("FAILED") /\ ScopesKept
       [] InnerFrame.kind = "predicate" ->  \* thrown inside the catch of executeTry()
            frames' = Outer(Outer(frames)) /\ Unwind /\ UNCHANGED <<signal, jumpTarget, stepOutcome>>
       [] InnerFrame.kind = "try" /\ InnerFrame.round <= InnerFrame.step.retries ->
            /\ IF InnerFrame.step.predicate # NoRow /\ callDepth < CallStackLimit
               THEN Enter("predicate", InnerFrame.step.predicate)
               ELSE IF InnerFrame.step.predicate # NoRow
               THEN frames' = Outer(frames) /\ ScopesKept /\ UNCHANGED signal
               ELSE TopTo(Again(InnerFrame)) /\ signal' = "none" /\ ScopesKept
            /\ UNCHANGED <<jumpTarget, stepOutcome>>
       [] InnerFrame.kind = "try" /\ InnerFrame.round > InnerFrame.step.retries ->
            FailedTry(Outer(frames), InnerFrame) /\ ScopesKept /\ UNCHANGED <<jumpTarget, stepOutcome>>
       [] OTHER -> frames' = Outer(frames) /\ Unwind /\ UNCHANGED <<signal, jumpTarget, stepOutcome>>
  /\ UNCHANGED <<program, calling>>

EngineNext ==
  \/ ExecuteAssign \/ ExpressionThrows \/ ExecuteReturn \/ ExecuteNext \/ CallSubworkflow
  \/ CallStdlib \/ StdlibAnswers \/ ExecuteSwitch \/ ExecuteFor \/ ExecuteNested
  \/ BlockEnds \/ Jump \/ Returns \/ Throws

EngineSpec == EngineInit /\ [][EngineNext]_engineVars /\ WF_engineVars(EngineNext)

-----------------------------------------------------------------------------
FrameKinds == {"main", "sub", "predicate", "case", "for", "try", "steps", "except"}
SubFrames == {i \in DOMAIN frames : frames[i].kind \in {"sub", "predicate"}}
ScopeStart == CHOOSE i \in DOMAIN frames :
                /\ frames[i].kind \in {"main", "sub", "predicate"}
                /\ \A j \in DOMAIN frames : frames[j].kind \in {"main", "sub", "predicate"} => j <= i

(* The stack, the scopes and the signal stay well formed.                    *)
EngineTypeOK ==
  /\ signal \in Signals /\ calling \in BOOLEAN /\ stepOutcome \in {"ACTIVE", "SUCCEEDED", "FAILED"}
  /\ \A i \in DOMAIN frames :
       /\ frames[i].kind \in FrameKinds /\ (frames[i].kind = "main" <=> i = 1)
       /\ frames[i].pc \in 1..(Len(program[frames[i].block]) + 1)
  /\ frames = <<>> <=> stepOutcome # "ACTIVE"

(* However a subworkflow is left, by its end, a return, an error or an error *)
(* inside a predicate, the count of calls is that of the calls in progress;  *)
(* it never passes the limit and an execution ends with none.                *)
CallDepthMatches ==
  callDepth = Cardinality(SubFrames) /\ callDepth <= CallStackLimit
    /\ Len(scopes) = callDepth + 1

(* A loop's body sees the loop's own value unless it has assigned it, even   *)
(* after an inner loop over the same variable was left by an error; after    *)
(* the loops of a scope the variable has the value it had before them.       *)
LoopVariableIsCurrent ==
  frames # <<>> =>
    LET loops == {i \in ScopeStart..Len(frames) : frames[i].kind = "for"}
    IN Variable \in
         {Assigned, IF loops = {} THEN Unset
                    ELSE Indexed(frames[CHOOSE i \in loops : \A j \in loops : j <= i].round)}

(* An execution that only jumps forward ends: retries are counted, a         *)
(* subworkflow that calls itself runs into the limit.                        *)
StepsForward(block) ==
  \A i \in DOMAIN block :
    block[i].next = NoRow \/ block[i].next = "end" \/ \E j \in DOMAIN block : j > i /\ block[j].name = block[i].next
ExecutionEnds ==
  (\A name \in DOMAIN program : StepsForward(program[name])) ~> (stepOutcome # "ACTIVE")

(* Calls are counted and loops see their own variable, on every way out of a*)
(* block.                                                                    *)
WorkflowEngineInvariant == EngineTypeOK /\ CallDepthMatches /\ LoopVariableIsCurrent
=============================================================================
