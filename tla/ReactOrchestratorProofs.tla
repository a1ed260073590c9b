------------------------ MODULE ReactOrchestratorProofs ------------------------
(***************************************************************************)
(* Proofs about the reasoning loop for every set of tools, every number of *)
(* iterations and every bound on the chunks of a response.                 *)
(*                                                                         *)
(* The invariants the loop is checked for are not inductive: each depends  *)
(* on where the generator is suspended.  IInv adds, for each suspension    *)
(* point, what the last step is (LastStep), whether there is an answer     *)
(* (AnswerState), what the pending call and the calls made are (CallState),*)
(* how many steps there can be (StepCount) and which calls have been       *)
(* observed (Observed).                                                    *)
(***************************************************************************)
EXTENDS ReactOrchestrator, SequenceTheorems, TLAPS

LastStep ==
    /\ pc \in {"thought", "action", "observation", "final_answer"} =>
         steps # << >> /\ Last(steps).type = pc
    /\ pc = "executing" => steps # << >> /\ Last(steps).type = "action"
    /\ pc \in {"thought", "action", "executing", "observation"} =>
         Last(steps).of = iteration
    /\ pc \in {"action", "executing", "observation"} =>
         toolCall \in Tools /\ Last(steps).tool = toolCall
    /\ pc \in {"loop", "streaming"} /\ steps # << >> =>
         Last(steps).type = "observation" /\ Last(steps).of <= iteration
    /\ pc = "streaming" /\ steps # << >> => Last(steps).of < iteration

ThoughtHasText == pc = "thought" => text

AnswerState ==
    /\ pc \notin {"final_answer", "returned", "abandoned"} => finalAnswer = NoAnswer
    /\ pc \in {"final_answer", "returned"} => finalAnswer # NoAnswer
    /\ pc \in {"streaming", "thought", "action", "executing"} => iteration > 0

CallState ==
    /\ toolCall = IF asked = << >> THEN NoTool ELSE Last(asked)
    /\ pc = "loop" => asked = << >>
    /\ \A i \in DOMAIN executed : executed[i].turn <= iteration
    /\ pc \in {"streaming", "thought", "action"} =>
         \A i \in DOMAIN executed : executed[i].turn < iteration
    /\ pc \in {"executing", "observation"} =>
         /\ executed # << >>
         /\ Last(executed) = [turn |-> iteration, tool |-> toolCall]

StepCount ==
    /\ pc \in {"streaming", "thought", "action"} => Len(executed) < iteration
    /\ pc \in {"loop", "observation"} => Len(steps) <= 3 * iteration
    /\ pc = "streaming" => Len(steps) <= 3 * iteration - 3
    /\ pc = "thought" => Len(steps) <= 3 * iteration - 2
    /\ pc \in {"action", "executing"} => Len(steps) <= 3 * iteration - 1

ObservedCall(j) ==
    \E i \in DOMAIN steps :
        steps[i] = Step("observation", executed[j].turn, executed[j].tool)

Observed ==
    /\ pc \notin Ended \union {"executing"} =>
         \A j \in DOMAIN executed : ObservedCall(j)
    /\ pc = "executing" =>
         \A j \in DOMAIN executed : j < Len(executed) => ObservedCall(j)

IInv ==
    /\ TypeOK
    /\ LastStep
    /\ ThoughtHasText
    /\ AnswerState
    /\ CallState
    /\ StepCount
    /\ Observed
    /\ StepGrammar
    /\ ToolFidelity
    /\ BudgetKept
    /\ AnswerIsEarned
    /\ PromptIsClosed

-----------------------------------------------------------------------------

\* What AddStep does to the list of steps and the state it belongs to.
LEMMA AddStepFacts ==
    ASSUME TypeOK,
           NEW type \in {"thought", "action", "observation", "final_answer"},
           NEW of \in Nat, NEW tool \in Tools \union {NoTool},
           AddStep(Step(type, of, tool))
    PROVE  /\ pc' = type
           /\ finalAnswer' = IF type = "final_answer" THEN of ELSE finalAnswer
           /\ steps' \in Seq(Steps)
           /\ Len(steps') = Len(steps) + 1
           /\ Len(steps) \in Nat
           /\ steps' # << >>
           /\ Last(steps') = Step(type, of, tool)
           /\ Last(steps').type = type /\ Last(steps').of = of /\ Last(steps').tool = tool
           /\ steps'[Len(steps) + 1] = Last(steps')
           /\ \A i \in DOMAIN steps : i \in DOMAIN steps' /\ steps'[i] = steps[i]
           /\ DOMAIN steps' = 1..(Len(steps) + 1)
           /\ DOMAIN steps = 1..Len(steps)
  <1>1. Step(type, of, tool) \in Steps
    BY DEF Step, Steps
  <1>2. steps' = Append(steps, Step(type, of, tool)) /\ steps \in Seq(Steps)
    BY DEF AddStep, TypeOK
  <1>3. /\ steps' \in Seq(Steps) /\ Len(steps') = Len(steps) + 1 /\ Len(steps) \in Nat
        /\ steps' # << >> /\ steps'[Len(steps) + 1] = Step(type, of, tool)
        /\ \A i \in DOMAIN steps : i \in DOMAIN steps' /\ steps'[i] = steps[i]
        /\ DOMAIN steps' = 1..(Len(steps) + 1) /\ DOMAIN steps = 1..Len(steps)
    BY <1>1, <1>2, AppendProperties
  <1>4. Last(steps') = Step(type, of, tool)
    BY <1>3 DEF Last
  <1>5. pc' = type /\ finalAnswer' = IF type = "final_answer" THEN of ELSE finalAnswer
    BY DEF AddStep, Step
  <1>6. QED
    BY <1>3, <1>4, <1>5 DEF Step

\* The last step is a step.
LEMMA LastIsStep == TypeOK /\ steps # << >> => Last(steps) \in Steps
  BY DEF TypeOK, Last

\* What CallTool does to the list of calls.
LEMMA CallFacts ==
    ASSUME TypeOK, NEW c \in Calls, executed' = Append(executed, c)
    PROVE  /\ executed' \in Seq(Calls)
           /\ Len(executed') = Len(executed) + 1
           /\ executed' # << >>
           /\ Last(executed') = c
           /\ \A i \in DOMAIN executed : executed'[i] = executed[i]
           /\ DOMAIN executed' = 1..(Len(executed) + 1)
           /\ DOMAIN executed = 1..Len(executed)
           /\ Len(executed) \in Nat
  BY AppendProperties DEF TypeOK, Last

\* The calls made are calls.
LEMMA CallsAreCalls ==
    TypeOK => \A i \in DOMAIN executed : executed[i].turn \in Nat /\ executed[i].tool \in Tools
  <1> SUFFICES ASSUME TypeOK, NEW i \in DOMAIN executed
               PROVE  executed[i] \in Calls
    BY DEF Calls
  <1>1. executed \in Seq(Calls)
    BY DEF TypeOK
  <1>2. QED
    BY <1>1

\* The initial state satisfies the inductive invariant.
LEMMA InitInvariant == Init => IInv
  <1> SUFFICES ASSUME Init PROVE IInv
    OBVIOUS
  <1> USE BoundsAssumption, ToolsAssumption DEF Init
  <1>1. TypeOK
    <2>1. DOMAIN prompt = {}
      BY EmptySeq
    <2>2. steps \in Seq(Steps) /\ asked \in Seq(Tools)
          /\ executed \in Seq(Calls)
      BY EmptySeq
    <2>3. /\ pc \in {"loop"} /\ iteration \in 0..MaxIterations
          /\ finalAnswer \in {NoAnswer} /\ toolCall \in {NoTool}
          /\ received \in 0..MaxChunks
      OBVIOUS
    <2>4. text \in BOOLEAN
      BY Zenon
    <2>5. QED
      BY <2>1, <2>2, <2>3, <2>4 DEF TypeOK
  <1>2. LastStep /\ ThoughtHasText /\ AnswerState /\ StepCount
    BY DEF LastStep, ThoughtHasText, AnswerState, StepCount
  <1>3. CallState /\ Observed
    BY DEF CallState, Observed
  <1>4. StepGrammar /\ ToolFidelity /\ BudgetKept
    BY DEF StepGrammar, ToolFidelity, BudgetKept
  <1>5. AnswerIsEarned /\ PromptIsClosed
    BY DEF AnswerIsEarned, PromptIsClosed, NoAnswer, Fallback
  <1>6. QED
    BY <1>1, <1>2, <1>3, <1>4, <1>5 DEF IInv

\* The type invariant is preserved by every step.
LEMMA TypeStep ==
    ASSUME IInv, [Next]_vars
    PROVE  TypeOK'
  <1> USE BoundsAssumption, ToolsAssumption DEF IInv, TypeOK, Ended
  <1>1. CASE BeginIteration
    <2>1. DOMAIN prompt' \subseteq DOMAIN steps
          /\ \A i \in DOMAIN prompt' : prompt'[i] = steps[i]
      BY <1>1 DEF BeginIteration, BuildMessages, Restrict
    <2>2. DOMAIN prompt' \subseteq Nat /\ \A i \in DOMAIN prompt' : prompt'[i] \in Steps
      BY <2>1, ElementOfSeq
    <2>3. pc' \in {"streaming"} /\ iteration' \in 0..MaxIterations
          /\ asked' \in Seq(Tools) /\ received' \in 0..MaxChunks
          /\ toolCall' \in {NoTool}
      BY <1>1, EmptySeq DEF BeginIteration, IsDone
    <2>4. text' \in BOOLEAN
      BY <1>1, Zenon DEF BeginIteration
    <2>5. UNCHANGED <<steps, finalAnswer, executed>>
      BY <1>1 DEF BeginIteration
    <2>6. QED
      BY <2>2, <2>3, <2>4, <2>5
  <1>2. ASSUME NEW chunk \in Plain, ReceivePlain(chunk) PROVE TypeOK'
    BY <1>2 DEF ReceivePlain
  <1>3. ASSUME NEW tool \in Tools, ReceiveToolCall(tool) PROVE TypeOK'
    BY <1>3 DEF ReceiveToolCall
  <1>4. CASE EndOfStream
    <2>1. CASE text /\ AddStep(Step("thought", iteration, NoTool))
      BY <1>4, <2>1, AddStepFacts DEF EndOfStream, response
    <2>2. CASE toolCall # NoTool /\ AddAction
      BY <1>4, <2>2, AddStepFacts DEF EndOfStream, AddAction, response
    <2>3. CASE pc' = "loop" /\ UNCHANGED <<steps, finalAnswer>>
      BY <1>4, <2>3 DEF EndOfStream, response
    <2>4. QED
      BY <1>4, <2>1, <2>2, <2>3 DEF EndOfStream
  <1>5. CASE ActAfterThought
    BY <1>5, AddStepFacts DEF ActAfterThought, AddAction, response
  <1>6. CASE AnswerAfterThought
    BY <1>6, AddStepFacts DEF AnswerAfterThought, response, AnswerState
  <1>7. CASE CallTool
    BY <1>7, CallFacts DEF CallTool, response, LastStep, Calls
  <1>8. CASE ToolReturns
    BY <1>8, AddStepFacts DEF ToolReturns, response
  <1>9. CASE GiveUp
    BY <1>9, AddStepFacts DEF GiveUp, response, Fallback
  <1>10. CASE Return \/ LlmFails \/ Abandon
    BY <1>10 DEF Return, LlmFails, Abandon, response
  <1>11. CASE Terminated \/ UNCHANGED vars
    BY <1>11 DEF Terminated, vars
  <1>12. QED
    BY <1>1, <1>2, <1>3, <1>4, <1>5, <1>6, <1>7, <1>8, <1>9, <1>10, <1>11
    DEF Next, Proceed, Stream

\* The last step matches the suspension point after every step.
LEMMA LastStepStep ==
    ASSUME IInv, [Next]_vars
    PROVE  LastStep'
  <1> USE LastIsStep, BoundsAssumption, ToolsAssumption DEF IInv, TypeOK, Ended, NoAnswer, Fallback, Steps, LastStep
  <1>1. CASE BeginIteration
    BY <1>1 DEF BeginIteration, AtLoopHead, IsDone
  <1>2. ASSUME NEW chunk \in Plain, ReceivePlain(chunk) PROVE LastStep'
    BY <1>2 DEF ReceivePlain
  <1>3. ASSUME NEW tool \in Tools, ReceiveToolCall(tool) PROVE LastStep'
    BY <1>3 DEF ReceiveToolCall
  <1>4. CASE EndOfStream
    <2>1. CASE text /\ AddStep(Step("thought", iteration, NoTool))
      BY <1>4, <2>1, AddStepFacts DEF EndOfStream, response
    <2>2. CASE toolCall # NoTool /\ AddAction
      BY <1>4, <2>2, AddStepFacts DEF EndOfStream, AddAction, response
    <2>3. CASE ~text /\ toolCall = NoTool /\ pc' = "loop" /\ UNCHANGED <<steps, finalAnswer>>
      BY <1>4, <2>3 DEF EndOfStream, response
    <2>4. QED
      BY <1>4, <2>1, <2>2, <2>3 DEF EndOfStream
  <1>5. CASE ActAfterThought
    BY <1>5, AddStepFacts DEF ActAfterThought, AddAction, response
  <1>6. CASE AnswerAfterThought
    BY <1>6, AddStepFacts DEF AnswerAfterThought, response
  <1>7. CASE CallTool
    BY <1>7, CallFacts DEF CallTool, response, Calls
  <1>8. CASE ToolReturns
    BY <1>8, AddStepFacts DEF ToolReturns, response
  <1>9. CASE GiveUp
    BY <1>9, AddStepFacts DEF GiveUp, AtLoopHead, IsDone, response
  <1>10. CASE Return \/ LlmFails \/ Abandon
    BY <1>10 DEF Return, LlmFails, Abandon, response
  <1>11. CASE Terminated \/ UNCHANGED vars
    BY <1>11 DEF Terminated, vars
  <1>12. QED
    BY <1>1, <1>2, <1>3, <1>4, <1>5, <1>6, <1>7, <1>8, <1>9, <1>10, <1>11
    DEF Next, Proceed, Stream

\* The generator is suspended at a thought only if the response had text.
LEMMA ThoughtStep ==
    ASSUME IInv, [Next]_vars
    PROVE  ThoughtHasText'
  <1>1. CASE EndOfStream
    BY <1>1 DEF EndOfStream, AddAction, AddStep, Step, response, ThoughtHasText
  <1>2. CASE \/ BeginIteration \/ ActAfterThought \/ AnswerAfterThought \/ CallTool
             \/ ToolReturns \/ GiveUp \/ Return \/ LlmFails \/ Abandon
    BY <1>2 DEF BeginIteration, ActAfterThought, AnswerAfterThought, CallTool, ToolReturns,
                GiveUp, Return, LlmFails, Abandon, AddAction, AddStep, Step, ThoughtHasText
  <1>3. CASE Terminated \/ UNCHANGED vars
    BY <1>3, Zenon DEF Terminated, vars, IInv, ThoughtHasText
  <1>4. CASE Stream
    BY <1>1, <1>4 DEF Stream, ReceivePlain, ReceiveToolCall, ThoughtHasText
  <1>5. QED
    BY <1>2, <1>3, <1>4 DEF Next, Proceed

\* There is an answer exactly from the final step on.
LEMMA AnswerStateStep ==
    ASSUME IInv, [Next]_vars
    PROVE  AnswerState'
  <1> USE BoundsAssumption, ToolsAssumption DEF IInv, TypeOK, Ended, NoAnswer, Fallback, AnswerState, LastStep
  <1>1. CASE BeginIteration
    BY <1>1 DEF BeginIteration, AtLoopHead, IsDone
  <1>2. ASSUME NEW chunk \in Plain, ReceivePlain(chunk) PROVE AnswerState'
    BY <1>2 DEF ReceivePlain
  <1>3. ASSUME NEW tool \in Tools, ReceiveToolCall(tool) PROVE AnswerState'
    BY <1>3 DEF ReceiveToolCall
  <1>4. CASE EndOfStream
    <2>1. CASE text /\ AddStep(Step("thought", iteration, NoTool))
      BY <1>4, <2>1, AddStepFacts DEF EndOfStream, response
    <2>2. CASE toolCall # NoTool /\ AddAction
      BY <1>4, <2>2, AddStepFacts DEF EndOfStream, AddAction, response
    <2>3. CASE ~text /\ toolCall = NoTool /\ pc' = "loop" /\ UNCHANGED <<steps, finalAnswer>>
      BY <1>4, <2>3 DEF EndOfStream, response
    <2>4. QED
      BY <1>4, <2>1, <2>2, <2>3 DEF EndOfStream
  <1>5. CASE ActAfterThought
    BY <1>5, AddStepFacts DEF ActAfterThought, AddAction, response
  <1>6. CASE AnswerAfterThought
    BY <1>6, AddStepFacts DEF AnswerAfterThought, response
  <1>7. CASE CallTool
    BY <1>7, CallFacts DEF CallTool, response, Calls
  <1>8. CASE ToolReturns
    BY <1>8, AddStepFacts DEF ToolReturns, response
  <1>9. CASE GiveUp
    BY <1>9, AddStepFacts DEF GiveUp, AtLoopHead, IsDone, response
  <1>10. CASE Return \/ LlmFails \/ Abandon
    BY <1>10 DEF Return, LlmFails, Abandon, response
  <1>11. CASE Terminated \/ UNCHANGED vars
    BY <1>11 DEF Terminated, vars
  <1>12. QED
    BY <1>1, <1>2, <1>3, <1>4, <1>5, <1>6, <1>7, <1>8, <1>9, <1>10, <1>11
    DEF Next, Proceed, Stream

-----------------------------------------------------------------------------
\* The other parts of the invariant only look at what a step does to the lists
\* and to the counters, which StepKinds sums up.

\* A step that adds the given step, from the given suspension points.
Adds(from, type, of, tool) ==
    /\ pc \in from
    /\ AddStep(Step(type, of, tool))
    /\ UNCHANGED <<iteration, response, executed, prompt>>

\* A step that leaves the lists and the counters alone.
Moves == UNCHANGED <<iteration, steps, finalAnswer, executed, prompt>>

\* A step of the loop begins an iteration, receives a chunk, adds one of the
\* four kinds of steps, calls a tool, or only moves the generator.
LEMMA StepKinds ==
    ASSUME IInv, [Next]_vars
    PROVE  \/ BeginIteration
           \/ \E chunk \in Plain : ReceivePlain(chunk)
           \/ \E tool \in Tools : ReceiveToolCall(tool)
           \/ Adds({"streaming"}, "thought", iteration, NoTool)
           \/ toolCall # NoTool /\ Adds({"streaming", "thought"}, "action", iteration, toolCall)
           \/ toolCall = NoTool /\ Adds({"thought"}, "final_answer", iteration, NoTool)
           \/ Adds({"executing"}, "observation", iteration, toolCall)
           \/ AtLoopHead /\ IsDone /\ finalAnswer = NoAnswer
              /\ Adds({"loop", "observation"}, "final_answer", Fallback, NoTool)
           \/ CallTool
           \/ pc = "streaming" /\ toolCall = NoTool /\ pc' = "loop"
              /\ Moves /\ UNCHANGED response
           \/ pc' \in Ended /\ Moves /\ UNCHANGED response
              /\ (pc' = "returned" => finalAnswer # NoAnswer)
           \/ UNCHANGED vars
  <1> USE DEF Adds, Moves
  <1>1. CASE EndOfStream
    BY <1>1 DEF EndOfStream, AddAction
  <1>2. CASE ActAfterThought \/ AnswerAfterThought
    BY <1>2 DEF ActAfterThought, AnswerAfterThought, AddAction
  <1>3. CASE ToolReturns
    BY <1>3 DEF ToolReturns
  <1>4. CASE GiveUp
    BY <1>4 DEF GiveUp, AtLoopHead
  <1>5. CASE Return \/ LlmFails \/ Abandon
    BY <1>5 DEF Return, LlmFails, Abandon, Ended, IInv, AnswerState
  <1>6. CASE Terminated \/ UNCHANGED vars
    BY <1>6 DEF Terminated
  <1>7. QED
    BY <1>1, <1>2, <1>3, <1>4, <1>5, <1>6 DEF Next, Proceed, Stream

\* What the invariant says of the counters.
LEMMA Counters ==
    IInv => /\ iteration \in Nat /\ Len(steps) \in Nat /\ Len(executed) \in Nat
            /\ toolCall \in Tools \union {NoTool}
            /\ NoTool \in Tools \union {NoTool}
            /\ Fallback \in Nat
  BY BoundsAssumption DEF IInv, TypeOK, Fallback

\* The pending call and the calls made match the suspension point.
LEMMA CallStateStep ==
    ASSUME IInv, [Next]_vars
    PROVE  CallState'
  <1> USE Counters, ToolsAssumption DEF CallState, IInv
  <1>1. CASE BeginIteration
    <2>1. ASSUME NEW i \in DOMAIN executed
          PROVE  executed[i].turn < iteration + 1 /\ executed[i].turn <= iteration + 1
      <3>1. executed[i].turn \in Nat /\ executed[i].turn <= iteration
        BY CallsAreCalls
      <3>2. QED
        BY <3>1
    <2>2. QED
      BY <1>1, <2>1 DEF BeginIteration
  <1>2. CASE \E chunk \in Plain : ReceivePlain(chunk)
    BY <1>2 DEF ReceivePlain
  <1>3. ASSUME NEW tool \in Tools, ReceiveToolCall(tool) PROVE CallState'
    <2>1. asked' # << >> /\ Last(asked') = tool
      BY <1>3, AppendProperties DEF ReceiveToolCall, Last, TypeOK
    <2>2. QED
      BY <1>3, <2>1 DEF ReceiveToolCall
  <1>4. ASSUME NEW type \in {"thought", "action", "observation", "final_answer"},
               pc' = type, UNCHANGED <<iteration, response, executed>>,
               type = "thought" => pc = "streaming",
               type = "action" => pc \in {"streaming", "thought"},
               type = "observation" => pc = "executing"
        PROVE  CallState'
    BY <1>4 DEF response
  <1>5. CASE CallTool
    <2>1. toolCall \in Tools
      BY <1>5 DEF CallTool, LastStep
    <2>2. /\ Last(executed') = [turn |-> iteration, tool |-> toolCall] /\ executed' # << >>
          /\ DOMAIN executed' = 1..(Len(executed) + 1) /\ DOMAIN executed = 1..Len(executed)
          /\ \A i \in DOMAIN executed : executed'[i] = executed[i]
          /\ executed'[Len(executed) + 1] = Last(executed')
      BY <1>5, <2>1, CallFacts DEF CallTool, Last, Calls
    <2>3. \A i \in DOMAIN executed' : executed'[i].turn <= iteration
      BY <2>2
    <2>4. pc' = "executing" /\ UNCHANGED <<iteration, toolCall, asked>>
      BY <1>5 DEF CallTool, response
    <2>5. QED
      BY <2>2, <2>3, <2>4
  <1>6. CASE pc' \in {"loop"} \union Ended /\ Moves /\ UNCHANGED response
             /\ (pc' = "loop" => pc = "streaming" /\ toolCall = NoTool)
    <2>1. pc' = "loop" => asked = << >>
      <3>1. asked # << >> => Last(asked) \in Tools
        BY DEF Last, TypeOK
      <3>2. QED
        BY <1>6, <3>1
    <2>2. QED
      BY <1>6, <2>1 DEF Moves, response, Ended
  <1>7. CASE UNCHANGED vars
    BY <1>7 DEF vars
  <1>8. QED
    BY <1>1, <1>2, <1>3, <1>4, <1>5, <1>6, <1>7, StepKinds, AddStepFacts DEF Adds, Ended

\* Each iteration adds three steps and one call at most.
LEMMA StepCountStep ==
    ASSUME IInv, [Next]_vars
    PROVE  StepCount' /\ BudgetKept'
  <1> USE Counters DEF StepCount, BudgetKept, IInv
  <1>1. CASE BeginIteration
    <2>1. iteration' = iteration + 1 /\ iteration < MaxIterations
      BY <1>1, BoundsAssumption DEF BeginIteration, IsDone, TypeOK
    <2>2. iteration' <= MaxIterations
      BY <2>1, BoundsAssumption
    <2>3. \A i, c, n \in Nat : c <= i /\ n <= 3 * i =>
            /\ c < i + 1 /\ c <= i + 1
            /\ n <= 3 * (i + 1) - 3 /\ n <= 3 * (i + 1) + 1
      OBVIOUS
    <2>4. Len(executed) <= iteration /\ Len(steps) <= 3 * iteration
      BY <1>1 DEF BeginIteration, AtLoopHead
    <2>5. pc' = "streaming" /\ executed' = executed /\ steps' = steps
      BY <1>1 DEF BeginIteration
    <2>6. QED
      BY <2>1, <2>2, <2>3, <2>4, <2>5
  <1>2. CASE \E chunk \in Plain : ReceivePlain(chunk)
    BY <1>2 DEF ReceivePlain
  <1>3. CASE \E tool \in Tools : ReceiveToolCall(tool)
    BY <1>3 DEF ReceiveToolCall
  <1>4. CASE Adds({"streaming"}, "thought", iteration, NoTool)
    BY <1>4, AddStepFacts DEF Adds
  <1>5. CASE Adds({"streaming", "thought"}, "action", iteration, toolCall)
    BY <1>5, AddStepFacts DEF Adds
  <1>6. CASE Adds({"executing"}, "observation", iteration, toolCall)
    BY <1>6, AddStepFacts DEF Adds
  <1>7. CASE Adds({"loop", "observation"}, "final_answer", Fallback, NoTool)
             \/ Adds({"thought"}, "final_answer", iteration, NoTool)
    BY <1>7, AddStepFacts DEF Adds
  <1>8. CASE CallTool
    <2>1. Len(executed') = Len(executed) + 1
      BY <1>8, CallFacts DEF CallTool, LastStep, Calls
    <2>2. QED
      BY <1>8, <2>1 DEF CallTool
  <1>9. CASE pc' \in Ended /\ Moves
    BY <1>9 DEF Moves, Ended
  <1>10. CASE pc = "streaming" /\ pc' = "loop" /\ Moves
    BY <1>10 DEF Moves
  <1>11. CASE UNCHANGED vars
    BY <1>11 DEF vars
  <1>12. QED
    BY <1>1, <1>2, <1>3, <1>4, <1>5, <1>6, <1>7, <1>8, <1>9, <1>10, <1>11, StepKinds

\* Every call that returned has been observed: the observation of a call stays
\* where it is, and the pending call is the last one.
LEMMA ObservedStep ==
    ASSUME IInv, [Next]_vars
    PROVE  Observed'
  <1> USE Counters DEF Observed, ObservedCall, IInv
  <1>1. CASE UNCHANGED <<steps, executed>> /\ pc' # "executing"
             /\ (pc \in Ended \union {"executing"} => pc' \in Ended)
    BY <1>1
  <1>2. ASSUME NEW type \in {"thought", "action", "final_answer"}, NEW of \in Nat,
               NEW tool \in Tools \union {NoTool},
               AddStep(Step(type, of, tool)), pc \notin Ended \union {"executing"},
               UNCHANGED executed
        PROVE  Observed'
    <2>1. \A j \in DOMAIN executed : ObservedCall(j)
      BY <1>2
    <2>2. \A i \in DOMAIN steps : i \in DOMAIN steps' /\ steps'[i] = steps[i]
      BY <1>2, AddStepFacts
    <2>3. pc' = type
      BY <1>2, AddStepFacts
    <2>4. QED
      BY <1>2, <2>1, <2>2, <2>3 DEF Ended
  <1>3. CASE Adds({"executing"}, "observation", iteration, toolCall)
    <2>1. \A i \in DOMAIN steps : i \in DOMAIN steps' /\ steps'[i] = steps[i]
      BY <1>3, AddStepFacts DEF Adds
    <2>2. /\ pc' = "observation" /\ Len(steps) + 1 \in DOMAIN steps'
          /\ steps'[Len(steps) + 1] = Step("observation", iteration, toolCall)
      BY <1>3, AddStepFacts DEF Adds
    <2>3. executed[Len(executed)] = [turn |-> iteration, tool |-> toolCall]
          /\ DOMAIN executed = 1..Len(executed)
      BY <1>3 DEF Adds, CallState, Last, TypeOK
    <2>4. \A j \in DOMAIN executed : j < Len(executed) => ObservedCall(j)
      BY <1>3 DEF Adds
    <2>5. ASSUME NEW j \in DOMAIN executed PROVE ObservedCall(j)'
      <3>1. CASE j < Len(executed)
        BY <1>3, <2>1, <2>4, <3>1 DEF Adds
      <3>2. CASE j = Len(executed)
        BY <1>3, <2>2, <2>3, <3>2 DEF Adds
      <3>3. QED
        BY <2>3, <3>1, <3>2
    <2>6. QED
      BY <1>3, <2>2, <2>5 DEF Adds, Ended
  <1>4. CASE CallTool
    <2>1. /\ DOMAIN executed' = 1..(Len(executed) + 1) /\ DOMAIN executed = 1..Len(executed)
          /\ Len(executed') = Len(executed) + 1
          /\ \A j \in DOMAIN executed : executed'[j] = executed[j]
      BY <1>4, CallFacts DEF CallTool, LastStep, Calls
    <2>2. pc = "action" /\ pc' = "executing" /\ steps' = steps
      BY <1>4 DEF CallTool
    <2>3. \A j \in DOMAIN executed : ObservedCall(j)
      BY <2>2 DEF Ended
    <2>4. QED
      BY <2>1, <2>2, <2>3 DEF Ended
  <1>5. CASE BeginIteration
    BY <1>1, <1>5 DEF BeginIteration, AtLoopHead, Ended
  <1>6. CASE (\E chunk \in Plain : ReceivePlain(chunk)) \/ \E tool \in Tools : ReceiveToolCall(tool)
    BY <1>1, <1>6 DEF ReceivePlain, ReceiveToolCall
  <1>7. CASE UNCHANGED vars
    BY <1>7 DEF vars
  <1>8. QED
    BY <1>1, <1>2, <1>3, <1>4, <1>5, <1>6, <1>7, StepKinds DEF Adds, Moves, Ended

\* Appending a step that may follow the last one keeps the grammar.
LEMMA GrammarExtends ==
    ASSUME TypeOK, StepGrammar,
           NEW type \in {"thought", "action", "observation", "final_answer"},
           NEW of \in Nat, NEW tool \in Tools \union {NoTool},
           AddStep(Step(type, of, tool)),
           steps # << >> => MayFollow(Last(steps), Step(type, of, tool)),
           steps = << >> => type # "observation" /\ (type = "final_answer" => of = Fallback)
    PROVE  StepGrammar'
  <1>1. /\ Len(steps') = Len(steps) + 1 /\ Len(steps) \in Nat
        /\ \A i \in DOMAIN steps : steps'[i] = steps[i]
        /\ steps'[Len(steps) + 1] = Step(type, of, tool)
        /\ DOMAIN steps = 1..Len(steps)
    BY AddStepFacts
  <1>2. ASSUME NEW i \in 1..(Len(steps') - 1) PROVE MayFollow(steps'[i], steps'[i + 1])
    <2>1. CASE i < Len(steps)
      <3>1. i \in 1..(Len(steps) - 1) /\ steps'[i] = steps[i] /\ steps'[i + 1] = steps[i + 1]
        BY <1>1, <2>1
      <3>2. QED
        BY <3>1 DEF StepGrammar
    <2>2. CASE i = Len(steps)
      <3>1. steps # << >> /\ steps'[i] = Last(steps) /\ steps'[i + 1] = Step(type, of, tool)
        BY <1>1, <2>2 DEF Last
      <3>2. QED
        BY <3>1
    <2>3. i < Len(steps) \/ i = Len(steps)
      <3>1. Len(steps') - 1 = Len(steps) /\ Len(steps) \in Nat
        BY <1>1
      <3>2. i \in 1..Len(steps)
        BY <3>1
      <3>3. QED
        BY <3>1, <3>2
    <2>4. QED
      BY <2>1, <2>2, <2>3
  <1>3. steps'[1].type # "observation"
        /\ (steps'[1].type = "final_answer" => steps'[1].of = Fallback)
    <2>1. CASE steps = << >>
      BY <1>1, <2>1 DEF Step
    <2>2. CASE steps # << >>
      <3>1. Len(steps) > 0
        BY <2>2 DEF TypeOK
      <3>2. steps'[1] = steps[1]
        BY <1>1, <3>1
      <3>3. QED
        BY <3>1, <3>2 DEF StepGrammar
    <2>3. QED
      BY <2>1, <2>2
  <1>4. QED
    BY <1>2, <1>3 DEF StepGrammar

\* The grammar of steps is preserved.
LEMMA GrammarStep ==
    ASSUME IInv, [Next]_vars
    PROVE  StepGrammar'
  <1> USE Counters, GrammarExtends DEF IInv, LastStep, MayFollow, Step
  <1>1. CASE UNCHANGED steps
    BY <1>1 DEF StepGrammar
  <1>2. CASE Adds({"streaming"}, "thought", iteration, NoTool)
    BY <1>2 DEF Adds
  <1>3. CASE Adds({"streaming", "thought"}, "action", iteration, toolCall)
    BY <1>3 DEF Adds
  <1>4. CASE Adds({"executing"}, "observation", iteration, toolCall)
    BY <1>4 DEF Adds
  <1>5. CASE Adds({"thought"}, "final_answer", iteration, NoTool)
    BY <1>5 DEF Adds
  <1>6. CASE Adds({"loop", "observation"}, "final_answer", Fallback, NoTool)
    BY <1>6 DEF Adds
  <1>7. QED
    BY <1>1, <1>2, <1>3, <1>4, <1>5, <1>6, StepKinds
    DEF Moves, BeginIteration, ReceivePlain, ReceiveToolCall, CallTool, vars

\* The calls made are the last ones the responses asked for, once each.
LEMMA FidelityStep ==
    ASSUME IInv, [Next]_vars
    PROVE  ToolFidelity'
  <1> USE Counters DEF ToolFidelity, AtLoopHead, IInv
  <1>1. CASE UNCHANGED executed /\ pc' \notin {"loop", "observation"}
    BY <1>1
  <1>2. CASE pc' = "loop" /\ UNCHANGED executed
    \* The generator is at the loop head without an observation only when the
    \* response asked for nothing.
    BY <1>2, CallStateStep DEF CallState
  <1>3. CASE Adds({"executing"}, "observation", iteration, toolCall)
    <2>1. steps' # << >> /\ Last(steps').tool = toolCall
      BY <1>3, AddStepFacts DEF Adds
    <2>2. executed # << >> /\ Last(executed) = [turn |-> iteration, tool |-> toolCall]
      BY <1>3 DEF Adds, CallState
    <2>3. asked # << >> => toolCall = Last(asked)
      BY DEF CallState
    <2>4. UNCHANGED <<iteration, asked, executed>>
      BY <1>3 DEF Adds, response
    <2>5. QED
      BY <2>1, <2>2, <2>3, <2>4
  <1>4. CASE CallTool
    <2>1. /\ Last(executed') = [turn |-> iteration, tool |-> toolCall]
          /\ DOMAIN executed' = 1..(Len(executed) + 1) /\ DOMAIN executed = 1..Len(executed)
          /\ Len(executed') = Len(executed) + 1
          /\ \A j \in DOMAIN executed : executed'[j] = executed[j]
      BY <1>4, CallFacts DEF CallTool, LastStep, Calls
    <2>2. \A j \in DOMAIN executed : executed[j].turn < iteration
      BY <1>4 DEF CallTool, CallState
    <2>3. executed'[Len(executed) + 1].turn = iteration
      BY <2>1 DEF Last
    <2>4. ASSUME NEW i \in DOMAIN executed', NEW j \in DOMAIN executed', i < j
          PROVE  executed'[i].turn < executed'[j].turn
      <3>1. i \in DOMAIN executed /\ (j \in DOMAIN executed \/ j = Len(executed) + 1)
        BY <2>1, <2>4
      <3>2. QED
        BY <2>1, <2>2, <2>3, <2>4, <3>1
    <2>5. pc' = "executing"
      BY <1>4 DEF CallTool
    <2>6. QED
      BY <2>4, <2>5
  <1>5. CASE UNCHANGED vars
    BY <1>5 DEF vars
  <1>6. CASE \/ Adds({"streaming"}, "thought", iteration, NoTool)
             \/ Adds({"streaming", "thought"}, "action", iteration, toolCall)
             \/ Adds({"thought"}, "final_answer", iteration, NoTool)
             \/ Adds({"loop", "observation"}, "final_answer", Fallback, NoTool)
    <2>1. pc' \in {"thought", "action", "final_answer"} /\ UNCHANGED executed
      BY <1>6, AddStepFacts DEF Adds
    <2>2. QED
      BY <1>1, <2>1
  <1>7. CASE BeginIteration
    BY <1>1, <1>7 DEF BeginIteration
  <1>8. CASE (\E chunk \in Plain : ReceivePlain(chunk)) \/ \E tool \in Tools : ReceiveToolCall(tool)
    BY <1>1, <1>8 DEF ReceivePlain, ReceiveToolCall
  <1>9. CASE pc' \in Ended /\ Moves
    BY <1>1, <1>9 DEF Moves, Ended
  <1>10. QED
    BY <1>2, <1>3, <1>4, <1>5, <1>6, <1>7, <1>8, <1>9, StepKinds DEF Moves

\* The answer is earned.
LEMMA AnswerStep ==
    ASSUME IInv, [Next]_vars
    PROVE  AnswerIsEarned'
  <1> USE Counters DEF AnswerIsEarned, IInv
  <1>1. CASE finalAnswer' = NoAnswer /\ pc' # "returned"
    BY <1>1 DEF NoAnswer, Fallback
  <1>2. CASE toolCall = NoTool /\ Adds({"thought"}, "final_answer", iteration, NoTool)
    <2>1. iteration > 0 /\ text /\ asked = << >>
      <3>1. asked # << >> => Last(asked) \in Tools
        BY DEF Last, TypeOK
      <3>2. QED
        BY <1>2, <3>1, ToolsAssumption DEF Adds, AnswerState, ThoughtHasText, CallState
    <2>2. \A i \in DOMAIN executed : executed[i].turn < iteration
      BY <1>2 DEF Adds, CallState
    <2>3. /\ finalAnswer' = iteration /\ steps' # << >> /\ Last(steps').of = iteration
          /\ UNCHANGED <<iteration, text, asked, executed>> /\ pc' = "final_answer"
      BY <1>2, AddStepFacts DEF Adds, response
    <2>4. QED
      BY <2>1, <2>2, <2>3 DEF NoAnswer, Fallback
  <1>3. CASE AtLoopHead /\ IsDone /\ finalAnswer = NoAnswer
             /\ Adds({"loop", "observation"}, "final_answer", Fallback, NoTool)
    <2>1. iteration = MaxIterations
      BY <1>3, BoundsAssumption DEF IsDone, TypeOK
    <2>2. /\ finalAnswer' = Fallback /\ steps' # << >> /\ Last(steps').of = Fallback
          /\ UNCHANGED iteration /\ pc' = "final_answer"
      BY <1>3, AddStepFacts DEF Adds
    <2>3. QED
      BY <2>1, <2>2 DEF NoAnswer, Fallback
  <1>4. CASE pc' \in Ended /\ Moves /\ UNCHANGED response
             /\ (pc' = "returned" => finalAnswer # NoAnswer)
    BY <1>4 DEF Moves, response
  <1>5. CASE UNCHANGED vars
    BY <1>5 DEF vars
  <1>6. CASE \/ Adds({"streaming"}, "thought", iteration, NoTool)
             \/ Adds({"streaming", "thought"}, "action", iteration, toolCall)
             \/ Adds({"executing"}, "observation", iteration, toolCall)
    <2>1. pc' \in {"thought", "action", "observation"} /\ finalAnswer' = finalAnswer
      BY <1>6, AddStepFacts DEF Adds
    <2>2. finalAnswer = NoAnswer
      BY <1>6 DEF Adds, AnswerState
    <2>3. QED
      BY <1>1, <2>1, <2>2
  <1>7. CASE BeginIteration \/ CallTool
             \/ (pc = "streaming" /\ pc' = "loop" /\ Moves)
    BY <1>1, <1>7 DEF BeginIteration, CallTool, AtLoopHead, Moves, AnswerState
  <1>8. CASE (\E chunk \in Plain : ReceivePlain(chunk)) \/ \E tool \in Tools : ReceiveToolCall(tool)
    BY <1>1, <1>8 DEF ReceivePlain, ReceiveToolCall, AnswerState
  <1>9. QED
    BY <1>2, <1>3, <1>4, <1>5, <1>6, <1>7, <1>8, StepKinds

\* A request is made only when the last step, if there is one, is an
\* observation, so that it replays every step and whole rounds.
LEMMA PromptStep ==
    ASSUME IInv, [Next]_vars
    PROVE  PromptIsClosed'
  <1> USE DEF IInv
  <1>1. CASE UNCHANGED prompt /\ pc' # "streaming"
    BY <1>1 DEF PromptIsClosed
  <1>2. CASE BeginIteration
    <2>1. /\ prompt' = Restrict(steps, {i \in DOMAIN steps : steps[i].type # "final_answer"})
          /\ pc \in {"loop", "observation"} /\ UNCHANGED executed
      BY <1>2 DEF BeginIteration, BuildMessages, AtLoopHead
    <2>2. \A i \in DOMAIN prompt' : i \in DOMAIN steps /\ prompt'[i] = steps[i]
      BY <2>1 DEF Restrict
    <2>3. \A i \in DOMAIN steps : steps[i].type # "final_answer" =>
             i \in DOMAIN prompt' /\ prompt'[i] = steps[i]
      BY <2>1 DEF Restrict
    <2>4. ASSUME NEW i \in DOMAIN prompt', prompt'[i].type = "action"
          PROVE  /\ i + 1 \in DOMAIN prompt'
                 /\ prompt'[i + 1] = Step("observation", prompt'[i].of, prompt'[i].tool)
      <3>1. i \in 1..Len(steps) /\ steps[i].type = "action"
        BY <2>2, <2>4 DEF TypeOK
      <3>2. i # Len(steps)
        BY <2>1, <3>1 DEF LastStep, Last
      <3>3. i \in 1..(Len(steps) - 1) /\ i + 1 \in DOMAIN steps
        BY <3>1, <3>2 DEF TypeOK
      <3>4. MayFollow(steps[i], steps[i + 1])
        BY <3>3 DEF StepGrammar
      <3>5. steps[i + 1] \in Steps
        <4>1. steps \in Seq(Steps)
          BY DEF TypeOK
        <4>2. QED
          BY <3>3, <4>1
      <3>6. steps[i + 1] = Step("observation", steps[i].of, steps[i].tool)
        BY <3>1, <3>4, <3>5 DEF MayFollow, Steps, Step
      <3>7. i + 1 \in DOMAIN prompt' /\ prompt'[i + 1] = steps[i + 1]
        BY <2>3, <3>3, <3>6 DEF Step
      <3>8. QED
        BY <2>2, <2>4, <3>6, <3>7
    <2>5. ASSUME NEW j \in DOMAIN executed
          PROVE  \E i \in DOMAIN prompt' :
                    prompt'[i] = Step("observation", executed[j].turn, executed[j].tool)
      <3>1. PICK i \in DOMAIN steps :
               steps[i] = Step("observation", executed[j].turn, executed[j].tool)
        BY <2>1 DEF Observed, ObservedCall, Ended
      <3>2. i \in DOMAIN prompt' /\ prompt'[i] = steps[i]
        BY <2>3, <3>1 DEF Step
      <3>3. QED
        BY <3>1, <3>2
    <2>6. QED
      BY <2>1, <2>4, <2>5 DEF PromptIsClosed
  <1>3. CASE UNCHANGED <<prompt, pc, executed>>
    BY <1>3 DEF PromptIsClosed
  <1>4. CASE \E type \in {"thought", "action", "observation", "final_answer"} :
               \E of \in Nat, tool \in Tools \union {NoTool} :
                 UNCHANGED prompt /\ AddStep(Step(type, of, tool))
    BY <1>1, <1>4 DEF AddStep, Step
  <1>5. CASE CallTool \/ (Moves /\ pc' \in Ended \union {"loop"})
    BY <1>1, <1>5 DEF CallTool, Moves, Ended
  <1>6. QED
    BY <1>2, <1>3, <1>4, <1>5, StepKinds, Counters
    DEF Adds, Moves, ReceivePlain, ReceiveToolCall, vars

-----------------------------------------------------------------------------

LEMMA NextInvariant == IInv /\ [Next]_vars => IInv'
  BY TypeStep, LastStepStep, ThoughtStep, AnswerStateStep, CallStateStep,
     StepCountStep, ObservedStep, GrammarStep, FidelityStep, AnswerStep, PromptStep
  DEF IInv

\* The inductive invariant holds in every reachable state.
THEOREM Invariance == Spec => []IInv
  BY InitInvariant, NextInvariant, PTL DEF Spec

\* Every state the loop reaches is of the types the code declares.
THEOREM TypeCorrect == Spec => []TypeOK
  BY Invariance, PTL DEF IInv

\* The steps shown to a client are whole rounds in the order of the responses.
THEOREM StepsFollowGrammar == Spec => []StepGrammar
  BY Invariance, PTL DEF IInv

\* A tool runs at most once for a response, and it is the last one asked for.
THEOREM ToolsAreFaithful == Spec => []ToolFidelity
  BY Invariance, PTL DEF IInv

\* The responses, tools and steps of a run are bounded by MaxIterations.
THEOREM BudgetIsKept == Spec => []BudgetKept
  BY Invariance, PTL DEF IInv

\* The answer is the text of a response without a call, or the fallback after
\* the last iteration.
THEOREM AnswersAreEarned == Spec => []AnswerIsEarned
  BY Invariance, PTL DEF IInv

\* Every request to the model replays whole rounds and all observations.
THEOREM PromptsAreClosed == Spec => []PromptIsClosed
  BY Invariance, PTL DEF IInv

-----------------------------------------------------------------------------

\* A turn that has made no call yet may make one.
LEMMA NoCallYet ==
    IInv /\ pc \in {"streaming", "thought", "action"} =>
      /\ iteration > 0 /\ finalAnswer = NoAnswer
      /\ \A i \in DOMAIN executed : executed[i].turn < iteration
  BY DEF IInv, AnswerState, CallState

\* The loop implements the abstract run: a step of the loop is a step of the
\* run or leaves what the run describes unchanged.
THEOREM LoopImplementsRun == Spec => ImplementsRun
  <1> USE DEF Run!NoAnswer, Run!Fallback, NoAnswer, Fallback, Ended
  <1>1. Init => Run!Init
    BY DEF Init, Run!Init
  <1>2. IInv /\ [Next]_vars => [Run!Next]_(Run!vars)
    <2> SUFFICES ASSUME IInv, [Next]_vars
                 PROVE  Run!Next \/ UNCHANGED Run!vars
      BY DEF Run!vars
    <2>1. CASE BeginIteration
      BY <2>1, BoundsAssumption
      DEF BeginIteration, AtLoopHead, IsDone, IInv, TypeOK, Run!StartTurn, Run!Next
    <2>2. CASE Stream
      BY <2>2 DEF Stream, ReceivePlain, ReceiveToolCall, EndOfStream, AddAction, AddStep,
                  Step, response, Run!vars
    <2>3. CASE ActAfterThought
      BY <2>3 DEF ActAfterThought, AddAction, AddStep, Step, response, Run!vars
    <2>4. CASE AnswerAfterThought
      BY <2>4, NoCallYet DEF AnswerAfterThought, AddStep, Step, Run!AnswerFromModel, Run!Next
    <2>5. CASE CallTool
      <3>1. toolCall \in Tools
        BY <2>5 DEF CallTool, IInv, LastStep
      <3>2. Run!UseTool
        BY <2>5, <3>1, NoCallYet DEF CallTool, Run!UseTool
      <3>3. QED
        BY <3>2 DEF Run!Next
    <2>6. CASE ToolReturns
      BY <2>6 DEF ToolReturns, AddStep, Step, response, Run!vars
    <2>7. CASE GiveUp
      BY <2>7, BoundsAssumption
      DEF GiveUp, AtLoopHead, IsDone, AddStep, Step, IInv, TypeOK, Run!GiveUp, Run!Next
    <2>8. CASE Return
      BY <2>8 DEF Return, IInv, AnswerState, Run!Finish, Run!Next
    <2>9. CASE LlmFails
      BY <2>9, NoCallYet DEF LlmFails, Run!Fail, Run!Next
    <2>10. CASE Abandon
      BY <2>10 DEF Abandon, Run!Abandon, Run!Next
    <2>11. CASE Terminated \/ UNCHANGED vars
      BY <2>11 DEF Terminated, vars, Run!vars
    <2>12. QED
      BY <2>1, <2>2, <2>3, <2>4, <2>5, <2>6, <2>7, <2>8, <2>9, <2>10, <2>11
      DEF Next, Proceed
  <1>3. QED
    BY <1>1, <1>2, Invariance, PTL DEF Spec, Run!Spec, ImplementsRun

-----------------------------------------------------------------------------

\* The most steps an iteration takes from its request to the next loop head.
PerIteration == MaxChunks + 5

\* The steps left between a suspension point and the end of its iteration.
LeftInIteration ==
    CASE pc = "streaming" -> MaxChunks - received + 6
      [] pc = "thought" -> 5
      [] pc = "action" -> 4
      [] pc = "executing" -> 3
      [] pc \in {"loop", "observation"} -> 2
      [] pc = "final_answer" -> 1
      [] OTHER -> 0

\* The most steps a run has left.
StepsLeft == (MaxIterations - iteration) * PerIteration + LeftInIteration

LEMMA Product ==
    ASSUME NEW a \in Nat, NEW b \in Nat
    PROVE  /\ a * b \in Nat
           /\ a > 0 => (a - 1) * b = a * b - b
  OBVIOUS

LEMMA StepsLeftIsNatural == TypeOK => LeftInIteration \in Nat /\ StepsLeft \in Nat
  <1> SUFFICES ASSUME TypeOK PROVE LeftInIteration \in Nat /\ StepsLeft \in Nat
    OBVIOUS
  <1>1. LeftInIteration \in Nat
    BY BoundsAssumption DEF LeftInIteration, TypeOK
  <1>2. MaxIterations - iteration \in Nat /\ PerIteration \in Nat
    BY BoundsAssumption DEF TypeOK, PerIteration
  <1>3. (MaxIterations - iteration) * PerIteration \in Nat
    BY <1>2, Product
  <1>4. QED
    BY <1>1, <1>3 DEF StepsLeft

LEMMA LeftValues ==
    /\ pc = "streaming" => LeftInIteration = MaxChunks - received + 6
    /\ pc = "thought" => LeftInIteration = 5
    /\ pc = "action" => LeftInIteration = 4
    /\ pc = "executing" => LeftInIteration = 3
    /\ pc \in {"loop", "observation"} => LeftInIteration = 2
    /\ pc = "final_answer" => LeftInIteration = 1
    /\ pc \in Ended => LeftInIteration = 0
  BY DEF LeftInIteration, Ended

LEMMA LeftValuesNext ==
    /\ pc' = "streaming" => LeftInIteration' = MaxChunks - received' + 6
    /\ pc' = "thought" => LeftInIteration' = 5
    /\ pc' = "action" => LeftInIteration' = 4
    /\ pc' = "executing" => LeftInIteration' = 3
    /\ pc' \in {"loop", "observation"} => LeftInIteration' = 2
    /\ pc' = "final_answer" => LeftInIteration' = 1
    /\ pc' \in Ended => LeftInIteration' = 0
  BY DEF LeftInIteration, Ended

\* Every step but that of BeginIteration goes on within its iteration.
LEMMA LeftDecreases ==
    ASSUME TypeOK, Next, ~BeginIteration, ~UNCHANGED vars
    PROVE  LeftInIteration' < LeftInIteration /\ iteration' = iteration
  <1> USE BoundsAssumption, LeftValues, LeftValuesNext DEF Ended
  <1>1. CASE \E chunk \in Plain : ReceivePlain(chunk)
    BY <1>1 DEF ReceivePlain, TypeOK
  <1>2. CASE \E tool \in Tools : ReceiveToolCall(tool)
    BY <1>2 DEF ReceiveToolCall, TypeOK
  <1>3. CASE EndOfStream
    BY <1>3 DEF EndOfStream, AddAction, AddStep, Step, TypeOK
  <1>4. CASE ActAfterThought \/ AnswerAfterThought
    BY <1>4 DEF ActAfterThought, AnswerAfterThought, AddAction, AddStep, Step
  <1>5. CASE CallTool \/ ToolReturns
    BY <1>5 DEF CallTool, ToolReturns, AddStep, Step
  <1>6. CASE GiveUp \/ Return
    BY <1>6 DEF GiveUp, Return, AtLoopHead, AddStep, Step
  <1>7. CASE LlmFails \/ Abandon
    BY <1>7 DEF LlmFails, Abandon, TypeOK
  <1>8. QED
    BY <1>1, <1>2, <1>3, <1>4, <1>5, <1>6, <1>7 DEF Next, Proceed, Stream, Terminated

LEMMA StepsLeftDecreases ==
    ASSUME IInv, [Next]_vars, ~UNCHANGED vars
    PROVE  StepsLeft' < StepsLeft
  <1> USE DEF IInv
  <1>1. MaxIterations - iteration \in Nat /\ PerIteration \in Nat
    BY BoundsAssumption DEF TypeOK, PerIteration
  <1>2. (MaxIterations - iteration) * PerIteration \in Nat
    BY <1>1, Product
  <1>3. LeftInIteration \in Nat
    BY StepsLeftIsNatural
  <1>4. CASE BeginIteration
    <2>1. /\ iteration' = iteration + 1 /\ iteration < MaxIterations
          /\ pc \in {"loop", "observation"} /\ pc' = "streaming" /\ received' = 0
      BY <1>4, BoundsAssumption DEF BeginIteration, AtLoopHead, IsDone, TypeOK
    <2>2. MaxIterations - iteration' = (MaxIterations - iteration) - 1
          /\ MaxIterations - iteration > 0
      BY <2>1, BoundsAssumption DEF TypeOK
    <2>3. (MaxIterations - iteration') * PerIteration
             = (MaxIterations - iteration) * PerIteration - PerIteration
      BY <1>1, <2>2, Product
    <2>4. LeftInIteration = 2 /\ LeftInIteration' = MaxChunks + 6
      BY <2>1, BoundsAssumption, LeftValues, LeftValuesNext
    <2>5. StepsLeft' = (MaxIterations - iteration') * PerIteration + LeftInIteration'
      BY DEF StepsLeft, PerIteration
    <2> HIDE DEF PerIteration
    <2>6. PerIteration = MaxChunks + 5
      BY DEF PerIteration
    <2>7. QED
      BY <1>1, <1>2, <2>3, <2>4, <2>5, <2>6, BoundsAssumption DEF StepsLeft
  <1>5. CASE ~BeginIteration
    <2>1. LeftInIteration' < LeftInIteration /\ iteration' = iteration
      BY <1>5, LeftDecreases
    <2>2. LeftInIteration' \in Nat
      <3>1. TypeOK'
        BY TypeStep
      <3>2. QED
        BY <3>1, BoundsAssumption, LeftValuesNext DEF TypeOK, Ended
    <2>3. StepsLeft' = (MaxIterations - iteration) * PerIteration + LeftInIteration'
      BY <2>1 DEF StepsLeft, PerIteration
    <2>4. QED
      BY <1>2, <1>3, <2>1, <2>2, <2>3 DEF StepsLeft
  <1>6. QED
    BY <1>4, <1>5

\* A run that starts takes at most MaxIterations * (MaxChunks + 5) + 2 steps,
\* whatever the model answers and the tools return: StepsLeft starts there and
\* every step lowers it.  No mixture of blank responses, malformed calls and
\* tool calls keeps the loop going (react_orchestrator.py:58-129).
THEOREM RunsAreFinite ==
    Spec => /\ StepsLeft = MaxIterations * PerIteration + 2
            /\ [](StepsLeft \in Nat)
            /\ [][StepsLeft' < StepsLeft]_vars
  <1>1. Init => StepsLeft = MaxIterations * PerIteration + 2
    BY BoundsAssumption DEF Init, StepsLeft, LeftInIteration, PerIteration
  <1>2. TypeOK => StepsLeft \in Nat
    BY StepsLeftIsNatural
  <1>3. IInv /\ [Next]_vars => [StepsLeft' < StepsLeft]_vars
    BY StepsLeftDecreases
  <1>4. QED
    BY <1>1, <1>2, <1>3, Invariance, TypeCorrect, PTL DEF Spec

\* Where the loop goes on: the guards of the actions of Proceed.
CanProceed ==
    \/ AtLoopHead /\ ~IsDone                                \* BeginIteration
    \/ pc = "streaming"                                     \* EndOfStream
    \/ pc = "thought" /\ toolCall # NoTool                  \* ActAfterThought
    \/ pc = "thought" /\ toolCall = NoTool                  \* AnswerAfterThought
    \/ pc = "action"                                        \* CallTool
    \/ pc = "executing"                                     \* ToolReturns
    \/ AtLoopHead /\ IsDone /\ finalAnswer = NoAnswer       \* GiveUp
    \/ pc = "final_answer"                                  \* Return

\* A run that has not ended is somewhere the loop goes on from: it never comes
\* to the loop head with an answer, where run would fall through without
\* yielding a step (react_orchestrator.py:58, 123-129).
THEOREM RunsNeverStick == Spec => [](pc \notin Ended => CanProceed)
  <1>1. IInv => (pc \notin Ended => CanProceed)
    BY DEF IInv, TypeOK, AnswerState, CanProceed, AtLoopHead, IsDone, Ended
  <1>2. QED
    BY <1>1, Invariance, PTL

\* Of the calls of a response one is executed, the last.  With calls told apart by
\* their tools, as the steps and the model see them, the claim of the module
\* comment, EveryCallObserved, fails at the loop head for a response that named
\* another tool before, and for no other (react_orchestrator.py:8, 72-76).
THEOREM OnlyOvertakenCallsAreLost ==
    Spec => [](AtLoopHead =>
                 /\ asked # << >> =>
                      /\ {j \in DOMAIN executed : executed[j].turn = iteration} = {Len(executed)}
                      /\ executed[Len(executed)].tool = Last(asked)
                 /\ EveryCallObserved <=> \A i \in DOMAIN asked : asked[i] = Last(asked))
  <1>1. ASSUME IInv, AtLoopHead
        PROVE  /\ asked # << >> =>
                    /\ {j \in DOMAIN executed : executed[j].turn = iteration} = {Len(executed)}
                    /\ executed[Len(executed)].tool = Last(asked)
               /\ EveryCallObserved <=> \A i \in DOMAIN asked : asked[i] = Last(asked)
    <2>1. ASSUME asked # << >>
          PROVE  /\ executed # << >> /\ Len(executed) \in DOMAIN executed
                 /\ executed[Len(executed)] = [turn |-> iteration, tool |-> Last(asked)]
      BY <1>1, <2>1, LenProperties DEF IInv, ToolFidelity, TypeOK, Last
    <2>2. ASSUME asked # << >>, NEW j \in DOMAIN executed, executed[j].turn = iteration
          PROVE  j = Len(executed)
      <3>1. executed \in Seq(Calls) /\ iteration \in Nat
        BY <1>1, BoundsAssumption DEF IInv, TypeOK
      <3>2. j \in 1..Len(executed) /\ Len(executed) \in Nat
        BY <3>1
      <3>3. j < Len(executed) => executed[j].turn < executed[Len(executed)].turn
        BY <1>1, <2>1 DEF IInv, ToolFidelity
      <3>4. executed[Len(executed)].turn = iteration
        BY <2>1, <2>2
      <3>5. QED
        BY <2>2, <3>1, <3>2, <3>3, <3>4
    <2>3. ASSUME NEW i \in DOMAIN asked PROVE asked # << >>
      BY <2>3
    <2>4. EveryCallObserved <=> \A i \in DOMAIN asked : asked[i] = Last(asked)
      BY <1>1, <2>1, <2>2, <2>3 DEF EveryCallObserved
    <2>5. QED
      BY <2>1, <2>2, <2>4
  <1>2. QED
    BY <1>1, Invariance, PTL
=============================================================================
