----------------------------- MODULE RunAgentProofs -----------------------------
(***************************************************************************)
(* Chat requests and the conversations table, for any number of requests   *)
(* and of steps.  The properties speak of rows; rows are written from the  *)
(* copies of requests, and copies are read from rows.  The invariant says  *)
(* of a copy what the properties say of a row, with the request's own      *)
(* exchange under way, and what has been committed since it was read.      *)
(***************************************************************************)
EXTENDS RunAgent, SequenceTheorems, TLAPS

\* A request holds a copy it may still save.
Active == {"running", "answered", "saving"}

\* Each query is followed by the answer to it, and no request appears twice.
IsTranscript(m) ==
    /\ Len(m) % 2 = 0
    /\ \A i \in 1..Len(m) : i % 2 = 1 =>
         \E q \in Requests : m[i] = User(q) /\ m[i + 1] = Assistant(q)
    /\ IsInjective(m)

\* The exchanges of m were committed, and belong to conversation c.
Committed(m, c) ==
    \A q \in Answered(m) : q \in committed /\ conversation[q].id = c

\* What a request has, stage by stage.
Stages ==
    \A r \in Requests :
      /\ pc[r] \in {"idle", "finding"} => conversation[r] = None /\ events[r] = << >>
      /\ pc[r] = "idle" => given[r] = None
      /\ pc[r] = "finding" => given[r] # None
      /\ pc[r] \in Active \union {"closing", "done"} => conversation[r] # None
      /\ r \in committed => pc[r] \in {"closing", "done", "gone"} /\ conversation[r] # None

\* Where the ids of conversations come from.
IdsGiven ==
    \A r \in Requests :
      /\ conversation[r] # None =>
           conversation[r].id = IF given[r] = None THEN r ELSE given[r]
      /\ given[r] \in Requests => pc[given[r]] = "done"

\* The events sent, stage by stage.
Sent ==
    \A r \in Requests :
      LET sent == events[r] IN
      /\ pc[r] = "running" => \A i \in DOMAIN sent : sent[i] = "step"
      /\ pc[r] \in {"answered", "saving", "closing"} =>
           sent # << >> /\ Last(sent) = "final_answer"
      /\ pc[r] \in {"answered", "saving", "closing", "done"} \/ r \in committed =>
           "final_answer" \in Range(sent)

\* The copy of a request is the transcript it read and its own query, then its
\* whole exchange.
Copies ==
    \A r \in Requests :
      LET conv == conversation[r] IN
      /\ pc[r] \in {"running", "answered"} =>
           \E m \in Seq(Messages) :
             /\ conv.messages = Append(m, User(r))
             /\ IsTranscript(m) /\ Committed(m, conv.id)
      /\ pc[r] = "saving" =>
           \E m \in Seq(Messages) :
             /\ conv.messages = Append(Append(m, User(r)), Assistant(r))
             /\ IsTranscript(m) /\ Committed(m, conv.id)

Rows ==
    \A c \in Ids : table[c] # None =>
      /\ table[c].id = c
      /\ Len(table[c].messages) > 0
      /\ IsTranscript(table[c].messages)
      /\ Committed(table[c].messages, c)

\* The exchange of r was overwritten by a save that began before it.
Overwritten(r) ==
    \E w \in committed : conversation[w].id = conversation[r].id /\ r \in missed[w]

\* An exchange missing from a copy was committed since, or lost before.
CopiesMiss ==
    \A w \in Requests : pc[w] \in Active =>
      \A r \in committed : conversation[r].id = conversation[w].id =>
        \/ r \in Answered(conversation[w].messages)
        \/ r \in missed[w]
        \/ Overwritten(r)

MixedOnlyBy(user, context) == user # context => user \in missed[context]

\* A copy made new has the user and the context of its request, and a row that
\* has come since was missed; a copy of a row has the user of the row.
CopiesMix ==
    \A w \in Requests : pc[w] \in Active =>
      LET conv == conversation[w] row == table[conv.id] IN
      \/ /\ conv.user = w /\ conv.context = w
         /\ row # None => row.user \in missed[w]
      \/ /\ row # None
         /\ conv.user = row.user
         /\ MixedOnlyBy(conv.user, conv.context)

IInv ==
    /\ TypeOK
    /\ Stages
    /\ IdsGiven
    /\ Sent
    /\ StreamGrammar
    /\ Copies
    /\ Rows
    /\ LossNeedsOverlap
    /\ CopiesMiss
    /\ MixedRowNeedsOverlap
    /\ CopiesMix

-----------------------------------------------------------------------------

\* A step is one of one request, or none.
Acts(r) ==
    \/ ReceiveWithId(r)
    \/ ReceiveWithoutId(r)
    \/ FindById(r)
    \/ FindFails(r)
    \/ SendStep(r)
    \/ SendAnswer(r)
    \/ AgentFails(r)
    \/ AddAnswer(r)
    \/ SaveCommits(r)
    \/ SaveFails(r)
    \/ SendDone(r)
    \/ Disconnect(r)

LEMMA StepIsOfOne ==
    ASSUME [Next]_vars
    PROVE  UNCHANGED vars \/ \E r \in Requests : Acts(r)
  BY DEF Next, AllEnded, Advance, Acts

\* The parts of a conversation, and what the helpers make of them.
LEMMA NewConversationType ==
    ASSUME NEW id \in Ids, NEW r \in Requests
    PROVE  /\ NewConversation(id, r) \in Conversations
           /\ NewConversation(id, r).messages = << >>
           /\ NewConversation(id, r).id = id
           /\ NewConversation(id, r).user = r
           /\ NewConversation(id, r).context = r
  BY DEF NewConversation, Conversations

LEMMA AddMessageType ==
    ASSUME NEW conv \in Conversations, NEW message \in Messages
    PROVE  /\ AddMessage(conv, message) \in Conversations
           /\ AddMessage(conv, message).messages = Append(conv.messages, message)
           /\ AddMessage(conv, message).id = conv.id
           /\ AddMessage(conv, message).user = conv.user
           /\ AddMessage(conv, message).context = conv.context
  BY DEF AddMessage, Conversations

LEMMA MergeType ==
    ASSUME NEW conv \in Conversations, NEW row \in Conversations \union {None}
    PROVE  /\ Merge(row, conv) \in Conversations
           /\ Merge(row, conv).messages = conv.messages
           /\ Merge(row, conv).id = conv.id
           /\ Merge(row, conv).context = conv.context
           /\ Merge(row, conv).user = IF row = None THEN conv.user ELSE row.user
  BY DEF Merge, Conversations

LEMMA MessageTypes ==
    ASSUME NEW r \in Requests
    PROVE  User(r) \in Messages /\ Assistant(r) \in Messages
  BY DEF User, Assistant, Messages

\* A request starts on the row it finds, or on a new conversation.
LEMMA StartAgentType ==
    ASSUME NEW r \in Requests, NEW conv \in Conversations, TypeOK, StartAgent(r, conv)
    PROVE  /\ conversation'[r] \in Conversations
           /\ conversation'[r].messages = Append(conv.messages, User(r))
           /\ conversation'[r].id = conv.id
           /\ conversation'[r].user = conv.user
           /\ conversation'[r].context = conv.context
           /\ pc'[r] = "running"
           /\ conversation' = [conversation EXCEPT ![r] = conversation'[r]]
           /\ conversation' \in [Requests -> Conversations \union {None}]
           /\ pc' = [pc EXCEPT ![r] = "running"]
           /\ prompt' \in [Requests -> Seq(Messages)]
  <1>1. User(r) \in Messages
    BY MessageTypes
  <1>2. conversation'[r] = AddMessage(conv, User(r))
    BY DEF TypeOK, StartAgent
  <1>3. prompt' \in [Requests -> Seq(Messages)]
    BY <1>1 DEF TypeOK, StartAgent
  <1> QED
    BY <1>1, <1>2, <1>3, AddMessageType DEF TypeOK, StartAgent, Goto

\* What each request starts on.
Origin(r) ==
    IF pc[r] = "idle" THEN NewConversation(r, r)
    ELSE IF table[given[r]] = None THEN NewConversation(given[r], r)
    ELSE table[given[r]]

LEMMA OriginType ==
    ASSUME TypeOK, Stages, NEW r \in Requests, pc[r] \in {"idle", "finding"}
    PROVE  Origin(r) \in Conversations
  <1>1. CASE pc[r] = "idle"
    BY <1>1, NewConversationType DEF Origin, Ids
  <1>2. CASE pc[r] = "finding"
    <2>1. given[r] \in Ids /\ table[given[r]] \in Conversations \union {None}
      BY <1>2 DEF TypeOK, Stages
    <2> QED
      BY <1>2, <2>1, NewConversationType DEF Origin
  <1> QED
    BY <1>1, <1>2

LEMMA StartsOnOrigin ==
    ASSUME TypeOK, NEW r \in Requests, ReceiveWithoutId(r) \/ FindById(r)
    PROVE  /\ pc[r] \in {"idle", "finding"}
           /\ StartAgent(r, Origin(r))
           /\ UNCHANGED <<given, events, table, committed, missed, dbDown>>
  BY DEF ReceiveWithoutId, FindById, Origin

LEMMA TypeStep ==
    ASSUME TypeOK, Stages, [Next]_vars
    PROVE  TypeOK'
  <1> USE DEF TypeOK
  <1>1. CASE UNCHANGED vars
    BY <1>1 DEF vars
  <1>2. ASSUME NEW r \in Requests, ReceiveWithId(r)
        PROVE  TypeOK'
    BY <1>2 DEF ReceiveWithId, Goto, Ids
  <1>3. ASSUME NEW r \in Requests, ReceiveWithoutId(r) \/ FindById(r)
        PROVE  TypeOK'
    <2>1. /\ pc[r] \in {"idle", "finding"}
          /\ StartAgent(r, Origin(r))
          /\ UNCHANGED <<given, events, table, committed, missed, dbDown>>
      BY <1>3, StartsOnOrigin
    <2>2. Origin(r) \in Conversations
      BY <2>1, OriginType
    <2>3. /\ conversation' \in [Requests -> Conversations \union {None}]
          /\ pc' = [pc EXCEPT ![r] = "running"]
          /\ prompt' \in [Requests -> Seq(Messages)]
      BY <2>1, <2>2, StartAgentType
    <2> QED
      BY <2>1, <2>3
  <1>4. ASSUME NEW r \in Requests, AddAnswer(r)
        PROVE  TypeOK'
    <2>1. conversation[r] \in Conversations
      BY <1>4 DEF AddAnswer, Stages, Active
    <2>2. AddMessage(conversation[r], Assistant(r)) \in Conversations
      BY <2>1, AddMessageType, MessageTypes
    <2> QED
      BY <1>4, <2>2 DEF AddAnswer, Goto
  <1>5. ASSUME NEW r \in Requests,
               FindFails(r) \/ SendStep(r) \/ SendAnswer(r) \/ AgentFails(r) \/ SendDone(r)
        PROVE  TypeOK'
    <2>1. PICK e \in {"step", "final_answer", "done"} \union ErrorCodes : Send(r, e)
      BY <1>5 DEF FindFails, SendStep, SendAnswer, AgentFails, SendDone, ErrorCodes, Classify
    <2>2. events' \in [Requests -> Seq({"step", "final_answer", "done"} \union ErrorCodes)]
      BY <2>1 DEF Send
    <2> QED
      BY <1>5, <2>2 DEF FindFails, SendStep, SendAnswer, AgentFails, SendDone, Goto, Ended
  <1>6. ASSUME NEW r \in Requests, SaveCommits(r)
        PROVE  TypeOK'
    <2>1. conversation[r] \in Conversations
      BY <1>6 DEF SaveCommits, Stages, Active
    <2>2. conversation[r].id \in Ids
      BY <2>1 DEF Conversations
    <2>3. Merge(table[conversation[r].id], conversation[r]) \in Conversations
      BY <2>1, <2>2, MergeType
    <2>4. table' \in [Ids -> Conversations \union {None}]
      BY <1>6, <2>2, <2>3 DEF SaveCommits
    <2>5. missed' \in [Requests -> SUBSET Requests]
      BY <1>6 DEF SaveCommits
    <2> QED
      BY <1>6, <2>4, <2>5 DEF SaveCommits, Goto
  <1>7. ASSUME NEW r \in Requests, SaveFails(r) \/ Disconnect(r)
        PROVE  TypeOK'
    BY <1>7 DEF SaveFails, Disconnect, Goto, Ended
  <1> QED
    BY <1>1, <1>2, <1>3, <1>4, <1>5, <1>6, <1>7, StepIsOfOne DEF Acts

\* A step of one request moves that request only, and only if it has not ended.
LEMMA OneMoves ==
    ASSUME TypeOK, NEW r \in Requests, Acts(r)
    PROVE  /\ pc[r] \notin Ended
           /\ \A q \in Requests \ {r} :
                pc'[q] = pc[q] /\ given'[q] = given[q]
                /\ conversation'[q] = conversation[q] /\ events'[q] = events[q]
           /\ \A q \in Requests : pc[q] = "done" => pc'[q] = "done"
  BY DEF Acts, TypeOK, Ended, ReceiveWithId, ReceiveWithoutId, StartAgent, FindById,
     FindFails, SendStep, SendAnswer, AgentFails, AddAnswer, SaveCommits, SaveFails,
     SendDone, Disconnect, Goto, Send

LEMMA StagesStep ==
    ASSUME TypeOK, Stages, [Next]_vars
    PROVE  Stages'
  <1> USE DEF Stages, Active
  <1>1. CASE UNCHANGED vars
    BY <1>1 DEF vars
  <1>2. ASSUME NEW r \in Requests, Acts(r)
        PROVE  Stages'
    <2>1. SUFFICES
            /\ pc'[r] \in {"idle", "finding"} => conversation'[r] = None /\ events'[r] = << >>
            /\ pc'[r] = "idle" => given'[r] = None
            /\ pc'[r] = "finding" => given'[r] # None
            /\ pc'[r] \in Active \union {"closing", "done"} => conversation'[r] # None
            /\ r \in committed' => pc'[r] \in {"closing", "done", "gone"} /\ conversation'[r] # None
            /\ \A q \in Requests \ {r} : q \in committed' => q \in committed
      BY <1>2, OneMoves
    <2>2. CASE ReceiveWithId(r)
      BY <2>2, RequestsAssumption DEF ReceiveWithId, TypeOK, Goto
    <2>3. CASE ReceiveWithoutId(r) \/ FindById(r)
      <3>1. /\ pc[r] \in {"idle", "finding"}
            /\ conversation'[r] \in Conversations
            /\ pc'[r] = "running"
            /\ committed' = committed
        BY <2>3, StartsOnOrigin, OriginType, StartAgentType
      <3> QED
        BY <3>1, NoneAssumption
    <2>4. CASE AddAnswer(r)
      <3>1. conversation[r] \in Conversations
        BY <2>4 DEF AddAnswer, TypeOK
      <3>2. conversation'[r] \in Conversations
        BY <2>4, <3>1, AddMessageType, MessageTypes DEF AddAnswer, TypeOK
      <3> QED
        BY <2>4, <3>2, NoneAssumption DEF AddAnswer, TypeOK, Goto
    <2>5. CASE SaveCommits(r)
      BY <2>5 DEF SaveCommits, TypeOK, Goto
    <2>6. CASE \/ FindFails(r) \/ SendStep(r) \/ SendAnswer(r) \/ AgentFails(r)
               \/ SaveFails(r) \/ SendDone(r) \/ Disconnect(r)
      BY <2>6 DEF FindFails, SendStep, SendAnswer, AgentFails, SaveFails, SendDone,
         Disconnect, TypeOK, Goto, Send, Ended
    <2> QED
      BY <1>2, <2>2, <2>3, <2>4, <2>5, <2>6 DEF Acts
  <1> QED
    BY <1>1, <1>2, StepIsOfOne

\* What a request has is a conversation, whose parts have their types.
LEMMA ConversationType ==
    ASSUME TypeOK, NEW r \in Requests, conversation[r] # None
    PROVE  /\ conversation[r] \in Conversations
           /\ conversation[r].id \in Ids
           /\ conversation[r].messages \in Seq(Messages)
           /\ conversation[r].user \in Requests
           /\ conversation[r].context \in Requests
  BY DEF TypeOK, Conversations

LEMMA RowType ==
    ASSUME TypeOK, NEW c \in Ids, table[c] # None
    PROVE  /\ table[c] \in Conversations
           /\ table[c].messages \in Seq(Messages)
           /\ table[c].user \in Requests
           /\ table[c].context \in Requests
  BY DEF TypeOK, Conversations

\* A transcript that is not empty holds an answer.
LEMMA TranscriptHasAnswer ==
    ASSUME NEW m \in Seq(Messages), IsTranscript(m), Len(m) > 0
    PROVE  \E q \in Requests : q \in Answered(m)
  <1>1. Len(m) \in Nat /\ Len(m) >= 2
    BY DEF IsTranscript
  <1>2. PICK q \in Requests : m[2] = Assistant(q)
    BY <1>1 DEF IsTranscript
  <1>3. Assistant(q) \in Range(m)
    BY <1>1, <1>2 DEF Range
  <1> QED
    BY <1>3 DEF Answered

\* A request that has not begun has no conversation anybody else could know.
LEMMA OwnIdIsNew ==
    ASSUME TypeOK, Stages, IdsGiven, Rows, NEW r \in Requests, pc[r] = "idle"
    PROVE  /\ \A q \in Requests : conversation[q] # None => conversation[q].id # r
           /\ table[r] = None
  <1>1. ASSUME NEW q \in Requests, conversation[q] # None
        PROVE  conversation[q].id # r
    <2>1. q # r
      BY <1>1 DEF Stages
    <2>2. given[q] # r
      BY DEF IdsGiven
    <2> QED
      BY <1>1, <2>1, <2>2 DEF IdsGiven
  <1>2. ASSUME table[r] # None
        PROVE  FALSE
    <2>1. r \in Ids
      BY DEF Ids
    <2>2. PICK q \in Requests : q \in Answered(table[r].messages)
      BY <1>2, <2>1, RowType, TranscriptHasAnswer DEF Rows
    <2>3. q \in committed /\ conversation[q].id = r
      BY <1>2, <2>1, <2>2 DEF Rows, Committed
    <2> QED
      BY <1>1, <2>3 DEF Stages
  <1> QED
    BY <1>1, <1>2

\* What a request starts on.
LEMMA OriginState ==
    ASSUME TypeOK, Stages, IdsGiven, Rows, NEW r \in Requests, pc[r] \in {"idle", "finding"}
    PROVE  /\ Origin(r).id = IF given[r] = None THEN r ELSE given[r]
           /\ Origin(r).id \in Ids
           /\ Origin(r).messages \in Seq(Messages)
           /\ IF table[Origin(r).id] = None
              THEN Origin(r).messages = << >> /\ Origin(r).user = r /\ Origin(r).context = r
              ELSE Origin(r) = table[Origin(r).id]
  <1>1. Origin(r) \in Conversations
    BY OriginType
  <1>2. Origin(r).id \in Ids /\ Origin(r).messages \in Seq(Messages)
    BY <1>1 DEF Conversations
  <1>3. CASE pc[r] = "idle"
    BY <1>2, <1>3, OwnIdIsNew, NewConversationType DEF Origin, Stages, Ids
  <1>4. CASE pc[r] = "finding"
    <2>1. given[r] # None /\ given[r] \in Ids
      BY <1>4 DEF Stages, TypeOK
    <2> QED
      BY <1>2, <1>4, <2>1, NewConversationType DEF Origin, Rows
  <1> QED
    BY <1>3, <1>4

LEMMA IdsStep ==
    ASSUME TypeOK, Stages, IdsGiven, Rows, [Next]_vars
    PROVE  IdsGiven'
  <1>1. CASE UNCHANGED vars
    BY <1>1 DEF vars, IdsGiven
  <1>2. ASSUME NEW r \in Requests, Acts(r)
        PROVE  IdsGiven'
    <2>1. /\ conversation'[r] # None =>
                conversation'[r].id = IF given'[r] = None THEN r ELSE given'[r]
          /\ given'[r] \in Requests => pc'[given'[r]] = "done"
      <3>1. CASE ReceiveWithId(r)
        <4>1. PICK c \in Known \union {q \in Requests : pc[q] = "done" /\ given[q] = None} :
                given' = [given EXCEPT ![r] = c]
          BY <3>1 DEF ReceiveWithId
        <4>2. given'[r] = c /\ conversation'[r] = None
          BY <3>1, <4>1 DEF ReceiveWithId, TypeOK, Stages
        <4>3. c \in Requests => pc[c] = "done"
          BY <4>1, IdsAssumption
        <4> QED
          BY <1>2, <4>2, <4>3, OneMoves
      <3>2. CASE ReceiveWithoutId(r) \/ FindById(r)
        <4>1. conversation'[r].id = Origin(r).id /\ given' = given /\ pc[r] \in {"idle", "finding"}
          BY <3>2, StartsOnOrigin, OriginType, StartAgentType
        <4> QED
          BY <1>2, <4>1, OriginState, OneMoves DEF IdsGiven
      <3>3. CASE AddAnswer(r)
        <4>1. conversation'[r].id = conversation[r].id /\ conversation[r] # None /\ given' = given
          BY <3>3, AddMessageType, MessageTypes DEF AddAnswer, TypeOK, Stages, Active
        <4> QED
          BY <1>2, <4>1, OneMoves DEF IdsGiven
      <3>4. CASE \/ FindFails(r) \/ SendStep(r) \/ SendAnswer(r) \/ AgentFails(r)
                 \/ SaveCommits(r) \/ SaveFails(r) \/ SendDone(r) \/ Disconnect(r)
        <4>1. given' = given /\ conversation' = conversation
          BY <3>4 DEF FindFails, SendStep, SendAnswer, AgentFails, SaveCommits, SaveFails,
             SendDone, Disconnect
        <4> QED
          BY <1>2, <4>1, OneMoves DEF IdsGiven
      <3> QED
        BY <1>2, <3>1, <3>2, <3>3, <3>4 DEF Acts
    <2> QED
      BY <1>2, <2>1, OneMoves DEF IdsGiven
  <1> QED
    BY <1>1, <1>2, StepIsOfOne

Events == {"step", "final_answer", "done"} \union ErrorCodes

\* What one more event makes of those sent.
LEMMA OneMore ==
    ASSUME NEW S, NEW sent \in Seq(S), NEW e \in S
    PROVE  /\ Append(sent, e) \in Seq(S)
           /\ Len(Append(sent, e)) = Len(sent) + 1
           /\ Append(sent, e) # << >>
           /\ Last(Append(sent, e)) = e
           /\ \A i \in 1..Len(sent) : Append(sent, e)[i] = sent[i]
           /\ Append(sent, e)[Len(sent) + 1] = e
           /\ Range(Append(sent, e)) = Range(sent) \union {e}
  <1>1. /\ Append(sent, e) \in Seq(S)
        /\ Len(Append(sent, e)) = Len(sent) + 1
        /\ Append(sent, e) # << >>
        /\ Append(sent, e)[Len(sent) + 1] = e
        /\ \A i \in 1..Len(sent) : Append(sent, e)[i] = sent[i]
        /\ Len(sent) \in Nat
    OBVIOUS
  <1>2. Last(Append(sent, e)) = e
    BY <1>1 DEF Last
  <1>3. DOMAIN Append(sent, e) = (1..Len(sent)) \union {Len(sent) + 1} /\ DOMAIN sent = 1..Len(sent)
    BY <1>1
  <1>4. Range(Append(sent, e)) = Range(sent) \union {e}
    BY <1>1, <1>3 DEF Range
  <1> QED
    BY <1>1, <1>2, <1>4

\* Every step sends one event, or none.
LEMMA SendsOne ==
    ASSUME TypeOK, Stages, NEW r \in Requests, Acts(r)
    PROVE  \/ /\ events'[r] = events[r]
              /\ \/ pc'[r] \in {"finding", "gone"}
                 \/ pc[r] \in {"idle", "finding"} /\ pc'[r] = "running"
                 \/ pc[r] = "answered" /\ pc'[r] = "saving"
                 \/ pc[r] = "saving" /\ pc'[r] = "closing"
              /\ r \in committed' => r \in committed \/ pc[r] = "saving"
              /\ pc'[r] = "finding" => pc[r] = "idle"
           \/ \E e \in Events :
                /\ events'[r] = Append(events[r], e)
                /\ \/ pc[r] = "running" /\ pc'[r] = "running" /\ e = "step"
                   \/ pc[r] = "running" /\ pc'[r] = "answered" /\ e = "final_answer"
                   \/ pc[r] = "running" /\ pc'[r] = "error" /\ e \in ErrorCodes
                   \/ pc[r] = "finding" /\ pc'[r] = "error" /\ e \in ErrorCodes
                   \/ pc[r] = "closing" /\ pc'[r] = "done" /\ e = "done"
                /\ r \in committed' => r \in committed
  <1>1. CASE \/ ReceiveWithId(r) \/ ReceiveWithoutId(r) \/ FindById(r) \/ AddAnswer(r)
             \/ SaveCommits(r) \/ SaveFails(r) \/ Disconnect(r)
    BY <1>1 DEF TypeOK, ReceiveWithId, ReceiveWithoutId, FindById, StartAgent, AddAnswer,
       SaveCommits, SaveFails, Disconnect, Goto
  <1>2. CASE FindFails(r) \/ SendStep(r) \/ SendAnswer(r) \/ SendDone(r)
    <2>1. PICK e \in Events : /\ Send(r, e)
                              /\ FindFails(r) => e = "INTERNAL_ERROR"
                              /\ SendStep(r) => e = "step"
                              /\ SendAnswer(r) => e = "final_answer"
                              /\ SendDone(r) => e = "done"
      <3>1. CASE FindFails(r)
        BY <3>1 DEF FindFails, SendStep, SendAnswer, SendDone, Events, ErrorCodes
      <3>2. CASE SendStep(r)
        BY <3>2 DEF FindFails, SendStep, SendAnswer, SendDone, Events, Goto, TypeOK
      <3>3. CASE SendAnswer(r)
        BY <3>3 DEF FindFails, SendStep, SendAnswer, SendDone, Events, Goto, TypeOK
      <3>4. CASE SendDone(r)
        BY <3>4 DEF FindFails, SendStep, SendAnswer, SendDone, Events
      <3> QED
        BY <1>2, <3>1, <3>2, <3>3, <3>4
    <2>2. events'[r] = Append(events[r], e)
      BY <2>1 DEF Send, TypeOK
    <2> QED
      BY <1>2, <2>1, <2>2 DEF TypeOK, FindFails, SendStep, SendAnswer, SendDone, Goto, ErrorCodes
  <1>3. CASE AgentFails(r)
    <2>1. PICK e \in ErrorCodes : Send(r, e)
      BY <1>3 DEF AgentFails, Classify, ErrorCodes
    <2>2. events'[r] = Append(events[r], e) /\ e \in Events
      BY <2>1 DEF Send, TypeOK, Events
    <2> QED
      BY <1>3, <2>1, <2>2 DEF AgentFails, TypeOK, Goto
  <1> QED
    BY <1>1, <1>2, <1>3 DEF Acts

\* The events of one request, as StreamGrammar and Sent have them.
Grammatical(sent, place) ==
    /\ \A i \in 1..(Len(sent) - 1) :
         \/ sent[i] = "step" /\ sent[i + 1] # "done"
         \/ sent[i] = "final_answer" /\ sent[i + 1] = "done"
    /\ sent # <<"done">>
    /\ place = "done" <=> sent # << >> /\ Last(sent) = "done"
    /\ place = "error" <=> sent # << >> /\ Last(sent) \in ErrorCodes

LEMMA EventsStep ==
    ASSUME TypeOK, Stages, Sent, StreamGrammar, [Next]_vars
    PROVE  Sent' /\ StreamGrammar'
  <1> USE DEF Ended
  <1>1. CASE UNCHANGED vars
    BY <1>1 DEF vars, Sent, StreamGrammar
  <1>2. ASSUME NEW r \in Requests, Acts(r)
        PROVE  Sent' /\ StreamGrammar'
    <2> DEFINE sent == events[r]
    <2>1. /\ sent \in Seq(Events) /\ Len(sent) \in Nat
          /\ Grammatical(sent, pc[r])
          /\ pc[r] = "running" => \A i \in DOMAIN sent : sent[i] = "step"
          /\ pc[r] \in {"answered", "saving", "closing"} =>
               sent # << >> /\ Last(sent) = "final_answer"
          /\ pc[r] \in {"answered", "saving", "closing", "done"} \/ r \in committed =>
               "final_answer" \in Range(sent)
          /\ pc[r] \in {"idle", "finding"} => sent = << >>
          /\ pc[r] \notin Ended
      BY <1>2, OneMoves DEF TypeOK, Events, Stages, Sent, StreamGrammar, Grammatical
    <2>2. SUFFICES
            /\ Grammatical(events'[r], pc'[r])
            /\ pc'[r] = "running" => \A i \in DOMAIN events'[r] : events'[r][i] = "step"
            /\ pc'[r] \in {"answered", "saving", "closing"} =>
                 events'[r] # << >> /\ Last(events'[r]) = "final_answer"
            /\ pc'[r] \in {"answered", "saving", "closing", "done"} \/ r \in committed' =>
                 "final_answer" \in Range(events'[r])
      <3>1. \A q \in Requests \ {r} : q \in committed' => q \in committed
        BY <1>2 DEF Acts, ReceiveWithId, ReceiveWithoutId, FindById,
           FindFails, SendStep, SendAnswer, AgentFails, AddAnswer, SaveCommits, SaveFails,
           SendDone, Disconnect
      <3>2. ASSUME NEW q \in Requests \ {r}
            PROVE  /\ Grammatical(events'[q], pc'[q])
                   /\ pc'[q] = "running" => \A i \in DOMAIN events'[q] : events'[q][i] = "step"
                   /\ pc'[q] \in {"answered", "saving", "closing"} =>
                        events'[q] # << >> /\ Last(events'[q]) = "final_answer"
                   /\ pc'[q] \in {"answered", "saving", "closing", "done"} \/ q \in committed' =>
                        "final_answer" \in Range(events'[q])
        <4>1. Grammatical(events[q], pc[q])
          BY DEF StreamGrammar, Grammatical
        <4> QED
          BY <1>2, <3>1, <4>1, OneMoves DEF Sent
      <3>3. \A q \in Requests : Grammatical(events'[q], pc'[q])
        BY <2>2, <3>2
      <3>4. StreamGrammar'
        BY <3>3 DEF StreamGrammar, Grammatical
      <3> QED
        BY <2>2, <3>2, <3>4 DEF Sent
    <2>3. CASE events'[r] = events[r]
                /\ \/ pc'[r] \in {"finding", "gone"}
                   \/ pc[r] \in {"idle", "finding"} /\ pc'[r] = "running"
                   \/ pc[r] = "answered" /\ pc'[r] = "saving"
                   \/ pc[r] = "saving" /\ pc'[r] = "closing"
                /\ (r \in committed' => r \in committed \/ pc[r] = "saving")
                /\ (pc'[r] = "finding" => pc[r] = "idle")
      <3>1. Grammatical(events'[r], pc'[r])
        BY <2>1, <2>3 DEF Grammatical
      <3> QED
        BY <2>1, <2>3, <3>1
    <2>4. ASSUME NEW e \in Events, events'[r] = Append(sent, e),
                 \/ pc[r] = "running" /\ pc'[r] = "running" /\ e = "step"
                 \/ pc[r] = "running" /\ pc'[r] = "answered" /\ e = "final_answer"
                 \/ pc[r] = "running" /\ pc'[r] = "error" /\ e \in ErrorCodes
                 \/ pc[r] = "finding" /\ pc'[r] = "error" /\ e \in ErrorCodes
                 \/ pc[r] = "closing" /\ pc'[r] = "done" /\ e = "done",
                 r \in committed' => r \in committed
          PROVE  /\ Grammatical(events'[r], pc'[r])
                 /\ pc'[r] = "running" => \A i \in DOMAIN events'[r] : events'[r][i] = "step"
                 /\ pc'[r] \in {"answered", "saving", "closing"} =>
                      events'[r] # << >> /\ Last(events'[r]) = "final_answer"
                 /\ pc'[r] \in {"answered", "saving", "closing", "done"} \/ r \in committed' =>
                      "final_answer" \in Range(events'[r])
      <3> DEFINE more == Append(sent, e)
      <3>1. /\ more \in Seq(Events) /\ Len(more) = Len(sent) + 1 /\ more # << >>
            /\ Last(more) = e
            /\ \A i \in 1..Len(sent) : more[i] = sent[i]
            /\ more[Len(sent) + 1] = e
            /\ Range(more) = Range(sent) \union {e}
        BY <2>1, OneMore
      <3>2. sent # << >> => Len(sent) > 0 /\ Last(sent) = sent[Len(sent)]
        BY <2>1 DEF Last
      <3>3. ASSUME NEW i \in 1..(Len(more) - 1)
            PROVE  \/ more[i] = "step" /\ more[i + 1] # "done"
                   \/ more[i] = "final_answer" /\ more[i + 1] = "done"
        <4>1. i \in 1..Len(sent) /\ more[i] = sent[i]
          BY <2>1, <3>1, <3>3
        <4>2. CASE i < Len(sent)
          BY <2>1, <3>1, <4>1, <4>2 DEF Grammatical
        <4>3. CASE i = Len(sent)
          <5>1. more[i + 1] = e
            BY <3>1, <4>3
          <5>2. sent # << >>
            BY <4>1, <4>3
          <5>3. pc[r] = "running" => more[i] = "step"
            BY <2>1, <4>1
          <5>4. pc[r] = "closing" => more[i] = "final_answer"
            BY <2>1, <3>2, <4>1, <4>3, <5>2
          <5> QED
            BY <2>1, <2>4, <5>1, <5>2, <5>3, <5>4 DEF ErrorCodes
        <4> QED
          BY <2>1, <4>1, <4>2, <4>3
      <3>4. more # <<"done">>
        <4>1. CASE e = "done"
          <5>1. sent # << >>
            BY <2>1, <2>4, <4>1 DEF ErrorCodes
          <5>2. Len(more) > 1 /\ Len(<<"done">>) = 1
            BY <2>1, <3>1, <3>2, <5>1
          <5> QED
            BY <5>2
        <4>2. CASE e # "done"
          <5>1. Last(<<"done">>) = "done"
            BY DEF Last
          <5> QED
            BY <3>1, <4>2, <5>1
        <4> QED
          BY <4>1, <4>2
      <3>5. Grammatical(more, pc'[r])
        BY <2>4, <3>1, <3>3, <3>4 DEF Grammatical, ErrorCodes
      <3>6. pc'[r] = "running" => \A i \in DOMAIN more : more[i] = "step"
        BY <2>1, <2>4, <3>1
      <3> QED
        BY <2>1, <2>4, <3>1, <3>5, <3>6
    <2> QED
      BY <1>2, <2>3, <2>4, SendsOne
  <1> QED
    BY <1>1, <1>2, StepIsOfOne

-----------------------------------------------------------------------------

\* What is committed or begun keeps its conversation, and nothing is unmissed.
LEMMA NothingIsTakenBack ==
    ASSUME TypeOK, Stages, NEW r \in Requests, Acts(r)
    PROVE  /\ \A q \in committed : q \in committed' /\ conversation'[q] = conversation[q]
           /\ committed' \subseteq committed \union {r}
           /\ r \in committed' \ committed => SaveCommits(r)
           /\ \A q \in Requests : missed[q] \subseteq missed'[q]
           /\ \A q \in Requests :
                conversation[q] # None => conversation'[q].id = conversation[q].id
  <1>1. CASE ReceiveWithoutId(r) \/ FindById(r)
    <2>1. /\ pc[r] \in {"idle", "finding"} /\ UNCHANGED <<committed, missed>>
      BY <1>1, StartsOnOrigin
    <2>2. conversation[r] = None /\ r \notin committed
      BY <2>1 DEF Stages
    <2> QED
      BY <2>1, <2>2, OneMoves DEF TypeOK
  <1>2. CASE AddAnswer(r)
    <2>1. r \notin committed /\ conversation[r] # None /\ UNCHANGED <<committed, missed>>
      BY <1>2 DEF AddAnswer, Stages, Active
    <2>2. conversation'[r] = AddMessage(conversation[r], Assistant(r))
      BY <1>2 DEF AddAnswer, TypeOK
    <2>3. conversation'[r].id = conversation[r].id
      BY <2>1, <2>2, ConversationType, MessageTypes, AddMessageType
    <2> QED
      BY <2>1, <2>3, OneMoves DEF TypeOK
  <1>3. CASE SaveCommits(r)
    <2>1. \A q \in Requests : missed[q] \subseteq missed'[q]
      BY <1>3 DEF SaveCommits, TypeOK
    <2> QED
      BY <1>3, <2>1 DEF SaveCommits
  <1>4. CASE \/ ReceiveWithId(r) \/ FindFails(r) \/ SendStep(r) \/ SendAnswer(r)
             \/ AgentFails(r) \/ SaveFails(r) \/ SendDone(r) \/ Disconnect(r)
    BY <1>4 DEF ReceiveWithId, FindFails, SendStep, SendAnswer, AgentFails, SaveFails,
       SendDone, Disconnect
  <1> QED
    BY <1>1, <1>2, <1>3, <1>4 DEF Acts

LEMMA StaysCommitted ==
    ASSUME TypeOK, Stages, NEW r \in Requests, Acts(r), NEW m, NEW c, Committed(m, c)
    PROVE  \A q \in Answered(m) : q \in committed' /\ conversation'[q].id = c
  BY NothingIsTakenBack DEF Committed

\* The messages of a request are told from each other.
LEMMA QueryIsNoAnswer ==
    ASSUME NEW q, NEW r
    PROVE  /\ User(q) # Assistant(r)
           /\ User(q) = User(r) => q = r
           /\ Assistant(q) = Assistant(r) => q = r
  <1>1. User(q).role = "user" /\ Assistant(r).role = "assistant"
    BY DEF User, Assistant
  <1>2. User(q).by = q /\ User(r).by = r /\ Assistant(q).by = q /\ Assistant(r).by = r
    BY DEF User, Assistant
  <1> QED
    BY <1>1, <1>2

LEMMA AddQuery ==
    ASSUME NEW m \in Seq(Messages), NEW r \in Requests
    PROVE  /\ Append(m, User(r)) \in Seq(Messages)
           /\ Answered(Append(m, User(r))) = Answered(m)
  <1>1. Append(m, User(r)) \in Seq(Messages) /\ Range(Append(m, User(r))) = Range(m) \union {User(r)}
    BY MessageTypes, OneMore
  <1> QED
    BY <1>1, QueryIsNoAnswer DEF Answered

\* A transcript and the exchange of another request are a transcript.
LEMMA AddExchange ==
    ASSUME NEW m \in Seq(Messages), IsTranscript(m), NEW r \in Requests, r \notin Answered(m),
           NEW n, n = Append(Append(m, User(r)), Assistant(r))
    PROVE  /\ IsTranscript(n)
           /\ Len(n) > 0
           /\ Answered(n) = Answered(m) \union {r}
  <1>1. /\ n \in Seq(Messages) /\ Len(m) \in Nat /\ Len(n) = Len(m) + 2
        /\ \A i \in 1..Len(m) : n[i] = m[i]
        /\ n[Len(m) + 1] = User(r) /\ n[Len(m) + 2] = Assistant(r)
        /\ DOMAIN n = 1..(Len(m) + 2) /\ DOMAIN m = 1..Len(m)
    BY MessageTypes
  <1>2. Range(n) = Range(m) \union {User(r), Assistant(r)}
    <2>1. Range(Append(m, User(r))) = Range(m) \union {User(r)} /\ Append(m, User(r)) \in Seq(Messages)
      BY MessageTypes, OneMore
    <2>2. \A h \in Seq(Messages) : \A e \in Messages : Range(Append(h, e)) = Range(h) \union {e}
      BY OneMore
    <2>3. Range(n) = Range(Append(m, User(r))) \union {Assistant(r)}
      BY <2>1, <2>2, MessageTypes
    <2> QED
      BY <2>1, <2>3
  <1>3. Len(m) % 2 = 0 /\ Len(n) % 2 = 0
    BY <1>1 DEF IsTranscript
  <1>4. ASSUME NEW i \in 1..Len(m)
        PROVE  m[i] # User(r) /\ m[i] # Assistant(r)
    <2>1. m[i] # Assistant(r)
      BY <1>1, <1>4 DEF Answered, Range
    <2>2. CASE i % 2 = 1
      <3>1. PICK q \in Requests : m[i] = User(q) /\ m[i + 1] = Assistant(q)
        BY <2>2 DEF IsTranscript
      <3>2. i + 1 \in DOMAIN m
        BY <1>1, <1>3, <2>2
      <3>3. q # r
        BY <3>1, <3>2 DEF Answered, Range
      <3> QED
        BY <2>1, <3>1, <3>3, QueryIsNoAnswer
    <2>3. CASE i % 2 # 1
      <3>1. i - 1 \in 1..Len(m) /\ (i - 1) % 2 = 1 /\ (i - 1) + 1 = i
        BY <1>1, <2>3
      <3>2. PICK q \in Requests : m[i] = Assistant(q)
        BY <3>1 DEF IsTranscript
      <3> QED
        BY <2>1, <3>2, QueryIsNoAnswer
    <2> QED
      BY <2>2, <2>3
  <1>5. ASSUME NEW i \in 1..Len(n), i % 2 = 1
        PROVE  \E q \in Requests : n[i] = User(q) /\ n[i + 1] = Assistant(q)
    <2>1. CASE i \in 1..Len(m)
      <3>1. i + 1 \in 1..Len(m)
        BY <1>1, <1>3, <1>5, <2>1
      <3> QED
        BY <1>1, <1>5, <2>1, <3>1 DEF IsTranscript
    <2>2. CASE i \notin 1..Len(m)
      <3>1. i = Len(m) + 1
        BY <1>1, <1>3, <1>5, <2>2
      <3> QED
        BY <1>1, <3>1
    <2> QED
      BY <2>1, <2>2
  <1>6. IsInjective(n)
    <2>1. ASSUME NEW i \in DOMAIN n, NEW j \in DOMAIN n, n[i] = n[j]
          PROVE  i = j
      <3>1. i \in DOMAIN m \/ i = Len(m) + 1 \/ i = Len(m) + 2
        BY <1>1
      <3>2. j \in DOMAIN m \/ j = Len(m) + 1 \/ j = Len(m) + 2
        BY <1>1
      <3>3. CASE i \in DOMAIN m /\ j \in DOMAIN m
        BY <1>1, <2>1, <3>3 DEF IsTranscript, IsInjective
      <3> QED
        BY <1>1, <1>4, <2>1, <3>1, <3>2, <3>3, QueryIsNoAnswer
    <2> QED
      BY <2>1 DEF IsInjective
  <1>7. Answered(n) = Answered(m) \union {r}
    BY <1>2, QueryIsNoAnswer DEF Answered
  <1> QED
    BY <1>1, <1>3, <1>5, <1>6, <1>7 DEF IsTranscript

LEMMA EmptyTranscript == IsTranscript(<< >>) /\ Answered(<< >>) = {}
  <1>1. Len(<< >>) = 0 /\ DOMAIN << >> = {}
    OBVIOUS
  <1> QED
    BY <1>1 DEF IsTranscript, IsInjective, Answered, Range

-----------------------------------------------------------------------------

LEMMA OnlySavesWrite ==
    ASSUME NEW r \in Requests, Acts(r), ~SaveCommits(r)
    PROVE  table' = table /\ committed' = committed /\ missed' = missed
  BY DEF Acts, ReceiveWithId, ReceiveWithoutId, FindById, FindFails, SendStep, SendAnswer,
     AgentFails, AddAnswer, SaveFails, SendDone, Disconnect

\* What a save writes.
LEMMA SaveWrites ==
    ASSUME TypeOK, Stages, NEW r \in Requests, SaveCommits(r)
    PROVE  /\ pc[r] = "saving" /\ pc'[r] = "closing"
           /\ r \notin committed /\ committed' = committed \union {r}
           /\ conversation[r] # None /\ conversation[r].id \in Ids
           /\ conversation' = conversation
           /\ \A c \in Ids \ {conversation[r].id} : table'[c] = table[c]
           /\ table'[conversation[r].id] = Merge(table[conversation[r].id], conversation[r])
           /\ table'[conversation[r].id] \in Conversations
           /\ table'[conversation[r].id] # None
           /\ \A q \in Requests \ {r} :
                pc[q] \in Active /\ conversation[q].id = conversation[r].id => r \in missed'[q]
  <1>1. pc[r] = "saving" /\ conversation[r] # None /\ r \notin committed
    BY DEF SaveCommits, Stages, Active
  <1>2. conversation[r] \in Conversations /\ conversation[r].id \in Ids
    BY <1>1, ConversationType
  <1>3. /\ \A c \in Ids \ {conversation[r].id} : table'[c] = table[c]
        /\ table'[conversation[r].id] = Merge(table[conversation[r].id], conversation[r])
    BY <1>2 DEF SaveCommits, TypeOK
  <1>4. Merge(table[conversation[r].id], conversation[r]) \in Conversations
    BY <1>2, MergeType DEF TypeOK
  <1>5. \A q \in Requests \ {r} :
           pc[q] \in Active /\ conversation[q].id = conversation[r].id => r \in missed'[q]
    BY DEF SaveCommits, Active
  <1>6. conversation' = conversation /\ committed' = committed \union {r} /\ pc'[r] = "closing"
    BY DEF SaveCommits, Goto, TypeOK
  <1> QED
    BY <1>1, <1>2, <1>3, <1>4, <1>5, <1>6, NoneAssumption

\* The whole exchange that a request is about to save.
LEMMA SavedTranscript ==
    ASSUME TypeOK, Stages, Copies, NEW r \in Requests, pc[r] = "saving"
    PROVE  LET n == conversation[r].messages IN
           /\ IsTranscript(n) /\ Len(n) > 0
           /\ r \in Answered(n)
           /\ \A q \in Answered(n) \ {r} : q \in committed /\ conversation[q].id = conversation[r].id
  <1>1. PICK m \in Seq(Messages) :
          /\ conversation[r].messages = Append(Append(m, User(r)), Assistant(r))
          /\ IsTranscript(m) /\ Committed(m, conversation[r].id)
    BY DEF Copies
  <1>2. r \notin Answered(m)
    BY <1>1 DEF Committed, Stages
  <1> DEFINE n == conversation[r].messages
  <1>3. IsTranscript(n) /\ Len(n) > 0 /\ Answered(n) = Answered(m) \union {r}
    BY <1>1, <1>2, AddExchange
  <1> QED
    BY <1>1, <1>3 DEF Committed

LEMMA RowsStep ==
    ASSUME TypeOK, Stages, Copies, Rows, [Next]_vars
    PROVE  Rows'
  <1>1. CASE UNCHANGED vars
    BY <1>1 DEF vars, Rows, Committed
  <1>2. ASSUME NEW r \in Requests, Acts(r), NEW c \in Ids, table'[c] # None
        PROVE  /\ table'[c].id = c
               /\ Len(table'[c].messages) > 0
               /\ IsTranscript(table'[c].messages)
               /\ \A q \in Answered(table'[c].messages) : q \in committed' /\ conversation'[q].id = c
    <2>1. CASE table'[c] = table[c]
      <3>1. /\ table[c].id = c /\ Len(table[c].messages) > 0
            /\ IsTranscript(table[c].messages) /\ Committed(table[c].messages, c)
        BY <1>2, <2>1 DEF Rows
      <3> QED
        BY <1>2, <2>1, <3>1, StaysCommitted
    <2>2. CASE SaveCommits(r) /\ c = conversation[r].id
      <3>1. pc[r] = "saving" /\ conversation[r] \in Conversations
        BY <2>2, SaveWrites, ConversationType
      <3>2. table'[c].messages = conversation[r].messages /\ table'[c].id = c
        BY <1>2, <2>2, <3>1, SaveWrites, MergeType DEF TypeOK
      <3> QED
        BY <2>2, <3>1, <3>2, SaveWrites, SavedTranscript
    <2> QED
      BY <1>2, <2>1, <2>2, OnlySavesWrite, SaveWrites
  <1> QED
    BY <1>1, <1>2, StepIsOfOne DEF Rows, Committed

LEMMA CopiesStep ==
    ASSUME TypeOK, Stages, IdsGiven, Rows, Copies, [Next]_vars
    PROVE  Copies'
  <1> DEFINE Reads(r, m) ==
               /\ conversation'[r].messages = Append(m, User(r))
               /\ IsTranscript(m)
               /\ \A q \in Answered(m) : q \in committed' /\ conversation'[q].id = conversation'[r].id
             Ends(r, m) ==
               /\ conversation'[r].messages = Append(Append(m, User(r)), Assistant(r))
               /\ IsTranscript(m)
               /\ \A q \in Answered(m) : q \in committed' /\ conversation'[q].id = conversation'[r].id
  <1>1. CASE UNCHANGED vars
    BY <1>1 DEF vars, Copies, Committed
  <1>2. ASSUME NEW r \in Requests, Acts(r), NEW w \in Requests
        PROVE  /\ pc'[w] \in {"running", "answered"} => \E m \in Seq(Messages) : Reads(w, m)
               /\ pc'[w] = "saving" => \E m \in Seq(Messages) : Ends(w, m)
    <2>1. CASE conversation'[w] = conversation[w] /\ conversation[w] # None
               /\ (pc'[w] \in {"running", "answered"} => pc[w] \in {"running", "answered"})
               /\ (pc'[w] = "saving" => pc[w] = "saving")
      <3>1. ASSUME pc'[w] \in {"running", "answered"}
            PROVE  \E m \in Seq(Messages) : Reads(w, m)
        <4>1. PICK m \in Seq(Messages) :
                /\ conversation[w].messages = Append(m, User(w))
                /\ IsTranscript(m) /\ Committed(m, conversation[w].id)
          BY <2>1, <3>1 DEF Copies
        <4> QED
          BY <1>2, <2>1, <4>1, StaysCommitted
      <3>2. ASSUME pc'[w] = "saving"
            PROVE  \E m \in Seq(Messages) : Ends(w, m)
        <4>1. PICK m \in Seq(Messages) :
                /\ conversation[w].messages = Append(Append(m, User(w)), Assistant(w))
                /\ IsTranscript(m) /\ Committed(m, conversation[w].id)
          BY <2>1, <3>2 DEF Copies
        <4> QED
          BY <1>2, <2>1, <4>1, StaysCommitted
      <3> QED
        BY <3>1, <3>2
    <2>2. CASE w = r /\ (ReceiveWithoutId(r) \/ FindById(r))
      <3> DEFINE m == Origin(r).messages
      <3>1. /\ pc[r] \in {"idle", "finding"} /\ pc'[r] = "running"
            /\ conversation'[r].messages = Append(m, User(r))
            /\ conversation'[r].id = Origin(r).id
        BY <2>2, StartsOnOrigin, OriginType, StartAgentType
      <3>2. m \in Seq(Messages) /\ IsTranscript(m) /\ Committed(m, Origin(r).id)
        <4>1. CASE table[Origin(r).id] = None
          BY <3>1, <4>1, OriginState, EmptyTranscript DEF Committed
        <4>2. CASE table[Origin(r).id] # None
          BY <3>1, <4>2, OriginState DEF Rows
        <4> QED
          BY <4>1, <4>2
      <3>3. Reads(r, m)
        BY <1>2, <3>1, <3>2, StaysCommitted
      <3> QED
        BY <2>2, <3>1, <3>2, <3>3
    <2>3. CASE w = r /\ AddAnswer(r)
      <3>1. pc[r] = "answered" /\ pc'[r] = "saving" /\ conversation[r] # None
        BY <2>3 DEF AddAnswer, Goto, TypeOK, Stages, Active
      <3>2. PICK m \in Seq(Messages) :
              /\ conversation[r].messages = Append(m, User(r))
              /\ IsTranscript(m) /\ Committed(m, conversation[r].id)
        BY <3>1 DEF Copies
      <3>3. conversation'[r] = AddMessage(conversation[r], Assistant(r))
        BY <2>3 DEF AddAnswer, TypeOK
      <3>4. /\ conversation'[r].messages = Append(Append(m, User(r)), Assistant(r))
            /\ conversation'[r].id = conversation[r].id
        <4>1. conversation[r] \in Conversations /\ Assistant(r) \in Messages
          BY <3>1, ConversationType, MessageTypes
        <4>2. /\ AddMessage(conversation[r], Assistant(r)).messages
                  = Append(conversation[r].messages, Assistant(r))
              /\ AddMessage(conversation[r], Assistant(r)).id = conversation[r].id
          BY <4>1, AddMessageType
        <4> QED
          BY <3>2, <3>3, <4>2
      <3>5. Ends(r, m)
        BY <1>2, <3>2, <3>4, StaysCommitted
      <3> QED
        BY <2>3, <3>1, <3>5
    <2>4. CASE w = r /\ ~(ReceiveWithoutId(r) \/ FindById(r)) /\ ~AddAnswer(r)
      <3>1. \/ pc'[r] \notin {"running", "answered", "saving"}
            \/ /\ conversation' = conversation
               /\ pc[r] \in Active
               /\ pc'[r] = "saving" => pc[r] = "saving"
               /\ pc'[r] \in {"running", "answered"} => pc[r] \in {"running", "answered"}
        BY <1>2, <2>4 DEF Acts, ReceiveWithId, FindFails, SendStep, SendAnswer, AgentFails,
           SaveCommits, SaveFails, SendDone, Disconnect, Goto, TypeOK, Active
      <3>2. pc[r] \in Active => conversation[r] # None
        BY DEF Stages
      <3> QED
        BY <2>1, <2>4, <3>1, <3>2
    <2>5. CASE w # r /\ conversation[w] = None
      BY <1>2, <2>5, OneMoves DEF Stages, Active
    <2>6. CASE w # r /\ conversation[w] # None
      BY <1>2, <2>1, <2>6, OneMoves
    <2> QED
      BY <2>2, <2>3, <2>4, <2>5, <2>6
  <1> QED
    BY <1>1, <1>2, StepIsOfOne DEF Copies, Committed

-----------------------------------------------------------------------------

\* What a step of a request does to its copy.
LEMMA CopyMoves ==
    ASSUME TypeOK, Stages, IdsGiven, Rows, NEW r \in Requests, Acts(r)
    PROVE  \/ /\ pc[r] \in {"idle", "finding"}
              /\ Answered(conversation'[r].messages) = Answered(Origin(r).messages)
              /\ conversation'[r].id = Origin(r).id
              /\ conversation'[r].user = Origin(r).user
              /\ conversation'[r].context = Origin(r).context
              /\ ~SaveCommits(r)
           \/ /\ pc[r] = "answered"
              /\ Answered(conversation[r].messages) \subseteq Answered(conversation'[r].messages)
              /\ conversation'[r].id = conversation[r].id
              /\ conversation'[r].user = conversation[r].user
              /\ conversation'[r].context = conversation[r].context
              /\ ~SaveCommits(r)
           \/ SaveCommits(r)
           \/ /\ conversation' = conversation
              /\ pc'[r] \in Active => pc[r] \in Active
              /\ ~SaveCommits(r)
  <1>1. CASE ReceiveWithoutId(r) \/ FindById(r)
    <2>1. /\ pc[r] \in {"idle", "finding"}
          /\ StartAgent(r, Origin(r))
      BY <1>1, StartsOnOrigin
    <2>2. Origin(r) \in Conversations /\ Origin(r).messages \in Seq(Messages)
      BY <2>1, OriginType, OriginState
    <2>3. /\ conversation'[r].messages = Append(Origin(r).messages, User(r))
          /\ conversation'[r].id = Origin(r).id
          /\ conversation'[r].user = Origin(r).user
          /\ conversation'[r].context = Origin(r).context
      BY <2>1, <2>2, StartAgentType
    <2>4. Answered(conversation'[r].messages) = Answered(Origin(r).messages)
      BY <2>2, <2>3, AddQuery
    <2> QED
      BY <2>1, <2>3, <2>4 DEF SaveCommits
  <1>2. CASE AddAnswer(r)
    <2>1. pc[r] = "answered" /\ conversation[r] # None
      BY <1>2 DEF AddAnswer, Stages, Active
    <2>2. /\ conversation[r] \in Conversations /\ conversation[r].messages \in Seq(Messages)
          /\ Assistant(r) \in Messages
      BY <2>1, ConversationType, MessageTypes
    <2>3. conversation'[r] = AddMessage(conversation[r], Assistant(r))
      BY <1>2 DEF AddAnswer, TypeOK
    <2>4. /\ conversation'[r].messages = Append(conversation[r].messages, Assistant(r))
          /\ conversation'[r].id = conversation[r].id
          /\ conversation'[r].user = conversation[r].user
          /\ conversation'[r].context = conversation[r].context
      <3> DEFINE added == AddMessage(conversation[r], Assistant(r))
      <3>1. /\ added.messages = Append(conversation[r].messages, Assistant(r))
            /\ added.id = conversation[r].id
            /\ added.user = conversation[r].user
            /\ added.context = conversation[r].context
        BY <2>2, AddMessageType
      <3> QED
        BY <2>3, <3>1
    <2>5. Range(conversation[r].messages) \subseteq Range(conversation'[r].messages)
      BY <2>2, <2>4, OneMore
    <2>6. Answered(conversation[r].messages) \subseteq Answered(conversation'[r].messages)
      BY <2>5 DEF Answered
    <2> QED
      BY <2>1, <2>4, <2>6 DEF SaveCommits
  <1>3. CASE /\ ~SaveCommits(r)
             /\ \/ ReceiveWithId(r) \/ FindFails(r) \/ SendStep(r) \/ SendAnswer(r)
                \/ AgentFails(r) \/ SaveFails(r) \/ SendDone(r) \/ Disconnect(r)
    BY <1>3 DEF ReceiveWithId, FindFails, SendStep, SendAnswer, AgentFails, SaveFails,
       SendDone, Disconnect, Goto, TypeOK, Active
  <1> QED
    BY <1>1, <1>2, <1>3 DEF Acts

\* What was overwritten stays so, and what was missed stays missed.
LEMMA OverwrittenStays ==
    ASSUME TypeOK, Stages, NEW r \in Requests, Acts(r), NEW q \in committed, Overwritten(q)
    PROVE  \E w \in committed' : conversation'[w].id = conversation'[q].id /\ q \in missed'[w]
  <1>1. PICK w \in committed : conversation[w].id = conversation[q].id /\ q \in missed[w]
    BY DEF Overwritten
  <1>2. /\ w \in Requests /\ w \in committed' /\ q \in missed'[w]
        /\ conversation'[w] = conversation[w] /\ conversation'[q] = conversation[q]
    BY <1>1, NothingIsTakenBack DEF TypeOK
  <1> QED
    BY <1>1, <1>2

LEMMA LossStep ==
    ASSUME TypeOK, Stages, Copies, LossNeedsOverlap, CopiesMiss, [Next]_vars
    PROVE  LossNeedsOverlap'
  <1>1. CASE UNCHANGED vars
    BY <1>1 DEF vars, LossNeedsOverlap
  <1>2. ASSUME NEW r \in Requests, Acts(r), NEW q \in committed'
        PROVE  LET c == conversation'[q].id IN
               /\ table'[c] # None
               /\ \/ q \in Answered(table'[c].messages)
                  \/ \E w \in committed' : conversation'[w].id = c /\ q \in missed'[w]
    <2>1. CASE ~SaveCommits(r)
      <3>1. q \in committed /\ conversation'[q] = conversation[q] /\ table' = table
        BY <1>2, <2>1, OnlySavesWrite, NothingIsTakenBack
      <3>2. /\ table[conversation[q].id] # None
            /\ q \in Answered(table[conversation[q].id].messages) \/ Overwritten(q)
        BY <3>1 DEF LossNeedsOverlap, Overwritten
      <3> QED
        BY <1>2, <3>1, <3>2, OverwrittenStays
    <2>2. CASE SaveCommits(r)
      <3> DEFINE c == conversation[r].id
      <3>1. /\ pc[r] = "saving" /\ conversation[r] # None /\ c \in Ids
            /\ conversation' = conversation
            /\ committed' = committed \union {r}
            /\ \A d \in Ids \ {c} : table'[d] = table[d]
            /\ table'[c] = Merge(table[c], conversation[r]) /\ table'[c] # None
        BY <2>2, SaveWrites
      <3>2. table'[c].messages = conversation[r].messages
        BY <3>1, ConversationType, MergeType DEF TypeOK
      <3>3. CASE q = r
        BY <3>1, <3>2, <3>3, SavedTranscript
      <3>4. CASE q # r /\ conversation[q].id # c
        <4>1. q \in committed /\ conversation[q].id \in Ids
          BY <3>1, <3>4, ConversationType DEF Stages, TypeOK
        <4>2. /\ table[conversation[q].id] # None
              /\ q \in Answered(table[conversation[q].id].messages) \/ Overwritten(q)
          BY <4>1 DEF LossNeedsOverlap, Overwritten
        <4> QED
          BY <1>2, <3>1, <3>4, <4>1, <4>2, OverwrittenStays
      <3>5. CASE q # r /\ conversation[q].id = c
        <4>1. q \in committed
          BY <3>1, <3>5
        <4>2. \/ q \in Answered(conversation[r].messages)
              \/ q \in missed[r]
              \/ Overwritten(q)
          BY <3>1, <3>5, <4>1 DEF CopiesMiss, Active
        <4>3. q \in missed[r] => q \in missed'[r]
          BY <1>2, NothingIsTakenBack
        <4> QED
          BY <1>2, <3>1, <3>2, <3>5, <4>1, <4>2, <4>3, OverwrittenStays
      <3> QED
        BY <3>3, <3>4, <3>5
    <2> QED
      BY <2>1, <2>2
  <1> QED
    BY <1>1, <1>2, StepIsOfOne DEF LossNeedsOverlap

LEMMA CopiesMissStep ==
    ASSUME TypeOK, Stages, IdsGiven, Rows, LossNeedsOverlap, CopiesMiss, [Next]_vars
    PROVE  CopiesMiss'
  <1>1. CASE UNCHANGED vars
    BY <1>1 DEF vars, CopiesMiss, Overwritten
  <1>2. ASSUME NEW r \in Requests, Acts(r), NEW w \in Requests, pc'[w] \in Active,
               NEW q \in committed', conversation'[q].id = conversation'[w].id
        PROVE  \/ q \in Answered(conversation'[w].messages)
               \/ q \in missed'[w]
               \/ \E o \in committed' : conversation'[o].id = conversation'[q].id /\ q \in missed'[o]
    <2>1. CASE q \in committed /\ pc[w] \in Active /\ conversation'[w].id = conversation[w].id
               /\ Answered(conversation[w].messages) \subseteq Answered(conversation'[w].messages)
      <3>1. conversation'[q] = conversation[q] /\ missed[w] \subseteq missed'[w]
        BY <1>2, <2>1, NothingIsTakenBack
      <3>2. \/ q \in Answered(conversation[w].messages)
            \/ q \in missed[w]
            \/ Overwritten(q)
        BY <1>2, <2>1, <3>1 DEF CopiesMiss
      <3> QED
        BY <1>2, <2>1, <3>1, <3>2, OverwrittenStays
    <2>2. CASE q \notin committed
      <3>1. q = r /\ SaveCommits(r)
        BY <1>2, <2>2, NothingIsTakenBack
      <3>2. w # r /\ conversation' = conversation
        BY <1>2, <3>1, SaveWrites DEF Active
      <3> QED
        BY <1>2, <3>1, <3>2, SaveWrites, OneMoves
    <2>3. CASE /\ q \in committed /\ w = r /\ pc[r] \in {"idle", "finding"}
               /\ Answered(conversation'[r].messages) = Answered(Origin(r).messages)
               /\ conversation'[r].id = Origin(r).id
      <3>1. conversation'[q] = conversation[q]
        BY <1>2, <2>3, NothingIsTakenBack
      <3>2. /\ table[Origin(r).id] # None
            /\ q \in Answered(table[Origin(r).id].messages) \/ Overwritten(q)
        BY <1>2, <2>3, <3>1 DEF LossNeedsOverlap, Overwritten
      <3>3. Origin(r) = table[Origin(r).id]
        BY <2>3, <3>2, OriginState
      <3> QED
        BY <1>2, <2>3, <3>2, <3>3, OverwrittenStays
    <2>4. CASE q \in committed /\ w # r
      BY <1>2, <2>1, <2>4, OneMoves
    <2>5. CASE q \in committed /\ w = r
      BY <1>2, <2>1, <2>3, <2>5, CopyMoves, SaveWrites DEF Active
    <2> QED
      BY <2>2, <2>4, <2>5
  <1> QED
    BY <1>1, <1>2, StepIsOfOne DEF CopiesMiss, Overwritten

LEMMA MixedStep ==
    ASSUME TypeOK, Stages, MixedRowNeedsOverlap, CopiesMix, [Next]_vars
    PROVE  MixedRowNeedsOverlap'
  <1>1. CASE UNCHANGED vars
    BY <1>1 DEF vars, MixedRowNeedsOverlap
  <1>2. ASSUME NEW r \in Requests, Acts(r), NEW c \in Ids,
               table'[c] # None, table'[c].user # table'[c].context
        PROVE  table'[c].user \in missed'[table'[c].context]
    <2>1. CASE table'[c] = table[c]
      <3>1. table[c].user \in missed[table[c].context] /\ table[c].context \in Requests
        BY <1>2, <2>1, RowType DEF MixedRowNeedsOverlap
      <3> QED
        BY <1>2, <2>1, <3>1, NothingIsTakenBack
    <2>2. CASE SaveCommits(r) /\ c = conversation[r].id
      <3> DEFINE conv == conversation[r]
                 row == table[c]
      <3>1. /\ pc[r] = "saving" /\ conv \in Conversations /\ conv.context \in Requests
            /\ row \in Conversations \union {None}
        BY <2>2, SaveWrites, ConversationType DEF TypeOK
      <3>2. /\ table'[c].context = conv.context
            /\ table'[c].user = IF row = None THEN conv.user ELSE row.user
        BY <2>2, <3>1, SaveWrites, MergeType
      <3>3. \/ /\ conv.user = r /\ conv.context = r
               /\ row # None => row.user \in missed[r]
            \/ /\ row # None
               /\ conv.user = row.user
               /\ conv.user # conv.context => conv.user \in missed[conv.context]
        BY <2>2, <3>1 DEF CopiesMix, MixedOnlyBy, Active
      <3>4. table'[c].user \in missed[conv.context]
        BY <1>2, <3>2, <3>3
      <3> QED
        BY <1>2, <3>1, <3>2, <3>4, NothingIsTakenBack
    <2> QED
      BY <1>2, <2>1, <2>2, OnlySavesWrite, SaveWrites
  <1> QED
    BY <1>1, <1>2, StepIsOfOne DEF MixedRowNeedsOverlap

LEMMA CopiesMixStep ==
    ASSUME TypeOK, Stages, IdsGiven, Rows, MixedRowNeedsOverlap, CopiesMix, [Next]_vars
    PROVE  CopiesMix'
  <1>1. CASE UNCHANGED vars
    BY <1>1 DEF vars, CopiesMix, MixedOnlyBy
  <1>2. ASSUME NEW r \in Requests, Acts(r), NEW w \in Requests, pc'[w] \in Active
        PROVE  LET conv == conversation'[w] row == table'[conv.id] IN
               \/ /\ conv.user = w /\ conv.context = w
                  /\ row # None => row.user \in missed'[w]
               \/ /\ row # None
                  /\ conv.user = row.user
                  /\ conv.user # conv.context => conv.user \in missed'[conv.context]
    <2>1. ASSUME pc[w] \in Active,
                 conversation'[w].id = conversation[w].id,
                 conversation'[w].user = conversation[w].user,
                 conversation'[w].context = conversation[w].context,
                 ~SaveCommits(r) \/ w # r
          PROVE  LET conv == conversation[w] row == table'[conv.id] IN
                 \/ /\ conv.user = w /\ conv.context = w
                    /\ row # None => row.user \in missed'[w]
                 \/ /\ row # None
                    /\ conv.user = row.user
                    /\ conv.user # conv.context => conv.user \in missed'[conv.context]
      <3> DEFINE conv == conversation[w]
                 row == table[conv.id]
      <3>1. conv # None /\ conv.id \in Ids /\ conv.context \in Requests
        BY <2>1, ConversationType DEF Stages
      <3>2. \/ /\ conv.user = w /\ conv.context = w
               /\ row # None => row.user \in missed[w]
            \/ /\ row # None
               /\ conv.user = row.user
               /\ conv.user # conv.context => conv.user \in missed[conv.context]
        BY <2>1 DEF CopiesMix, MixedOnlyBy
      <3>3. missed[w] \subseteq missed'[w] /\ missed[conv.context] \subseteq missed'[conv.context]
        BY <1>2, <3>1, NothingIsTakenBack
      <3>4. CASE table'[conv.id] = row
        BY <3>2, <3>3, <3>4
      <3>5. CASE SaveCommits(r) /\ conversation[r].id = conv.id
        <4>1. /\ pc[r] = "saving" /\ conversation[r] \in Conversations
              /\ row \in Conversations \union {None}
          BY <3>1, <3>5, SaveWrites, ConversationType DEF TypeOK
        <4>2. /\ table'[conv.id] # None
              /\ table'[conv.id].user = IF row = None THEN conversation[r].user ELSE row.user
          BY <3>5, <4>1, SaveWrites, MergeType
        <4>3. row = None => conversation[r].user = r
          BY <3>5, <4>1 DEF CopiesMix, Active
        <4>4. r \in missed'[w]
          BY <2>1, <3>5, SaveWrites
        <4> QED
          BY <3>2, <3>3, <4>2, <4>3, <4>4
      <3> QED
        BY <1>2, <3>1, <3>4, <3>5, OnlySavesWrite, SaveWrites
    <2>2. ASSUME w = r, pc[r] \in {"idle", "finding"},
                 conversation'[r].id = Origin(r).id,
                 conversation'[r].user = Origin(r).user,
                 conversation'[r].context = Origin(r).context,
                 ~SaveCommits(r)
          PROVE  LET conv == Origin(r) row == table[conv.id] IN
                 \/ conv.user = r /\ conv.context = r /\ row = None
                 \/ /\ row # None
                    /\ conv.user = row.user
                    /\ conv.user # conv.context => conv.user \in missed[conv.context]
      BY <2>2, OriginState DEF MixedRowNeedsOverlap
    <2>3. CASE w # r
      <3>1. pc[w] \in Active /\ conversation'[w] = conversation[w]
        BY <1>2, <2>3, OneMoves
      <3> QED
        BY <2>1, <2>3, <3>1
    <2>4. CASE w = r
      <3>1. pc'[r] \in Active /\ ~SaveCommits(r) /\ table' = table /\ missed' = missed
        BY <1>2, <2>4, SaveWrites, OnlySavesWrite DEF Active
      <3> QED
        BY <1>2, <2>1, <2>2, <2>4, <3>1, CopyMoves DEF Active
    <2> QED
      BY <2>3, <2>4
  <1> QED
    BY <1>1, <1>2, StepIsOfOne DEF CopiesMix, MixedOnlyBy

-----------------------------------------------------------------------------

LEMMA InitInv == Init => IInv
  <1> SUFFICES ASSUME Init
               PROVE  IInv
    OBVIOUS
  <1> USE DEF Init
  <1>1. TypeOK
    BY DEF TypeOK
  <1>2. Stages
    BY DEF Stages, Active
  <1>3. IdsGiven
    BY RequestsAssumption DEF IdsGiven
  <1>4. Sent
    BY DEF Sent
  <1>5. StreamGrammar
    <2>1. Len(<< >>) = 0 /\ << >> # <<"done">>
      OBVIOUS
    <2> QED
      BY <2>1 DEF StreamGrammar
  <1>6. Copies /\ CopiesMiss /\ CopiesMix
    BY DEF Copies, CopiesMiss, CopiesMix, Active
  <1>7. Rows /\ LossNeedsOverlap /\ MixedRowNeedsOverlap
    BY DEF Rows, LossNeedsOverlap, MixedRowNeedsOverlap
  <1> QED
    BY <1>1, <1>2, <1>3, <1>4, <1>5, <1>6, <1>7 DEF IInv

\* The invariant is inductive: it holds in every state of every behaviour.
THEOREM Invariance == Spec => []IInv
  <1>1. Init => IInv
    BY InitInv
  <1>2. IInv /\ [Next]_vars => IInv'
    BY TypeStep, StagesStep, IdsStep, EventsStep, CopiesStep, RowsStep, LossStep,
       CopiesMissStep, MixedStep, CopiesMixStep DEF IInv
  <1> QED
    BY <1>1, <1>2, PTL DEF Spec

\* Every variable keeps its type.
THEOREM TypeCorrect == Spec => []TypeOK
  <1>1. IInv => TypeOK
    BY DEF IInv
  <1> QED
    BY <1>1, Invariance, PTL

\* A stored transcript is made of whole exchanges, none of them twice, whatever
\* requests fail, disconnect or overwrite each other (run_agent.py:81, 94-137).
THEOREM TranscriptsAreWhole == Spec => []TranscriptsAreExchanges
  <1>1. IInv => TranscriptsAreExchanges
    BY DEF IInv, Rows, IsTranscript, TranscriptsAreExchanges
  <1> QED
    BY <1>1, Invariance, PTL

\* What a transcript holds as an answer was sent, to a request of that
\* conversation (run_agent.py:97-100, 129-137).
THEOREM StoredWasSent == Spec => []StoredAnswersWereSent
  <1>1. IInv => StoredAnswersWereSent
    <2> SUFFICES ASSUME IInv, NEW c \in Ids, table[c] # None,
                        NEW q \in Answered(table[c].messages)
                 PROVE  "final_answer" \in Range(events[q]) /\ conversation[q].id = c
      BY DEF StoredAnswersWereSent
    <2>1. q \in Requests /\ q \in committed /\ conversation[q].id = c
      BY DEF IInv, Rows, Committed, Answered
    <2> QED
      BY <2>1 DEF IInv, Sent
  <1> QED
    BY <1>1, Invariance, PTL

\* A saved exchange is missing from its conversation only if it was saved while
\* the request that wrote it away was under way (run_agent.py:68-69, 134-135).
THEOREM NoLossWithoutOverlap == Spec => []LossNeedsOverlap
  <1>1. IInv => LossNeedsOverlap
    BY DEF IInv
  <1> QED
    BY <1>1, Invariance, PTL

\* The user and the context of a row come from different requests only if one
\* created the conversation while the other was creating it
\* (mysql_conversation_adapter.py:48-58).
THEOREM NoMixWithoutOverlap == Spec => []MixedRowNeedsOverlap
  <1>1. IInv => MixedRowNeedsOverlap
    BY DEF IInv
  <1> QED
    BY <1>1, Invariance, PTL

\* A client is sent steps, then an answer and done, or an error
\* (run_agent.py:94-145, agent_router.py:45-109).
THEOREM StreamsAreGrammatical == Spec => []StreamGrammar
  <1>1. IInv => StreamGrammar
    BY DEF IInv
  <1> QED
    BY <1>1, Invariance, PTL

-----------------------------------------------------------------------------
(***************************************************************************)
(* Requests and the table implement the store.  A transcript is a sequence *)
(* of whole exchanges, so its exchanges are the answers at its even places *)
(* and what a request opened is what its copy holds before its own query.  *)
(***************************************************************************)

Exchanges(m) == [i \in 1..(Len(m) \div 2) |-> m[2 * i].by]

\* Every exchange of a transcript is one of the answers it holds.
LEMMA TranscriptExchanges ==
    ASSUME NEW m \in Seq(Messages), IsTranscript(m)
    PROVE  /\ Len(m) \in Nat /\ (Len(m) \div 2) \in Nat
           /\ Len(m) = 2 * (Len(m) \div 2)
           /\ \A i \in 1..(Len(m) \div 2) : m[2 * i].by \in Answered(m)
           /\ Exchanges(m) \in Seq(Requests)
           /\ Len(Exchanges(m)) = Len(m) \div 2
           /\ \A q : q \notin Answered(m) => ExchangesBut(q, m) = Exchanges(m)
  <1> DEFINE k == Len(m) \div 2
  <1>1. Len(m) \in Nat /\ k \in Nat /\ Len(m) = 2 * k
    BY DEF IsTranscript
  <1>2. ASSUME NEW i \in 1..k
        PROVE  m[2 * i].by \in Answered(m)
    <2>1. /\ 2 * i - 1 \in 1..Len(m) /\ (2 * i - 1) % 2 = 1
          /\ (2 * i - 1) + 1 = 2 * i /\ 2 * i \in DOMAIN m
      BY <1>1
    <2>2. PICK q \in Requests : m[2 * i] = Assistant(q)
      BY <2>1 DEF IsTranscript
    <2>3. m[2 * i].by = q
      BY <2>2 DEF Assistant
    <2> QED
      BY <2>1, <2>2, <2>3 DEF Answered, Range
  <1>3. Exchanges(m) \in Seq(Requests) /\ Len(Exchanges(m)) = k
    <2>1. \A i \in 1..k : m[2 * i].by \in Requests
      BY <1>2 DEF Answered
    <2> QED
      BY <1>1, <2>1 DEF Exchanges
  <1>4. ASSUME NEW q, q \notin Answered(m)
        PROVE  ExchangesBut(q, m) = Exchanges(m)
    <2>1. {j \in 1..k : m[2 * j].by # q} = 1..k
      BY <1>2, <1>4
    <2> QED
      BY <2>1 DEF ExchangesBut, Exchanges
  <1> QED
    BY <1>1, <1>2, <1>3, <1>4

\* The query of a request adds no exchange to what it opened.
LEMMA QueryIsNoExchange ==
    ASSUME NEW m \in Seq(Messages), IsTranscript(m), NEW r \in Requests, r \notin Answered(m)
    PROVE  ExchangesBut(r, Append(m, User(r))) = Exchanges(m)
  <1> DEFINE n == Append(m, User(r))
             k == Len(m) \div 2
  <1>1. /\ Len(m) \in Nat /\ k \in Nat /\ Len(m) = 2 * k
        /\ \A i \in 1..k : m[2 * i].by \in Answered(m)
    BY TranscriptExchanges
  <1>2. Len(n) = 2 * k + 1 /\ \A i \in 1..Len(m) : n[i] = m[i]
    <2>1. User(r) \in Messages
      BY MessageTypes
    <2>2. Len(n) = Len(m) + 1 /\ \A i \in 1..Len(m) : n[i] = m[i]
      BY <2>1
    <2> QED
      BY <1>1, <2>2
  <1>3. Len(n) \div 2 = k
    BY <1>1, <1>2
  <1>4. \A i \in 1..k : n[2 * i].by = m[2 * i].by
    BY <1>1, <1>2
  <1>5. {j \in 1..k : n[2 * j].by # r} = 1..k
    BY <1>1, <1>4
  <1> HIDE DEF n
  <1>6. ExchangesBut(r, n) = [i \in 1..k |-> n[2 * i].by]
    BY <1>3, <1>5 DEF ExchangesBut
  <1> QED
    BY <1>4, <1>6 DEF n, Exchanges

\* The whole exchange of a request is none it opened, and the last one it saves.
LEMMA OwnExchangeIsLast ==
    ASSUME NEW m \in Seq(Messages), IsTranscript(m), NEW r \in Requests, r \notin Answered(m),
           NEW n, n = Append(Append(m, User(r)), Assistant(r))
    PROVE  /\ ExchangesBut(r, n) = Exchanges(m)
           /\ ExchangesBut(None, n) = Append(Exchanges(m), r)
  <1> DEFINE k == Len(m) \div 2
  <1>1. /\ Len(m) \in Nat /\ k \in Nat /\ Len(m) = 2 * k
        /\ \A i \in 1..k : m[2 * i].by \in Answered(m)
        /\ Exchanges(m) \in Seq(Requests) /\ Len(Exchanges(m)) = k
    BY TranscriptExchanges
  <1>2. /\ Len(n) = 2 * k + 2 /\ \A i \in 1..Len(m) : n[i] = m[i]
        /\ n[2 * k + 2] = Assistant(r) /\ n \in Seq(Messages)
    BY <1>1, MessageTypes
  <1>3. Len(n) \div 2 = k + 1
    BY <1>1, <1>2
  <1>4. \A i \in 1..k : n[2 * i].by = m[2 * i].by
    BY <1>1, <1>2
  <1>5. n[2 * (k + 1)].by = r
    BY <1>1, <1>2 DEF Assistant
  <1>6. ExchangesBut(r, n) = Exchanges(m)
    <2>1. {j \in 1..(k + 1) : n[2 * j].by # r} = 1..k
      <3> HIDE DEF k
      <3>1. \A j \in 1..k : j \in 1..(k + 1) /\ n[2 * j].by # r
        BY <1>1, <1>4
      <3>2. \A j \in 1..(k + 1) : j \in 1..k \/ j = k + 1
        BY <1>1
      <3> QED
        BY <1>5, <3>1, <3>2
    <2>2. ExchangesBut(r, n) = [i \in 1..k |-> n[2 * i].by]
      BY <1>3, <2>1 DEF ExchangesBut
    <2> QED
      BY <1>4, <2>2 DEF Exchanges
  <1>7. ExchangesBut(None, n) = Append(Exchanges(m), r)
    <2>1. IsTranscript(n) /\ None \notin Answered(n)
      BY <1>2, AddExchange, RequestsAssumption DEF Answered
    <2>2. ExchangesBut(None, n) = Exchanges(n)
      BY <1>2, <2>1, TranscriptExchanges
    <2>3. Exchanges(n) = [i \in 1..(k + 1) |-> n[2 * i].by]
      BY <1>3 DEF Exchanges
    <2>4. Append(Exchanges(m), r) = [i \in 1..(k + 1) |-> IF i = k + 1 THEN r ELSE Exchanges(m)[i]]
      <3> HIDE DEF k
      <3>1. /\ Append(Exchanges(m), r) \in Seq(Requests) /\ Len(Append(Exchanges(m), r)) = k + 1
            /\ \A i \in 1..k : Append(Exchanges(m), r)[i] = Exchanges(m)[i]
            /\ Append(Exchanges(m), r)[k + 1] = r
        BY <1>1
      <3>2. \A i \in 1..(k + 1) : i \in 1..k \/ i = k + 1
        BY <1>1
      <3>3. \A i \in 1..(k + 1) :
              Append(Exchanges(m), r)[i] = IF i = k + 1 THEN r ELSE Exchanges(m)[i]
        BY <1>1, <3>1, <3>2
      <3>4. \A a \in Seq(Requests) : a = [i \in 1..Len(a) |-> a[i]]
        OBVIOUS
      <3>5. Append(Exchanges(m), r) = [i \in 1..(k + 1) |-> Append(Exchanges(m), r)[i]]
        BY <3>1, <3>4
      <3> QED
        BY <3>3, <3>5
    <2>5. \A i \in 1..k : Exchanges(m)[i] = n[2 * i].by
      BY <1>4 DEF Exchanges
    <2>6. \A i \in 1..(k + 1) : n[2 * i].by = IF i = k + 1 THEN r ELSE Exchanges(m)[i]
      <3> HIDE DEF k
      <3>1. k \in Nat
        BY <1>1
      <3>2. \A i \in 1..(k + 1) : (i \in 1..k /\ i # k + 1) \/ i = k + 1
        BY <3>1
      <3> QED
        BY <1>5, <2>5, <3>2, Zenon
    <2> QED
      BY <2>2, <2>3, <2>4, <2>6
  <1> QED
    BY <1>6, <1>7

\* A row holds whole exchanges.
LEMMA RowExchanges ==
    ASSUME TypeOK, Rows, NEW c \in Ids, table[c] # None
    PROVE  ExchangesBut(None, table[c].messages) = Exchanges(table[c].messages)
  <1>1. table[c].messages \in Seq(Messages) /\ IsTranscript(table[c].messages)
    BY RowType DEF Rows
  <1> QED
    BY <1>1, TranscriptExchanges, RequestsAssumption DEF Answered

\* The state of the store.
History == [c \in Ids |-> IF table[c] = None THEN << >>
                          ELSE ExchangesBut(None, table[c].messages)]
PhaseIn(r, place, saved) ==
    CASE r \in saved -> "committed"
      [] r \notin saved /\ place \in {"closing"} \union Ended -> "closed"
      [] place \in {"idle", "finding"} -> "idle"
      [] OTHER -> "open"
Phase == [r \in Requests |-> PhaseIn(r, pc[r], committed)]
Target == [r \in Requests |-> IF conversation[r] = None THEN None ELSE conversation[r].id]
Opened == [r \in Requests |-> IF conversation[r] = None THEN << >>
                              ELSE ExchangesBut(r, conversation[r].messages)]

\* The phase of a request, place by place.
LEMMA PhasePlaces ==
    ASSUME NEW r, NEW place, NEW saved
    PROVE  /\ r \in saved /\ place \notin {"idle", "finding"} =>
                PhaseIn(r, place, saved) = "committed"
           /\ r \notin saved /\ place \in {"closing"} \union Ended =>
                PhaseIn(r, place, saved) = "closed"
           /\ r \notin saved /\ place \in {"idle", "finding"} => PhaseIn(r, place, saved) = "idle"
           /\ r \notin saved /\ place \in Active => PhaseIn(r, place, saved) = "open"
  <1>1. CASE r \in saved /\ place \notin {"idle", "finding"}
    BY <1>1 DEF PhaseIn
  <1>2. CASE r \notin saved /\ place \in {"closing"} \union Ended
    BY <1>2 DEF PhaseIn, Active, Ended
  <1>3. CASE r \notin saved /\ place \in {"idle", "finding"}
    BY <1>3 DEF PhaseIn, Active, Ended
  <1>4. CASE r \notin saved /\ place \in Active
    BY <1>4 DEF PhaseIn, Active, Ended
  <1> QED
    BY <1>1, <1>2, <1>3, <1>4

\* Only what is about to close can have been committed.
LEMMA PhaseOf ==
    ASSUME Stages, Stages', NEW r \in Requests
    PROVE  /\ Phase[r] = PhaseIn(r, pc[r], committed)
           /\ Phase'[r] = PhaseIn(r, pc'[r], committed')
           /\ pc[r] \in {"idle", "finding"} \union Active => r \notin committed
           /\ pc'[r] \in {"idle", "finding"} \union Active => r \notin committed'
  <1>1. /\ pc[r] \in {"idle", "finding"} \union Active => r \notin committed
        /\ pc'[r] \in {"idle", "finding"} \union Active => r \notin committed'
    BY DEF Stages, Active
  <1> QED
    BY <1>1 DEF Phase

\* What a request opens: the copy of one that begins holds the row it read.
LEMMA BeginsWithTheRow ==
    ASSUME TypeOK, Stages, IdsGiven, Rows, NEW r \in Requests, ReceiveWithoutId(r) \/ FindById(r)
    PROVE  /\ pc[r] \in {"idle", "finding"} /\ pc'[r] = "running"
           /\ conversation'[r] # None
           /\ conversation'[r].id \in Ids
           /\ ExchangesBut(r, conversation'[r].messages) = History[conversation'[r].id]
           /\ table' = table /\ committed' = committed
  <1> DEFINE m == Origin(r).messages
             c == Origin(r).id
  <1>1. /\ pc[r] \in {"idle", "finding"}
        /\ StartAgent(r, Origin(r))
        /\ table' = table /\ committed' = committed
    BY StartsOnOrigin
  <1>2. /\ c \in Ids /\ m \in Seq(Messages)
        /\ IF table[c] = None THEN m = << >> ELSE m = table[c].messages
    BY <1>1, OriginState
  <1>3. /\ conversation'[r] \in Conversations /\ conversation'[r].id = c
        /\ conversation'[r].messages = Append(m, User(r))
        /\ pc'[r] = "running"
    BY <1>1, OriginType, StartAgentType
  <1>4. IsTranscript(m) /\ r \notin Answered(m)
    <2>1. r \notin committed
      BY <1>1 DEF Stages
    <2>2. CASE table[c] = None
      BY <1>2, <2>2, EmptyTranscript
    <2>3. CASE table[c] # None
      BY <1>2, <2>1, <2>3 DEF Rows, Committed
    <2> QED
      BY <2>2, <2>3
  <1>5. ExchangesBut(r, Append(m, User(r))) = Exchanges(m)
    BY <1>2, <1>4, QueryIsNoExchange
  <1>6. Exchanges(m) = History[c]
    <2>1. CASE table[c] = None
      <3>1. Exchanges(<< >>) = << >>
        BY DEF Exchanges
      <3> QED
        BY <1>2, <2>1, <3>1 DEF History
    <2>2. CASE table[c] # None
      BY <1>2, <2>2, RowExchanges DEF History
    <2> QED
      BY <2>1, <2>2
  <1> QED
    BY <1>1, <1>2, <1>3, <1>5, <1>6, NoneAssumption

\* What a request saves: the transcript it opened and its own exchange.
LEMMA SavesWhatItOpened ==
    ASSUME TypeOK, Stages, Copies, NEW r \in Requests, SaveCommits(r)
    PROVE  /\ Target[r] \in Ids
           /\ History' = [History EXCEPT ![Target[r]] = Append(Opened[r], r)]
  <1> DEFINE c == conversation[r].id
  <1>1. /\ pc[r] = "saving" /\ r \notin committed /\ conversation[r] # None /\ c \in Ids
        /\ \A d \in Ids \ {c} : table'[d] = table[d]
        /\ table'[c] = Merge(table[c], conversation[r]) /\ table'[c] # None
    BY SaveWrites
  <1>2. PICK m \in Seq(Messages) :
          /\ conversation[r].messages = Append(Append(m, User(r)), Assistant(r))
          /\ IsTranscript(m) /\ Committed(m, c)
    BY <1>1 DEF Copies
  <1>3. r \notin Answered(m)
    BY <1>1, <1>2 DEF Committed
  <1>4. /\ ExchangesBut(r, conversation[r].messages) = Exchanges(m)
        /\ ExchangesBut(None, conversation[r].messages) = Append(Exchanges(m), r)
    BY <1>2, <1>3, OwnExchangeIsLast
  <1>5. table'[c].messages = conversation[r].messages
    BY <1>1, ConversationType, MergeType DEF TypeOK
  <1>6. Target[r] = c /\ Opened[r] = Exchanges(m)
    BY <1>1, <1>4 DEF Target, Opened
  <1>7. History'[c] = Append(Exchanges(m), r) /\ \A d \in Ids \ {c} : History'[d] = History[d]
    BY <1>1, <1>4, <1>5 DEF History
  <1>8. DOMAIN History = Ids /\ History' = [d \in Ids |-> History'[d]]
        /\ History = [d \in Ids |-> History[d]]
    BY DEF History
  <1> QED
    BY <1>1, <1>6, <1>7, <1>8

\* The answer of a request changes nothing of what it opened.
LEMMA AnswerOpensNothing ==
    ASSUME TypeOK, Stages, Copies, NEW r \in Requests, AddAnswer(r)
    PROVE  /\ conversation[r] # None /\ conversation'[r] # None
           /\ conversation'[r].id = conversation[r].id
           /\ ExchangesBut(r, conversation'[r].messages) = ExchangesBut(r, conversation[r].messages)
  <1>1. pc[r] = "answered" /\ r \notin committed /\ conversation[r] # None
    BY DEF AddAnswer, Stages, Active
  <1>2. PICK m \in Seq(Messages) :
          /\ conversation[r].messages = Append(m, User(r))
          /\ IsTranscript(m) /\ Committed(m, conversation[r].id)
    BY <1>1 DEF Copies
  <1>3. r \notin Answered(m)
    BY <1>1, <1>2 DEF Committed
  <1>4. conversation'[r] = AddMessage(conversation[r], Assistant(r))
    BY DEF AddAnswer, TypeOK
  <1>5. /\ conversation'[r] \in Conversations
        /\ conversation'[r].id = conversation[r].id
        /\ conversation'[r].messages = Append(Append(m, User(r)), Assistant(r))
    <2>1. conversation[r] \in Conversations
      BY <1>1, ConversationType
    <2>2. Assistant(r) \in Messages
      BY MessageTypes
    <2> DEFINE added == AddMessage(conversation[r], Assistant(r))
    <2>3. /\ added \in Conversations
          /\ added.messages = Append(conversation[r].messages, Assistant(r))
          /\ added.id = conversation[r].id
      BY <2>1, <2>2, AddMessageType
    <2> QED
      BY <1>2, <1>4, <2>3
  <1>6. /\ ExchangesBut(r, conversation[r].messages) = Exchanges(m)
        /\ ExchangesBut(r, conversation'[r].messages) = Exchanges(m)
    <2>1. ExchangesBut(r, Append(m, User(r))) = Exchanges(m)
      BY <1>2, <1>3, QueryIsNoExchange
    <2>2. ExchangesBut(r, Append(Append(m, User(r)), Assistant(r))) = Exchanges(m)
      BY <1>2, <1>3, OwnExchangeIsLast
    <2> QED
      BY <1>2, <1>5, <2>1, <2>2
  <1> QED
    BY <1>1, <1>5, <1>6, NoneAssumption

\* The store seen through the mapping.
LEMMA StoreActions ==
    /\ UNCHANGED <<History, Phase, Target, Opened>> => UNCHANGED Store!vars
    /\ \A r \in Requests, c \in Ids :
         Store!Open(r, c) <=>
           /\ Phase[r] = "idle"
           /\ Phase' = [Phase EXCEPT ![r] = "open"]
           /\ Target' = [Target EXCEPT ![r] = c]
           /\ Opened' = [Opened EXCEPT ![r] = History[c]]
           /\ History' = History
    /\ \A r \in Requests :
         Store!Commit(r) <=>
           /\ Phase[r] = "open"
           /\ Phase' = [Phase EXCEPT ![r] = "committed"]
           /\ History' = [History EXCEPT ![Target[r]] = Append(Opened[r], r)]
           /\ Target' = Target /\ Opened' = Opened
    /\ \A r \in Requests :
         Store!Close(r) <=>
           /\ Phase[r] \in {"idle", "open"}
           /\ Phase' = [Phase EXCEPT ![r] = "closed"]
           /\ History' = History /\ Target' = Target /\ Opened' = Opened
  BY DEF Store!vars, Store!Open, Store!Commit, Store!Close, History, Phase, PhaseIn, Target, Opened

\* A step of a request leaves alone what the store keeps of the others.
LEMMA OthersKeep ==
    ASSUME TypeOK, Stages, IdsGiven, NEW r \in Requests, Acts(r)
    PROVE  /\ Phase' = [Phase EXCEPT ![r] = Phase'[r]]
           /\ Target' = [Target EXCEPT ![r] = Target'[r]]
           /\ Opened' = [Opened EXCEPT ![r] = Opened'[r]]
           /\ Phase'[r] = Phase[r] => Phase' = Phase
           /\ Target'[r] = Target[r] => Target' = Target
           /\ Opened'[r] = Opened[r] => Opened' = Opened
           /\ table' = table => History' = History
  <1>1. /\ DOMAIN Phase = Requests /\ Phase' = [q \in Requests |-> Phase'[q]]
        /\ DOMAIN Target = Requests /\ Target' = [q \in Requests |-> Target'[q]]
        /\ DOMAIN Opened = Requests /\ Opened' = [q \in Requests |-> Opened'[q]]
    BY DEF Phase, Target, Opened
  <1>2. ASSUME NEW q \in Requests \ {r}
        PROVE  Phase'[q] = Phase[q] /\ Target'[q] = Target[q] /\ Opened'[q] = Opened[q]
    <2>1. pc'[q] = pc[q] /\ conversation'[q] = conversation[q]
      BY <1>2, OneMoves
    <2>2. q \in committed' <=> q \in committed
      BY <1>2, NothingIsTakenBack
    <2>3. Phase'[q] = Phase[q]
      BY <2>1, <2>2 DEF Phase, PhaseIn
    <2> QED
      BY <2>1, <2>3 DEF Target, Opened
  <1>3. /\ Phase = [q \in Requests |-> Phase[q]] /\ Target = [q \in Requests |-> Target[q]]
        /\ Opened = [q \in Requests |-> Opened[q]]
    BY DEF Phase, Target, Opened
  <1>4. table' = table => History' = History
    BY DEF History
  <1> QED
    BY <1>1, <1>2, <1>3, <1>4

LEMMA StoreInit == Init => Store!Init
  BY DEF Init, Store!Init, Ended

\* Each step of the requests is a step of the store, or changes nothing of it.
LEMMA StoreStep ==
    ASSUME IInv, IInv', [Next]_vars
    PROVE  [Store!Next]_(Store!vars)
  <1> USE DEF IInv
  <1>1. CASE UNCHANGED vars
    <2>1. History' = History /\ Phase' = Phase /\ Target' = Target /\ Opened' = Opened
      BY <1>1 DEF vars, History, Phase, Target, Opened
    <2>2. UNCHANGED Store!vars
      BY <2>1, StoreActions
    <2> QED
      BY <2>2
  <1>2. ASSUME NEW r \in Requests, Acts(r)
        PROVE  [Store!Next]_(Store!vars)
    <2> DEFINE Still == History' = History /\ Target' = Target /\ Opened' = Opened
    <2>1. SUFFICES \/ Still /\ Phase' = Phase
                   \/ \E c \in Ids : Store!Open(r, c)
                   \/ Store!Commit(r)
                   \/ Store!Close(r)
      <3>1. Still /\ Phase' = Phase => UNCHANGED Store!vars
        BY StoreActions
      <3> HIDE DEF Still
      <3> QED
        BY <1>2, <3>1 DEF Store!Next
    <2>0. /\ Phase' = [Phase EXCEPT ![r] = Phase'[r]]
          /\ Target' = [Target EXCEPT ![r] = Target'[r]]
          /\ Opened' = [Opened EXCEPT ![r] = Opened'[r]]
          /\ Phase'[r] = Phase[r] => Phase' = Phase
          /\ Target'[r] = Target[r] => Target' = Target
          /\ Opened'[r] = Opened[r] => Opened' = Opened
          /\ table' = table => History' = History
      BY <1>2, OthersKeep
    <2>2. ASSUME conversation' = conversation, table' = table
          PROVE  Still
      BY <2>2 DEF History, Target, Opened
    <2>3. CASE ReceiveWithoutId(r) \/ FindById(r)
      <3>1. PICK c \in Ids :
              /\ pc[r] \in {"idle", "finding"} /\ pc'[r] = "running"
              /\ conversation'[r] # None /\ conversation'[r].id = c
              /\ ExchangesBut(r, conversation'[r].messages) = History[c]
              /\ table' = table
        BY <2>3, BeginsWithTheRow
      <3>2. Phase[r] = "idle" /\ Phase'[r] = "open"
        BY <3>1, PhaseOf, PhasePlaces DEF Active
      <3>3. Target'[r] = c /\ Opened'[r] = History[c]
        BY <3>1 DEF Target, Opened
      <3>4. Store!Open(r, c)
        <4>1. /\ Phase' = [Phase EXCEPT ![r] = "open"]
              /\ Target' = [Target EXCEPT ![r] = c]
              /\ Opened' = [Opened EXCEPT ![r] = History[c]]
              /\ History' = History
          BY <2>0, <3>1, <3>2, <3>3
        <4> QED
          BY <3>1, <3>2, <4>1, StoreActions
      <3> QED
        BY <3>1, <3>4
    <2>4. CASE SaveCommits(r)
      <3>1. /\ pc[r] = "saving" /\ conversation' = conversation /\ r \in committed'
        BY <2>4, SaveWrites
      <3>2. Phase[r] = "open" /\ Phase'[r] = "committed"
        BY <3>1, PhaseOf, PhasePlaces DEF Active
      <3>3. Target' = Target /\ Opened' = Opened
        BY <3>1 DEF Target, Opened
      <3>4. History' = [History EXCEPT ![Target[r]] = Append(Opened[r], r)]
        BY <2>4, SavesWhatItOpened
      <3> QED
        BY <1>2, <2>0, <3>2, <3>3, <3>4, StoreActions
    <2>5. CASE AddAnswer(r)
      <3>1. pc[r] = "answered" /\ pc'[r] = "saving" /\ table' = table
        BY <2>5 DEF AddAnswer, Goto, TypeOK
      <3>2. Phase[r] = "open" /\ Phase'[r] = "open"
        BY <3>1, PhaseOf, PhasePlaces DEF Active
      <3>3. Target'[r] = Target[r] /\ Opened'[r] = Opened[r]
        BY <2>5, AnswerOpensNothing DEF Target, Opened
      <3> QED
        BY <2>0, <3>1, <3>2, <3>3
    <2>6. CASE \/ FindFails(r) \/ AgentFails(r) \/ SaveFails(r)
               \/ Disconnect(r) /\ pc[r] # "closing"
      <3>1. /\ pc[r] \in {"finding"} \union Active /\ pc'[r] \in {"closing"} \union Ended
            /\ conversation' = conversation /\ table' = table /\ committed' = committed
        BY <2>6 DEF FindFails, AgentFails, SaveFails, Disconnect, Goto, TypeOK, Active, Ended
      <3>2. r \notin committed'
        BY <3>1 DEF Stages, Active
      <3>3. Phase[r] \in {"idle", "open"} /\ Phase'[r] = "closed"
        BY <3>1, <3>2, PhaseOf, PhasePlaces
      <3> QED
        BY <1>2, <2>0, <2>2, <3>1, <3>3, StoreActions
    <2>7. CASE \/ ReceiveWithId(r) \/ SendStep(r) \/ SendAnswer(r) \/ SendDone(r)
               \/ Disconnect(r) /\ pc[r] = "closing"
      <3>1. /\ conversation' = conversation /\ table' = table /\ committed' = committed
            /\ \/ pc[r] \in {"idle", "finding"} /\ pc'[r] \in {"idle", "finding"}
               \/ pc[r] \in Active /\ pc'[r] \in Active
               \/ pc[r] \in {"closing"} \union Ended /\ pc'[r] \in {"closing"} \union Ended
        BY <2>7 DEF ReceiveWithId, SendStep, SendAnswer, SendDone, Disconnect, Goto, TypeOK,
           Active, Ended
      <3>2. Phase'[r] = Phase[r]
        BY <3>1, PhaseOf, PhasePlaces
      <3> QED
        BY <2>0, <2>2, <3>1, <3>2
    <2> QED
      BY <1>2, <2>3, <2>4, <2>5, <2>6, <2>7 DEF Acts
  <1> QED
    BY <1>1, <1>2, StepIsOfOne

\* Requests over the table implement the abstract store: a request that commits
\* replaces the stored history by the one it opened with, followed by its own
\* exchange, and no other step changes a history
\* (run_agent.py:65-137, mysql_conversation_adapter.py:32-79).
THEOREM RequestsImplementStore == Spec => ImplementsStore
  <1>1. IInv /\ IInv' /\ [Next]_vars => [Store!Next]_(Store!vars)
    BY StoreStep
  <1> QED
    BY <1>1, StoreInit, Invariance, PTL DEF Spec, ImplementsStore, Store!Spec

-----------------------------------------------------------------------------
(***************************************************************************)
(* How far a request is.  A request takes a step of its own each time, no  *)
(* step of another one sets it back, and none waits for another.           *)
(***************************************************************************)

\* Where a step of a request leads it.
Moves(r) ==
    \/ /\ pc[r] = "idle" /\ pc'[r] \in {"finding", "running"}
       /\ events'[r] = events[r]
    \/ /\ pc[r] = "finding" /\ pc'[r] = "running"
       /\ events'[r] = events[r]
    \/ pc[r] = "finding" /\ pc'[r] = "error"
    \/ /\ pc[r] = "running" /\ pc'[r] = "running"
       /\ Len(events[r]) < MaxSteps[r] /\ Len(events'[r]) = Len(events[r]) + 1
    \/ pc[r] = "running" /\ pc'[r] \in {"answered", "error"}
    \/ pc[r] = "answered" /\ pc'[r] = "saving"
    \/ pc[r] = "saving" /\ pc'[r] = "closing"
    \/ pc[r] = "closing" /\ pc'[r] = "done"
    \/ pc[r] \notin Ended \union {"idle"} /\ pc'[r] = "gone"

LEMMA ActsMoves ==
    ASSUME TypeOK, NEW r \in Requests, Acts(r)
    PROVE  Moves(r)
  <1> USE DEF TypeOK, Moves, Goto
  <1>1. CASE ReceiveWithId(r) \/ ReceiveWithoutId(r) \/ FindById(r)
    BY <1>1 DEF ReceiveWithId, ReceiveWithoutId, FindById, StartAgent
  <1>2. CASE FindFails(r) \/ SendAnswer(r) \/ AgentFails(r) \/ SendDone(r)
    BY <1>2 DEF FindFails, SendAnswer, AgentFails, SendDone
  <1>3. CASE SendStep(r)
    <2>1. /\ pc[r] = "running" /\ Len(events[r]) < MaxSteps[r] /\ pc' = pc
          /\ events' = [events EXCEPT ![r] = Append(@, "step")]
      BY <1>3 DEF SendStep, Send
    <2>2. events[r] \in Seq(Events) /\ "step" \in Events
      BY DEF Events
    <2>3. events'[r] = Append(events[r], "step")
      BY <2>1
    <2>4. Len(Append(events[r], "step")) = Len(events[r]) + 1
      BY <2>2, OneMore
    <2> QED
      BY <2>1, <2>3, <2>4
  <1>4. CASE AddAnswer(r) \/ SaveCommits(r) \/ SaveFails(r) \/ Disconnect(r)
    BY <1>4 DEF AddAnswer, SaveCommits, SaveFails, Disconnect
  <1> QED
    BY <1>1, <1>2, <1>3, <1>4 DEF Acts

StepsBounded ==
    \A r \in Requests : pc[r] = "running" => Len(events[r]) <= MaxSteps[r]

\* The most steps a request has left.
StepsLeft(r) ==
    CASE pc[r] = "idle" -> MaxSteps[r] + 6
      [] pc[r] = "finding" -> MaxSteps[r] + 5
      [] pc[r] = "running" -> MaxSteps[r] - Len(events[r]) + 4
      [] pc[r] = "answered" -> 3
      [] pc[r] = "saving" -> 2
      [] pc[r] = "closing" -> 1
      [] OTHER -> 0

LEMMA NoEventsYet ==
    ASSUME TypeOK, Stages, NEW r \in Requests
    PROVE  /\ Len(events[r]) \in Nat
           /\ pc[r] \in {"idle", "finding"} => Len(events[r]) = 0
  <1>1. events[r] \in Seq(Events)
    BY DEF TypeOK, Events
  <1>2. pc[r] \in {"idle", "finding"} => events[r] = << >>
    BY DEF Stages
  <1>3. Len(<< >>) = 0
    OBVIOUS
  <1> QED
    BY <1>1, <1>2, <1>3

LEMMA StepsBoundedStep ==
    ASSUME TypeOK, Stages, StepsBounded, [Next]_vars
    PROVE  StepsBounded'
  <1>1. CASE UNCHANGED vars
    BY <1>1 DEF vars, StepsBounded
  <1>2. ASSUME NEW r \in Requests, Acts(r), NEW q \in Requests, pc'[q] = "running"
        PROVE  Len(events'[q]) <= MaxSteps[q]
    <2>1. CASE q # r
      BY <1>2, <2>1, OneMoves DEF StepsBounded
    <2>2. CASE q = r
      <3>1. Moves(r)
        BY <1>2, ActsMoves
      <3>2. MaxSteps[r] \in Nat
        BY StepsAssumption
      <3>3. Len(events[r]) \in Nat /\ (pc[r] \in {"idle", "finding"} => Len(events[r]) = 0)
        BY NoEventsYet
      <3> QED
        BY <1>2, <2>2, <3>1, <3>2, <3>3 DEF Moves
    <2> QED
      BY <2>1, <2>2
  <1> QED
    BY <1>1, <1>2, StepIsOfOne DEF StepsBounded

LEMMA LeftValues ==
    ASSUME NEW r \in Requests
    PROVE  /\ pc[r] = "idle" => StepsLeft(r) = MaxSteps[r] + 6
           /\ pc[r] = "finding" => StepsLeft(r) = MaxSteps[r] + 5
           /\ pc[r] = "running" => StepsLeft(r) = MaxSteps[r] - Len(events[r]) + 4
           /\ pc[r] = "answered" => StepsLeft(r) = 3
           /\ pc[r] = "saving" => StepsLeft(r) = 2
           /\ pc[r] = "closing" => StepsLeft(r) = 1
           /\ pc[r] \in Ended => StepsLeft(r) = 0
  BY DEF StepsLeft, Ended

LEMMA StepsLeftIsNatural ==
    ASSUME TypeOK, StepsBounded, NEW r \in Requests
    PROVE  StepsLeft(r) \in Nat
  <1>1. MaxSteps[r] \in Nat
    BY StepsAssumption
  <1>2. events[r] \in Seq(Events)
    BY DEF TypeOK, Events
  <1>3. Len(events[r]) \in Nat
    BY <1>2
  <1>4. pc[r] = "running" => Len(events[r]) <= MaxSteps[r]
    BY DEF StepsBounded
  <1>5. pc[r] \in {"idle", "finding", "running", "answered", "saving", "closing"} \union Ended
    BY DEF TypeOK
  <1> QED
    BY <1>1, <1>3, <1>4, <1>5, LeftValues

LEMMA LeftValuesNext ==
    ASSUME NEW r \in Requests
    PROVE  /\ pc'[r] = "idle" => StepsLeft(r)' = MaxSteps[r] + 6
           /\ pc'[r] = "finding" => StepsLeft(r)' = MaxSteps[r] + 5
           /\ pc'[r] = "running" => StepsLeft(r)' = MaxSteps[r] - Len(events'[r]) + 4
           /\ pc'[r] = "answered" => StepsLeft(r)' = 3
           /\ pc'[r] = "saving" => StepsLeft(r)' = 2
           /\ pc'[r] = "closing" => StepsLeft(r)' = 1
           /\ pc'[r] \in Ended => StepsLeft(r)' = 0
  BY DEF StepsLeft, Ended

\* A step of r brings r nearer to its end and leaves the others where they are.
LEMMA StepsLeftDecreases ==
    ASSUME TypeOK, Stages, StepsBounded, NEW r \in Requests, Acts(r)
    PROVE  /\ StepsLeft(r)' < StepsLeft(r)
           /\ \A q \in Requests \ {r} : StepsLeft(q)' = StepsLeft(q)
  <1>1. \A q \in Requests \ {r} : StepsLeft(q)' = StepsLeft(q)
    BY OneMoves DEF StepsLeft
  <1>2. Moves(r)
    BY ActsMoves
  <1>3. MaxSteps[r] \in Nat
    BY StepsAssumption
  <1>4. Len(events[r]) \in Nat /\ (pc[r] \in {"idle", "finding"} => Len(events[r]) = 0)
    BY NoEventsYet
  <1>5. pc[r] = "running" => Len(events[r]) <= MaxSteps[r]
    BY DEF StepsBounded
  <1>6. pc[r] \in {"idle", "finding", "running", "answered", "saving", "closing"} \union Ended
    BY DEF TypeOK
  <1>7. StepsLeft(r)' < StepsLeft(r)
    <2> USE <1>3, <1>4, <1>5 DEF Ended
    <2>5. /\ pc[r] = "idle" => StepsLeft(r) = MaxSteps[r] + 6
          /\ pc[r] = "finding" => StepsLeft(r) = MaxSteps[r] + 5
          /\ pc[r] = "running" => StepsLeft(r) = MaxSteps[r] - Len(events[r]) + 4
          /\ pc[r] = "answered" => StepsLeft(r) = 3
          /\ pc[r] = "saving" => StepsLeft(r) = 2
          /\ pc[r] = "closing" => StepsLeft(r) = 1
      BY LeftValues
    <2>6. /\ pc'[r] = "finding" => StepsLeft(r)' = MaxSteps[r] + 5
          /\ pc'[r] = "running" => StepsLeft(r)' = MaxSteps[r] - Len(events'[r]) + 4
          /\ pc'[r] = "answered" => StepsLeft(r)' = 3
          /\ pc'[r] = "saving" => StepsLeft(r)' = 2
          /\ pc'[r] = "closing" => StepsLeft(r)' = 1
          /\ pc'[r] \in Ended => StepsLeft(r)' = 0
      BY LeftValuesNext
    <2> USE <2>5, <2>6
    <2>1. CASE pc'[r] = "gone" /\ pc[r] \notin Ended
      BY <1>6, <2>1
    <2>2. CASE pc[r] \in {"idle", "finding"} /\ pc'[r] # "gone"
      BY <1>2, <2>2 DEF Moves
    <2>3. CASE pc[r] = "running" /\ pc'[r] # "gone"
      BY <1>2, <2>3 DEF Moves
    <2>4. CASE pc[r] \in {"answered", "saving", "closing"} /\ pc'[r] # "gone"
      BY <1>2, <2>4 DEF Moves
    <2> QED
      BY <1>2, <1>6, <2>1, <2>2, <2>3, <2>4 DEF Moves
  <1> QED
    BY <1>1, <1>7

LEMMA BoundInvariance == Spec => []StepsBounded
  <1>1. Init => StepsBounded
    BY DEF Init, StepsBounded
  <1>2. IInv /\ StepsBounded /\ [Next]_vars => StepsBounded'
    BY StepsBoundedStep DEF IInv
  <1> QED
    BY <1>1, <1>2, Invariance, PTL DEF Spec

\* A request takes at most MaxSteps + 6 steps, and each step of the server is
\* one of one request, which leaves the others as far as they were: no load, save,
\* failure or disconnect of another request sets a request back or starts it
\* over (agent_router.py:45-109, run_agent.py:58-145).
THEOREM RequestsAreFinite ==
    Spec => /\ \A r \in Requests : StepsLeft(r) = MaxSteps[r] + 6
            /\ [](\A r \in Requests : StepsLeft(r) \in Nat)
            /\ [][\E r \in Requests :
                    /\ StepsLeft(r)' < StepsLeft(r)
                    /\ \A q \in Requests \ {r} : StepsLeft(q)' = StepsLeft(q)]_vars
  <1>1. Init => \A r \in Requests : StepsLeft(r) = MaxSteps[r] + 6
    BY DEF Init, StepsLeft
  <1>2. IInv /\ StepsBounded => \A r \in Requests : StepsLeft(r) \in Nat
    BY StepsLeftIsNatural DEF IInv
  <1>3. IInv /\ StepsBounded /\ [Next]_vars =>
          [\E r \in Requests :
             /\ StepsLeft(r)' < StepsLeft(r)
             /\ \A q \in Requests \ {r} : StepsLeft(q)' = StepsLeft(q)]_vars
    BY StepIsOfOne, StepsLeftDecreases DEF IInv
  <1> QED
    BY <1>1, <1>2, <1>3, Invariance, BoundInvariance, PTL DEF Spec

\* A request that has sent its answer goes on to done whatever happens to the
\* save, or its client leaves: it never starts over and is never told of an
\* error (run_agent.py:129-145).
THEOREM AnswersGoOn ==
    Spec => [][\A r \in Requests :
                 pc[r] \in {"answered", "saving", "closing"} =>
                   pc'[r] \in {"answered", "saving", "closing", "done", "gone"}]_vars
  <1>1. ASSUME TypeOK, [Next]_vars, ~UNCHANGED vars, NEW r \in Requests,
               pc[r] \in {"answered", "saving", "closing"}
        PROVE  pc'[r] \in {"answered", "saving", "closing", "done", "gone"}
    <2>1. PICK q \in Requests : Acts(q)
      BY <1>1, StepIsOfOne
    <2>2. CASE q = r
      BY <1>1, <2>1, <2>2, ActsMoves DEF Moves
    <2>3. CASE q # r
      BY <1>1, <2>1, <2>3, OneMoves
    <2> QED
      BY <2>2, <2>3
  <1>2. TypeOK /\ [Next]_vars =>
          [\A r \in Requests :
             pc[r] \in {"answered", "saving", "closing"} =>
               pc'[r] \in {"answered", "saving", "closing", "done", "gone"}]_vars
    BY <1>1
  <1> QED
    BY <1>2, TypeCorrect, PTL DEF Spec

-----------------------------------------------------------------------------
(***************************************************************************)
(* What the documentation says of conversations and failures, and how much *)
(* of it holds.                                                            *)
(***************************************************************************)

\* What rows hold of conversation c.
Before(rows, c) == IF rows[c] = None THEN << >> ELSE rows[c].messages

\* A copy is what is stored, and the exchange of r under way.
Fits(r, place, messages, stored) ==
    /\ place \in {"running", "answered"} => messages = Append(stored, User(r))
    /\ place = "saving" => messages = Append(Append(stored, User(r)), Assistant(r))

\* The copy of a request that missed no save fits what is stored.
Undisturbed ==
    \A r \in Requests : missed[r] = {} =>
      Fits(r, pc[r], conversation[r].messages, Before(table, conversation[r].id))

\* What a request starts on is what is stored.
LEMMA StartsOnStored ==
    ASSUME TypeOK, Stages, IdsGiven, Rows, NEW r \in Requests,
           ReceiveWithoutId(r) \/ FindById(r)
    PROVE  /\ pc'[r] = "running"
           /\ conversation'[r].messages = Append(Before(table, conversation'[r].id), User(r))
           /\ prompt'[r] = <<User(r)>>
           /\ conversation'[r] # None
  <1>1. /\ pc[r] \in {"idle", "finding"} /\ StartAgent(r, Origin(r))
    BY StartsOnOrigin
  <1>2. Origin(r) \in Conversations
    BY <1>1, OriginType
  <1>3. /\ conversation'[r] \in Conversations
        /\ conversation'[r].messages = Append(Origin(r).messages, User(r))
        /\ conversation'[r].id = Origin(r).id
        /\ pc'[r] = "running"
    BY <1>1, <1>2, StartAgentType
  <1>4. Origin(r).messages = Before(table, Origin(r).id)
    BY <1>1, OriginState DEF Before
  <1>5. prompt'[r] = <<User(r)>>
    BY <1>1 DEF StartAgent, TypeOK
  <1> QED
    BY <1>3, <1>4, <1>5, NoneAssumption

LEMMA UndisturbedStep ==
    ASSUME TypeOK, Stages, IdsGiven, Rows, Undisturbed, [Next]_vars
    PROVE  Undisturbed'
  <1>1. CASE UNCHANGED vars
    BY <1>1 DEF vars, Undisturbed
  <1> DEFINE Holds(r) ==
        missed'[r] = {} =>
          Fits(r, pc'[r], conversation'[r].messages, Before(table', conversation'[r].id))
  <1>2. ASSUME NEW r \in Requests, Acts(r), ~SaveCommits(r), NEW q \in Requests
        PROVE  Holds(q)
    <2>1. table' = table /\ missed' = missed
      BY <1>2, OnlySavesWrite
    <2>2. CASE q # r
      <3>1. pc'[q] = pc[q] /\ conversation'[q] = conversation[q]
        BY <1>2, <2>2, OneMoves
      <3> QED
        BY <2>1, <3>1 DEF Undisturbed
    <2>3. CASE q = r /\ (ReceiveWithoutId(r) \/ FindById(r))
      <3>1. /\ pc'[r] = "running"
            /\ conversation'[r].messages = Append(Before(table, conversation'[r].id), User(r))
        BY <1>2, <2>3, StartsOnStored
      <3> QED
        BY <2>1, <2>3, <3>1 DEF Fits
    <2>4. CASE q = r /\ AddAnswer(r)
      <3>1. pc[r] = "answered" /\ pc'[r] = "saving" /\ conversation[r] # None
        BY <2>4 DEF AddAnswer, Goto, TypeOK, Stages, Active
      <3>2. conversation[r] \in Conversations /\ Assistant(r) \in Messages
        BY <3>1, ConversationType, MessageTypes
      <3>3. conversation'[r] = AddMessage(conversation[r], Assistant(r))
        BY <2>4 DEF AddAnswer, TypeOK
      <3> DEFINE added == AddMessage(conversation[r], Assistant(r))
      <3>4. added.messages = Append(conversation[r].messages, Assistant(r))
            /\ added.id = conversation[r].id
        BY <3>2, AddMessageType
      <3>5. /\ conversation'[r].messages = Append(conversation[r].messages, Assistant(r))
            /\ conversation'[r].id = conversation[r].id
        BY <3>3, <3>4
      <3>6. missed[r] = {} =>
              conversation[r].messages = Append(Before(table, conversation[r].id), User(r))
        BY <3>1 DEF Undisturbed, Fits
      <3> QED
        BY <2>1, <2>4, <3>1, <3>5, <3>6 DEF Fits
    <2>5. CASE q = r /\ (\/ ReceiveWithId(r) \/ FindFails(r) \/ SendStep(r) \/ SendAnswer(r)
                         \/ AgentFails(r) \/ SaveFails(r) \/ SendDone(r) \/ Disconnect(r))
      <3>1. /\ conversation' = conversation
            /\ pc'[r] # "saving"
            /\ pc'[r] \in {"running", "answered"} => pc[r] = "running"
        BY <2>5 DEF ReceiveWithId, FindFails, SendStep, SendAnswer, AgentFails, SaveFails,
           SendDone, Disconnect, Goto, TypeOK
      <3> QED
        BY <2>1, <2>5, <3>1 DEF Undisturbed, Fits
    <2> QED
      BY <1>2, <2>2, <2>3, <2>4, <2>5 DEF Acts
  <1>3. ASSUME NEW r \in Requests, SaveCommits(r), NEW q \in Requests
        PROVE  Holds(q)
    <2>1. Acts(r)
      BY <1>3 DEF Acts
    <2>2. CASE q = r
      <3>1. pc'[r] = "closing"
        BY <1>3, SaveWrites
      <3> QED
        BY <2>2, <3>1 DEF Fits
    <2>3. CASE q # r /\ pc[q] \in Active /\ conversation[q].id = conversation[r].id
      <3>1. r \in missed'[q]
        BY <1>3, <2>3, SaveWrites
      <3> QED
        BY <3>1
    <2>4. CASE q # r /\ pc[q] \in Active /\ conversation[q].id # conversation[r].id
      <3>1. conversation[q] # None
        BY <2>4 DEF Stages
      <3>2. conversation[q].id \in Ids
        BY <3>1, ConversationType
      <3>3. table'[conversation[q].id] = table[conversation[q].id]
        BY <1>3, <2>4, <3>2, SaveWrites
      <3>4. missed'[q] = {} => missed[q] = {}
        BY <1>3 DEF SaveCommits
      <3>5. pc'[q] = pc[q] /\ conversation'[q] = conversation[q]
        BY <2>1, <2>4, OneMoves
      <3>6. Before(table', conversation[q].id) = Before(table, conversation[q].id)
        BY <3>3 DEF Before
      <3> QED
        BY <3>4, <3>5, <3>6 DEF Undisturbed
    <2>5. CASE q # r /\ pc[q] \notin Active
      <3>1. pc'[q] = pc[q]
        BY <2>1, <2>5, OneMoves
      <3> QED
        BY <2>5, <3>1 DEF Active, Fits
    <2> QED
      BY <2>2, <2>3, <2>4, <2>5
  <1>4. CASE \E r \in Requests : Acts(r)
    <2>1. \A q \in Requests : Holds(q)
      BY <1>2, <1>3, <1>4
    <2> QED
      BY <2>1 DEF Undisturbed
  <1> QED
    BY <1>1, <1>4, StepIsOfOne

LEMMA UndisturbedInvariance == Spec => []Undisturbed
  <1>1. Init => Undisturbed
    BY DEF Init, Undisturbed, Fits
  <1>2. IInv /\ Undisturbed /\ [Next]_vars => Undisturbed'
    BY UndisturbedStep DEF IInv
  <1> QED
    BY <1>1, <1>2, Invariance, PTL DEF Spec

\* The save of a request that missed no other one extends the transcript that is
\* stored by its own exchange, and by nothing else ("Continue an existing
\* conversation", chat_request.py:15, run_agent.py:68-81, 129-135): SaveExtends
\* fails for overlapping requests, and for no others.
THEOREM UndisturbedSavesExtend ==
    Spec => [][\A r \in Requests : SaveCommits(r) /\ missed[r] = {} =>
                 LET c == conversation[r].id IN
                 table'[c].messages = Append(Append(Before(table, c), User(r)), Assistant(r))]_vars
  <1>1. ASSUME IInv, Undisturbed, NEW r \in Requests, SaveCommits(r), missed[r] = {}
        PROVE  table'[conversation[r].id].messages =
                 Append(Append(Before(table, conversation[r].id), User(r)), Assistant(r))
    <2>1. pc[r] = "saving" /\ conversation[r] # None /\ conversation[r].id \in Ids
          /\ table'[conversation[r].id] = Merge(table[conversation[r].id], conversation[r])
      BY <1>1, SaveWrites DEF IInv
    <2>2. conversation[r] \in Conversations
      BY <1>1, <2>1, ConversationType DEF IInv
    <2>3. table[conversation[r].id] \in Conversations \union {None}
      BY <1>1, <2>1 DEF IInv, TypeOK
    <2>4. table'[conversation[r].id].messages = conversation[r].messages
      BY <2>1, <2>2, <2>3, MergeType
    <2> QED
      BY <1>1, <2>1, <2>4 DEF Undisturbed, Fits
  <1>2. IInv /\ Undisturbed /\ [Next]_vars =>
          [\A r \in Requests : SaveCommits(r) /\ missed[r] = {} =>
             LET c == conversation[r].id IN
             table'[c].messages = Append(Append(Before(table, c), User(r)), Assistant(r))]_vars
    BY <1>1
  <1> QED
    BY <1>2, Invariance, UndisturbedInvariance, PTL DEF Spec

\* In a conversation whose saves missed none, every saved exchange is stored:
\* what SaveExtends asks for (chat_request.py:15).
THEOREM SerialSavesKeepAll ==
    Spec => [](\A c \in Ids :
                 (\A w \in committed : conversation[w].id = c => missed[w] = {}) =>
                   \A r \in committed : conversation[r].id = c =>
                     table[c] # None /\ r \in Answered(table[c].messages))
  <1>1. LossNeedsOverlap =>
          \A c \in Ids :
            (\A w \in committed : conversation[w].id = c => missed[w] = {}) =>
              \A r \in committed : conversation[r].id = c =>
                table[c] # None /\ r \in Answered(table[c].messages)
    BY DEF LossNeedsOverlap
  <1> QED
    BY <1>1, NoLossWithoutOverlap, PTL

\* The model is given the query of its request, and nothing else.
QueriedAlone ==
    \A r \in Requests : conversation[r] # None => prompt[r] = <<User(r)>>

LEMMA OnlyStartsPrompt ==
    ASSUME TypeOK, NEW r \in Requests, Acts(r), ~ReceiveWithoutId(r), ~FindById(r)
    PROVE  /\ prompt' = prompt
           /\ conversation' = conversation \/ pc[r] = "answered"
           /\ \A q \in Requests \ {r} : conversation'[q] = conversation[q]
  BY OneMoves DEF Acts, ReceiveWithId, FindFails, SendStep, SendAnswer, AgentFails, AddAnswer,
     SaveCommits, SaveFails, SendDone, Disconnect

LEMMA QueriedAloneStep ==
    ASSUME TypeOK, Stages, IdsGiven, Rows, QueriedAlone, [Next]_vars
    PROVE  QueriedAlone'
  <1>1. CASE UNCHANGED vars
    BY <1>1 DEF vars, QueriedAlone
  <1>2. ASSUME NEW r \in Requests, Acts(r), NEW q \in Requests, conversation'[q] # None
        PROVE  prompt'[q] = <<User(q)>>
    <2>1. CASE ReceiveWithoutId(r) \/ FindById(r)
      <3>1. prompt'[r] = <<User(r)>>
        BY <2>1, StartsOnStored
      <3>2. q # r => prompt'[q] = prompt[q] /\ conversation'[q] = conversation[q]
        BY <1>2, <2>1, OneMoves DEF ReceiveWithoutId, FindById, StartAgent, TypeOK
      <3> QED
        BY <1>2, <3>1, <3>2 DEF QueriedAlone
    <2>2. CASE ~ReceiveWithoutId(r) /\ ~FindById(r)
      <3>1. prompt' = prompt /\ (conversation[q] = None => conversation'[q] = None)
        BY <1>2, <2>2, OnlyStartsPrompt DEF Stages, Active
      <3> QED
        BY <1>2, <3>1 DEF QueriedAlone
    <2> QED
      BY <2>1, <2>2
  <1> QED
    BY <1>1, <1>2, StepIsOfOne DEF QueriedAlone

\* A continued conversation is never shown to the model: what the model is given
\* holds the messages of the conversation exactly when the query is the first of
\* them (run_agent.py:68-91, react_orchestrator.py:131-150).
THEOREM HistoryIsNeverSeen ==
    Spec => [](\A r \in Requests : pc[r] = "running" =>
                 (IsPrefix(conversation[r].messages, prompt[r])
                    <=> Len(conversation[r].messages) = 1))
  <1>1. Init => QueriedAlone
    BY DEF Init, QueriedAlone
  <1>2. IInv /\ QueriedAlone /\ [Next]_vars => QueriedAlone'
    BY QueriedAloneStep DEF IInv
  <1>3. ASSUME IInv, QueriedAlone, NEW r \in Requests, pc[r] = "running"
        PROVE  IsPrefix(conversation[r].messages, prompt[r])
                 <=> Len(conversation[r].messages) = 1
    <2>1. conversation[r] # None
      BY <1>3 DEF IInv, Stages, Active
    <2>2. PICK m \in Seq(Messages) : conversation[r].messages = Append(m, User(r))
      BY <1>3 DEF IInv, Copies
    <2>3. User(r) \in Messages
      BY MessageTypes
    <2>4. /\ Len(conversation[r].messages) = Len(m) + 1 /\ Len(m) \in Nat
          /\ conversation[r].messages[Len(m) + 1] = User(r)
          /\ conversation[r].messages \in Seq(Messages)
      BY <2>2, <2>3
    <2>5. Len(<<User(r)>>) = 1
      OBVIOUS
    <2>6. prompt[r] = <<User(r)>>
      BY <1>3, <2>1 DEF QueriedAlone
    <2>7. prompt[r] = <<User(r)>> /\ Len(prompt[r]) = 1
      BY <2>5, <2>6
    <2>8. ASSUME Len(conversation[r].messages) = 1
          PROVE  conversation[r].messages = prompt[r]
      <3>1. m = << >>
        BY <2>4, <2>8
      <3> QED
        BY <2>2, <2>7, <3>1
    <2>9. Len(conversation[r].messages) = 1 => IsPrefix(conversation[r].messages, prompt[r])
      BY <2>4, <2>7, <2>8 DEF IsPrefix
    <2>10. IsPrefix(conversation[r].messages, prompt[r]) => Len(conversation[r].messages) <= 1
      BY <2>7 DEF IsPrefix
    <2> QED
      BY <2>4, <2>9, <2>10
  <1>4. IInv /\ QueriedAlone =>
          \A r \in Requests : pc[r] = "running" =>
            (IsPrefix(conversation[r].messages, prompt[r])
               <=> Len(conversation[r].messages) = 1)
    BY <1>3
  <1> QED
    BY <1>1, <1>2, <1>4, Invariance, PTL DEF Spec

\* A request whose conversation could not be loaded.
LoadFailed(r) == pc[r] = "error" /\ conversation[r] = None

\* It was the database that failed it, and INTERNAL_ERROR is all it sends.
LoadFailures ==
    \A r \in Requests :
      /\ LoadFailed(r) => r \in dbDown /\ events[r] = <<"INTERNAL_ERROR">>
      /\ ~LoadFailed(r) => "INTERNAL_ERROR" \notin Range(events[r])

LEMMA LoadFailuresStep ==
    ASSUME TypeOK, Stages, LoadFailures, [Next]_vars
    PROVE  LoadFailures'
  <1> DEFINE Holds(r) ==
        LET failed == pc'[r] = "error" /\ conversation'[r] = None IN
        /\ failed => r \in dbDown' /\ events'[r] = <<"INTERNAL_ERROR">>
        /\ ~failed => "INTERNAL_ERROR" \notin Range(events'[r])
  <1>1. CASE UNCHANGED vars
    BY <1>1 DEF vars, LoadFailures, LoadFailed
  <1>2. ASSUME NEW r \in Requests, Acts(r), NEW q \in Requests \ {r}
        PROVE  Holds(q)
    <2>1. dbDown \subseteq dbDown'
      BY <1>2 DEF Acts, ReceiveWithId, ReceiveWithoutId, FindById, FindFails, SendStep,
         SendAnswer, AgentFails, AddAnswer, SaveCommits, SaveFails, SendDone, Disconnect
    <2>2. pc'[q] = pc[q] /\ conversation'[q] = conversation[q] /\ events'[q] = events[q]
      BY <1>2, OneMoves
    <2> QED
      BY <1>2, <2>1, <2>2 DEF LoadFailures, LoadFailed
  <1>3. ASSUME NEW r \in Requests, Acts(r)
        PROVE  Holds(r)
    <2>1. pc[r] # "error" /\ events[r] \in Seq(Events)
      BY <1>3, OneMoves DEF Ended, TypeOK, Events
    <2>2. "INTERNAL_ERROR" \notin Range(events[r])
      BY <2>1 DEF LoadFailures, LoadFailed
    <2>3. CASE FindFails(r)
      <3>1. /\ pc[r] = "finding" /\ pc'[r] = "error" /\ conversation' = conversation
            /\ r \in dbDown' /\ events'[r] = Append(events[r], "INTERNAL_ERROR")
        BY <2>3 DEF FindFails, Send, Goto, TypeOK
      <3>2. events[r] = << >> /\ conversation[r] = None
        BY <3>1 DEF Stages
      <3> QED
        BY <3>1, <3>2
    <2>4. CASE SendStep(r) \/ SendAnswer(r) \/ AgentFails(r) \/ SendDone(r)
      <3>1. PICK e \in Events \ {"INTERNAL_ERROR"} : events'[r] = Append(events[r], e)
        BY <2>4 DEF SendStep, SendAnswer, AgentFails, SendDone, Send, Classify, Events,
           ErrorCodes, TypeOK
      <3>2. Range(events'[r]) = Range(events[r]) \union {e}
        BY <2>1, <3>1, OneMore
      <3>3. conversation' = conversation /\ conversation[r] # None
        BY <2>4 DEF SendStep, SendAnswer, AgentFails, SendDone, Stages, Active
      <3> QED
        BY <2>2, <3>1, <3>2, <3>3
    <2>5. CASE \/ ReceiveWithId(r) \/ ReceiveWithoutId(r) \/ FindById(r) \/ AddAnswer(r)
               \/ SaveCommits(r) \/ SaveFails(r) \/ Disconnect(r)
      <3>1. pc'[r] # "error" /\ events'[r] = events[r]
        BY <2>5 DEF ReceiveWithId, ReceiveWithoutId, FindById, StartAgent, AddAnswer,
           SaveCommits, SaveFails, Disconnect, Goto, TypeOK
      <3> QED
        BY <2>2, <3>1
    <2> QED
      BY <1>3, <2>3, <2>4, <2>5 DEF Acts
  <1>4. CASE \E r \in Requests : Acts(r)
    <2>1. \A q \in Requests : Holds(q)
      BY <1>2, <1>3, <1>4
    <2> QED
      BY <2>1 DEF LoadFailures, LoadFailed
  <1> QED
    BY <1>1, <1>4, StepIsOfOne

\* INTERNAL_ERROR is what a request is sent whose conversation the database did
\* not give, and only such a request: the outage is never reported to it as
\* ERP_UNAVAILABLE, so that OutageIsReported fails for every such request and
\* not only for some (run_agent.py:13, 41, 68-69, agent_router.py:99-109).
THEOREM LoadFailuresAreInternal ==
    Spec => [](\A r \in Requests :
                 /\ LoadFailed(r) => r \in dbDown /\ events[r] = <<"INTERNAL_ERROR">>
                 /\ "INTERNAL_ERROR" \in Range(events[r]) => LoadFailed(r))
  <1>1. Init => LoadFailures
    BY DEF Init, LoadFailures, LoadFailed, Range
  <1>2. IInv /\ LoadFailures /\ [Next]_vars => LoadFailures'
    BY LoadFailuresStep DEF IInv
  <1>3. LoadFailures =>
          \A r \in Requests :
            /\ LoadFailed(r) => r \in dbDown /\ events[r] = <<"INTERNAL_ERROR">>
            /\ "INTERNAL_ERROR" \in Range(events[r]) => LoadFailed(r)
    BY DEF LoadFailures
  <1> QED
    BY <1>1, <1>2, <1>3, Invariance, PTL DEF Spec
=================================================================================
