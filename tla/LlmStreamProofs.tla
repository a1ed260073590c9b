---------------------------- MODULE LlmStreamProofs ----------------------------
(***************************************************************************)
(* The streamed responses, for any tools, any number of texts and calls    *)
(* and of fragments.  The invariant says what an adapter holds of the      *)
(* calls while the response streams: nothing of them (the OpenAI client    *)
(* keeps them), the open one (Claude) or all of them (LangChain), each     *)
(* with the fragments the provider has sent of it; and how many of them it *)
(* has shown, then and at the end.                                         *)
(***************************************************************************)
EXTENDS LlmStream, SequenceTheorems, TLAPS

\* The provider's calls, and what a buffer holds of one.
Calls == [tool : Tools, sent : 0..MaxFragments, closed : BOOLEAN]
Buffers == [tool : Tools, fragments : Seq(Fragments)]
SentinelSet == [tool : Tools, args : Nat]

\* What is held of call number i.
Held(i, call) ==
    [tool |-> call.tool,
     fragments |-> [n \in 1..call.sent |->
                      [of |-> i, no |-> n, last |-> call.closed /\ n = call.sent]]]

\* A call is opened when the one before it is complete.
OneIsOpen == \A i \in DOMAIN asked : i # Len(asked) => asked[i].closed

\* What the adapter has of the calls while they stream.
BufferHolds ==
    /\ adapter = "openai" => buffer = << >>
    /\ phase = "streaming" /\ adapter = "claude" =>
         buffer = IF CallOpen THEN <<Held(Len(asked), asked[Len(asked)])>> ELSE << >>
    /\ phase = "streaming" /\ adapter = "langchain" =>
         buffer = [i \in 1..Len(asked) |-> Held(i, asked[i])]

\* How many of the calls it has shown by then.
ShownSoFar ==
    phase = "streaming" =>
      /\ reason = "none"
      /\ adapter = "claude" =>
           Len(emitted) = IF CallOpen THEN Len(asked) - 1 ELSE Len(asked)
      /\ adapter = "openai" =>
           Len(emitted) = IF asked = << >> THEN 0 ELSE Len(asked) - 1
      /\ adapter = "langchain" => emitted = << >>

\* How many it has shown when the response ends.
ShownAtEnd ==
    phase = "ended" =>
      /\ adapter = "langchain" =>
           Len(emitted) = IF reason \in {"stop", "tool_calls"} THEN Len(asked) ELSE 0
      /\ adapter = "openai" =>
           Len(emitted) = IF reason = "none" /\ asked # << >> THEN Len(asked) - 1 ELSE Len(asked)
      /\ adapter = "claude" =>
           Len(emitted) = IF reason = "none" /\ CallOpen THEN Len(asked) - 1 ELSE Len(asked)

IInv ==
    /\ TypeOK
    /\ OneIsOpen
    /\ BufferHolds
    /\ ShownSoFar
    /\ SentinelsAreFaithful
    /\ ShownAtEnd

-----------------------------------------------------------------------------

LEMMA HeldType ==
    ASSUME NEW i \in Nat, NEW call \in Calls
    PROVE  Held(i, call) \in Buffers
  <1>1. call.sent \in Nat /\ call.tool \in Tools
    BY BoundsAssumption DEF Calls
  <1>2. \A n \in 1..call.sent :
           [of |-> i, no |-> n, last |-> call.closed /\ n = call.sent] \in Fragments
    BY <1>1 DEF Fragments
  <1>3. [n \in 1..call.sent |-> [of |-> i, no |-> n, last |-> call.closed /\ n = call.sent]]
          \in Seq(Fragments)
    BY <1>1, <1>2
  <1> QED
    BY <1>1, <1>3 DEF Held, Buffers

\* The sentinel of a call carries its arguments if they are complete.
LEMMA SentinelOf ==
    ASSUME NEW i \in Nat, NEW call \in Calls
    PROVE  /\ Sentinel(Held(i, call)).tool = call.tool
           /\ Sentinel(Held(i, call)).args =
                IF call.closed /\ call.sent # 0 THEN i ELSE NoArguments
           /\ Sentinel(Held(i, call)) \in SentinelSet
  <1> DEFINE f == Held(i, call).fragments
             k == call.sent
  <1>1. k \in Nat /\ call.tool \in Tools /\ call.closed \in BOOLEAN
    BY BoundsAssumption DEF Calls
  <1>2. f = [n \in 1..k |-> [of |-> i, no |-> n, last |-> call.closed /\ n = k]]
        /\ Held(i, call).tool = call.tool
    BY DEF Held
  <1>3. f \in Seq(Fragments)
    BY HeldType DEF Buffers
  <1>4. Len(f) = k /\ DOMAIN f = 1..k
    BY <1>1, <1>2, <1>3
  <1> HIDE DEF f
  <1>5. CASE k = 0
    <2>1. f = << >>
      BY <1>3, <1>4, <1>5
    <2> QED
      BY <1>1, <1>2, <1>5, <2>1 DEF Sentinel, Loads, IsWhole, NoArguments, SentinelSet, f
  <1>6. CASE k # 0
    <2>1. k \in 1..k /\ f # << >>
      BY <1>1, <1>4, <1>6
    <2>2. Last(f) = [of |-> i, no |-> k, last |-> call.closed]
      BY <1>1, <1>2, <1>4, <2>1 DEF Last
    <2>3. \A n \in DOMAIN f : f[n].of = i /\ f[n].no = n
      BY <1>2, <1>4
    <2>4. IsWhole(f) <=> call.closed
      <3>1. Last(f).of = i /\ Last(f).last = call.closed
        BY <2>2
      <3> QED
        BY <2>1, <2>3, <3>1 DEF IsWhole
    <2>5. Loads(f) = IF call.closed THEN i ELSE NoArguments
      BY <2>2, <2>4 DEF Loads
    <2> QED
      BY <1>1, <1>2, <1>6, <2>5 DEF Sentinel, NoArguments, SentinelSet, f
  <1> QED
    BY <1>5, <1>6

LEMMA SentinelsOfOne ==
    /\ Sentinels(<< >>) = << >>
    /\ \A b : Sentinels(<<b>>) = <<Sentinel(b)>>
  <1>1. Sentinels(<< >>) = << >>
    BY DEF Sentinels
  <1>2. ASSUME NEW b
        PROVE  Sentinels(<<b>>) = <<Sentinel(b)>>
    <2>1. DOMAIN <<b>> = 1..1 /\ <<b>>[1] = b
      OBVIOUS
    <2> QED
      BY <2>1 DEF Sentinels
  <1> QED
    BY <1>1, <1>2

\* A fragment that is added to what is held of an open call.
LEMMA HeldGrows ==
    ASSUME NEW i \in Nat, NEW call \in Calls, ~call.closed, NEW last \in BOOLEAN,
           NEW more \in Calls, more.tool = call.tool, more.sent = call.sent + 1,
           more.closed = last
    PROVE  /\ Held(i, more).tool = Held(i, call).tool
           /\ Held(i, more).fragments =
                Append(Held(i, call).fragments, [of |-> i, no |-> call.sent + 1, last |-> last])
  <1> DEFINE f == Held(i, call).fragments
             g == Held(i, more).fragments
             e == [of |-> i, no |-> call.sent + 1, last |-> last]
             k == call.sent
  <1>1. k \in Nat
    BY BoundsAssumption DEF Calls
  <1>2. /\ f = [n \in 1..k |-> [of |-> i, no |-> n, last |-> FALSE]]
        /\ g = [n \in 1..(k + 1) |-> [of |-> i, no |-> n, last |-> last /\ n = k + 1]]
    BY DEF Held
  <1>3. f \in Seq(Fragments) /\ g \in Seq(Fragments) /\ e \in Fragments
    <2>1. Held(i, call) \in Buffers /\ Held(i, more) \in Buffers
      BY HeldType
    <2> QED
      BY <1>1, <2>1 DEF Buffers, Fragments
  <1>4. Len(f) = k /\ Len(g) = k + 1
    BY <1>1, <1>2, <1>3
  <1>5. ASSUME NEW n \in 1..k
        PROVE  g[n] = f[n]
    <2>1. (last /\ n = k + 1) = FALSE /\ n \in 1..(k + 1)
      BY <1>1
    <2> QED
      BY <1>2, <2>1
  <1>6. g[k + 1] = e
    BY <1>1, <1>2
  <1> HIDE DEF f, g, e, k
  <1>7. g = Append(f, e)
    <2>1. /\ Append(f, e) \in Seq(Fragments) /\ Len(Append(f, e)) = k + 1
          /\ \A n \in 1..k : Append(f, e)[n] = f[n]
          /\ Append(f, e)[k + 1] = e
      BY <1>1, <1>3, <1>4
    <2>2. \A n \in 1..(k + 1) : n \in 1..k \/ n = k + 1
      BY <1>1
    <2>3. \A n \in 1..Len(g) : g[n] = Append(f, e)[n]
      BY <1>4, <1>5, <1>6, <2>1, <2>2
    <2> QED
      BY <1>3, <1>4, <2>1, <2>3, SeqEqual
  <1>8. Held(i, more) = [tool |-> call.tool, fragments |-> g]
        /\ Held(i, call) = [tool |-> call.tool, fragments |-> f]
    BY DEF Held, f, g
  <1> QED
    BY <1>7, <1>8 DEF f, g, e, k

\* A call without arguments holds nothing, complete or not.
LEMMA HeldEmpty ==
    ASSUME NEW i, NEW call \in Calls, NEW done \in Calls, call.sent = 0,
           done.sent = 0, done.tool = call.tool
    PROVE  Held(i, done) = Held(i, call)
  BY DEF Held

LEMMA ReceivedIsHeld ==
    ASSUME NEW i
    PROVE  Received(i) = Held(i, asked[i])
  BY DEF Received, Held

-----------------------------------------------------------------------------

\* The types, under names.
LEMMA Types ==
    ASSUME TypeOK
    PROVE  /\ asked \in Seq(Calls) /\ Len(asked) \in Nat
           /\ \A i \in 1..Len(asked) : asked[i] \in Calls
           /\ buffer \in Seq(Buffers) /\ emitted \in Seq(SentinelSet) /\ Len(emitted) \in Nat
  <1>1. asked \in Seq(Calls) /\ buffer \in Seq(Buffers) /\ emitted \in Seq(SentinelSet)
    BY DEF TypeOK, Calls, Buffers, SentinelSet
  <1> QED
    BY <1>1

LEMMA Single ==
    ASSUME NEW b \in Buffers
    PROVE  <<b>> \in Seq(Buffers) /\ Len(<<b>>) = 1 /\ <<b>>[1] = b
  <1>1. [i \in 1..1 |-> b] \in Seq(Buffers)
    OBVIOUS
  <1>2. <<b>> = [i \in 1..1 |-> b]
    OBVIOUS
  <1> QED
    BY <1>1, <1>2

LEMMA LastAsked ==
    ASSUME TypeOK
    PROVE  /\ CallOpen => /\ Len(asked) \in 1..Len(asked) /\ asked # << >>
                          /\ Last(asked) = asked[Len(asked)]
                          /\ ~asked[Len(asked)].closed
           /\ ~CallOpen => asked = << >> \/ asked[Len(asked)].closed
  BY Types DEF CallOpen, Last

\* A step that shows nothing more.
LEMMA ShowsNothing ==
    ASSUME SentinelsAreFaithful, emitted' = emitted, adapter' = adapter, TypeOK,
           reason = "none", Len(asked') \in Nat, Len(asked) <= Len(asked'),
           \A i \in 1..Len(asked) : asked'[i] = asked[i]
    PROVE  SentinelsAreFaithful'
  <1>1. Len(emitted) <= Len(asked) /\ DOMAIN emitted = 1..Len(emitted)
        /\ Len(emitted) \in Nat /\ Len(asked) \in Nat
    BY Types DEF SentinelsAreFaithful
  <1>2. \A i \in DOMAIN emitted : i \in 1..Len(asked) /\ asked'[i] = asked[i]
    BY <1>1
  <1>3. \A i \in DOMAIN emitted : Arguments(i)' = Arguments(i)
    BY <1>2 DEF Arguments
  <1> QED
    BY <1>1, <1>2, <1>3 DEF SentinelsAreFaithful

\* A step that shows the next call of the model.
LEMMA ShowsNext ==
    ASSUME SentinelsAreFaithful, TypeOK, adapter' = adapter, reason = "none",
           Len(asked') \in Nat, Len(asked) <= Len(asked'),
           NEW k \in 1..Len(asked), k = Len(emitted) + 1,
           \A i \in 1..(k - 1) : asked'[i] = asked[i],
           asked'[k] \in Calls,
           emitted' = Append(emitted, Sentinel(Held(k, asked'[k]))),
           \/ asked'[k].closed
           \/ /\ adapter = "claude" /\ reason' \in {"length", "content_filter"}
              /\ k = Len(asked')
    PROVE  /\ SentinelsAreFaithful'
           /\ emitted' \in Seq(SentinelSet)
           /\ Len(emitted') = Len(emitted) + 1
  <1> DEFINE call == asked'[k]
             s == Sentinel(Held(k, call))
  <1>1. /\ Len(emitted) \in Nat /\ Len(asked) \in Nat /\ emitted \in Seq(SentinelSet)
        /\ Len(emitted) = k - 1 /\ k \in Nat
    BY Types
  <1>2. /\ s \in SentinelSet /\ s.tool = call.tool
        /\ s.args = IF call.closed /\ call.sent # 0 THEN k ELSE NoArguments
    BY <1>1, SentinelOf
  <1> HIDE DEF s, call
  <1>3. emitted' = Append(emitted, s)
    BY DEF s, call
  <1>4. /\ emitted' \in Seq(SentinelSet) /\ Len(emitted') = k /\ DOMAIN emitted' = 1..k
        /\ \A i \in 1..(k - 1) : emitted'[i] = emitted[i]
        /\ emitted'[k] = s
    BY <1>1, <1>2, <1>3
  <1>5. ASSUME NEW i \in 1..(k - 1)
        PROVE  /\ emitted'[i].tool = asked'[i].tool
               /\ asked'[i].closed /\ emitted'[i].args = Arguments(i)'
    <2>1. i \in DOMAIN emitted /\ i # Len(asked) /\ asked'[i] = asked[i]
      BY <1>1
    <2>2. emitted[i].tool = asked[i].tool /\ asked[i].closed /\ emitted[i].args = Arguments(i)
      BY <2>1 DEF SentinelsAreFaithful
    <2>3. Arguments(i)' = Arguments(i)
      BY <2>1 DEF Arguments
    <2> QED
      BY <1>4, <2>1, <2>2, <2>3
  <1>6. /\ emitted'[k].tool = asked'[k].tool
        /\ IF asked'[k].closed THEN emitted'[k].args = Arguments(k)'
           ELSE emitted'[k].args = NoArguments
    BY <1>2, <1>4 DEF Arguments, call
  <1>7. \A i \in DOMAIN emitted' : i \in 1..(k - 1) \/ i = k
    BY <1>1, <1>4
  <1>8. SentinelsAreFaithful'
    BY <1>1, <1>4, <1>5, <1>6, <1>7 DEF SentinelsAreFaithful
  <1> QED
    BY <1>1, <1>4, <1>8

\* Where AddFragment puts a fragment.
LEMMA FragmentAdded ==
    ASSUME NEW b \in Seq(Buffers), NEW k \in 1..Len(b), k = Len(b), NEW e \in Fragments,
           NEW more \in Buffers, more.tool = b[k].tool,
           more.fragments = Append(b[k].fragments, e)
    PROVE  /\ AddFragment(b, e) \in Seq(Buffers)
           /\ Len(AddFragment(b, e)) = k
           /\ AddFragment(b, e)[k] = more
           /\ \A i \in 1..(k - 1) : AddFragment(b, e)[i] = b[i]
  <1> DEFINE r == [b[k] EXCEPT !.fragments = Append(b[k].fragments, e)]
  <1>1. b[k] \in Buffers /\ Len(b) \in Nat
    OBVIOUS
  <1>2. r = more
    BY <1>1 DEF Buffers
  <1>3. AddFragment(b, e) = [b EXCEPT ![k] = r]
    BY DEF AddFragment
  <1> HIDE DEF r
  <1> QED
    BY <1>1, <1>2, <1>3

-----------------------------------------------------------------------------

LEMMA InitInv == Init => IInv
  <1> SUFFICES ASSUME Init
               PROVE  IInv
    OBVIOUS
  <1>1. TypeOK
    BY BoundsAssumption DEF Init, TypeOK
  <1>2. asked = << >> /\ emitted = << >> /\ buffer = << >> /\ phase = "streaming" /\ ~CallOpen
    BY DEF Init, CallOpen
  <1> QED
    BY <1>1, <1>2 DEF Init, IInv, OneIsOpen, BufferHolds, ShownSoFar, SentinelsAreFaithful,
       ShownAtEnd

LEMMA TextStep ==
    ASSUME IInv, SendText
    PROVE  IInv'
  <1> USE DEF IInv
  <1>1. /\ phase = "streaming" /\ ~CallOpen /\ texts' = texts + 1
        /\ Len(asked) + texts < MaxBlocks
        /\ UNCHANGED <<adapter, phase, reason, asked>>
    BY DEF SendText
  <1>2. buffer' = buffer /\ emitted' = emitted
    <2>1. CASE adapter = "claude"
      <3>1. buffer = << >>
        BY <1>1, <2>1 DEF BufferHolds
      <3>2. emitted \o << >> = emitted
        BY Types
      <3> QED
        BY <2>1, <3>1, <3>2, SentinelsOfOne DEF SendText, ClaudeBlockStops
    <2>2. CASE adapter # "claude"
      BY <2>2 DEF SendText
    <2> QED
      BY <2>1, <2>2
  <1>3. TypeOK'
    <2>1. texts' \in 0..MaxBlocks
      BY <1>1, Types, BoundsAssumption DEF TypeOK
    <2> QED
      BY <1>1, <1>2, <2>1 DEF TypeOK
  <1>4. CallOpen' = CallOpen
    BY <1>1 DEF CallOpen
  <1>5. OneIsOpen' /\ BufferHolds' /\ ShownSoFar'
    BY <1>1, <1>2, <1>4 DEF OneIsOpen, BufferHolds, ShownSoFar
  <1>6. SentinelsAreFaithful'
    BY <1>1, <1>2 DEF SentinelsAreFaithful, Arguments
  <1>7. ShownAtEnd'
    BY <1>1 DEF ShownAtEnd
  <1> QED
    BY <1>3, <1>5, <1>6, <1>7

\* What the OpenAI client announces when a call begins or the reason arrives.
LEMMA Announces ==
    ASSUME IInv, phase = "streaming", ~CallOpen, adapter' = adapter,
           Len(asked') \in Nat, Len(asked) <= Len(asked'),
           \A i \in 1..Len(asked) : asked'[i] = asked[i],
           emitted' = Announced
    PROVE  /\ SentinelsAreFaithful'
           /\ emitted' \in Seq(SentinelSet)
           /\ adapter = "openai" => Len(emitted') = Len(asked)
           /\ adapter # "openai" => emitted' = emitted
  <1> USE DEF IInv
  <1> DEFINE k == Len(asked)
  <1>1. reason = "none" /\ emitted \in Seq(SentinelSet) /\ k \in Nat
    BY Types DEF ShownSoFar
  <1>2. CASE adapter # "openai"
    BY <1>1, <1>2, ShowsNothing DEF Announced
  <1>3. CASE adapter = "openai" /\ asked = << >>
    <2>1. emitted' = emitted /\ Len(emitted) = k
      <3>1. emitted' = emitted \o << >> /\ Len(emitted) = 0 /\ k = 0
        BY <1>3, SentinelsOfOne DEF Announced, LastReceived, ShownSoFar
      <3> QED
        BY <1>1, <3>1
    <2> QED
      BY <1>1, <1>3, <2>1, ShowsNothing
  <1>4. CASE adapter = "openai" /\ asked # << >>
    <2>1. k \in 1..k /\ asked[k] \in Calls /\ asked[k].closed
      BY <1>4, Types, LastAsked
    <2>2. k = Len(emitted) + 1
      BY <1>1, <1>4, Types DEF ShownSoFar
    <2>3. emitted' = emitted \o <<Sentinel(Held(k, asked[k]))>>
      BY <1>4, SentinelsOfOne, ReceivedIsHeld DEF Announced, LastReceived
    <2>4. Sentinel(Held(k, asked[k])) \in SentinelSet
      BY <1>1, <2>1, SentinelOf
    <2>5. emitted' = Append(emitted, Sentinel(Held(k, asked[k])))
      BY <1>1, <2>3, <2>4
    <2>6. PICK j \in 1..Len(asked) : j = k
      BY <2>1
    <2>7. /\ j = Len(emitted) + 1 /\ asked'[j] = asked[j]
          /\ asked'[j] \in Calls /\ asked'[j].closed
          /\ \A i \in 1..(j - 1) : asked'[i] = asked[i]
          /\ emitted' = Append(emitted, Sentinel(Held(j, asked'[j])))
      BY <1>1, <2>1, <2>2, <2>5, <2>6
    <2>8. SentinelsAreFaithful' /\ emitted' \in Seq(SentinelSet) /\ Len(emitted') = Len(emitted) + 1
      BY <1>1, <2>7, ShowsNext
    <2> QED
      BY <1>4, <2>2, <2>8
  <1> QED
    BY <1>2, <1>3, <1>4

LEMMA OpenStep ==
    ASSUME IInv, NEW tool \in Tools, OpenCall(tool)
    PROVE  IInv'
  <1> USE DEF IInv
  <1> DEFINE call == [tool |-> tool, sent |-> 0, closed |-> FALSE]
             held == [tool |-> tool, fragments |-> << >>]
             k == Len(asked)
  <1>1. /\ phase = "streaming" /\ ~CallOpen
        /\ asked' = Append(asked, call)
        /\ emitted' = Announced
        /\ UNCHANGED <<adapter, phase, reason, texts>>
    BY DEF OpenCall
  <1>2. call \in Calls /\ held \in Buffers /\ k \in Nat /\ asked \in Seq(Calls)
    BY Types, BoundsAssumption DEF Calls, Buffers
  <1>3. /\ asked' \in Seq(Calls) /\ Len(asked') = k + 1 /\ asked'[k + 1] = call
        /\ \A i \in 1..k : asked'[i] = asked[i]
        /\ asked' # << >>
    BY <1>1, <1>2
  <1>4. Held(k + 1, call) = held
    <2>1. [n \in 1..0 |-> [of |-> k + 1, no |-> n, last |-> FALSE /\ n = 0]] = << >>
      OBVIOUS
    <2> QED
      BY <2>1 DEF Held
  <1>5. CallOpen'
    BY <1>3 DEF CallOpen, Last
  <1>6. /\ adapter = "openai" => buffer' = buffer
        /\ adapter = "claude" => buffer' = <<held>>
        /\ adapter = "langchain" => buffer' = Append(buffer, held)
        /\ adapter \in {"openai", "claude", "langchain"}
    BY DEF OpenCall, TypeOK, Adapters
  <1> HIDE DEF call, held
  <1>12. /\ SentinelsAreFaithful' /\ emitted' \in Seq(SentinelSet)
         /\ adapter = "openai" => Len(emitted') = k
         /\ adapter # "openai" => emitted' = emitted
    BY <1>1, <1>2, <1>3, Announces
  <1>7. TypeOK'
    <2>1. buffer' \in Seq(Buffers) /\ (adapter = "claude" => Len(buffer') <= 1)
      <3>1. CASE adapter = "openai"
        BY <1>6, <3>1, Types
      <3>2. CASE adapter = "claude"
        <4>1. <<held>> \in Seq(Buffers) /\ Len(<<held>>) = 1
          BY <1>2, Single
        <4>2. buffer' = <<held>>
          BY <1>6, <3>2
        <4> QED
          BY <4>1, <4>2
      <3>3. CASE adapter = "langchain"
        <4>1. Append(buffer, held) \in Seq(Buffers)
          BY <1>2, Types
        <4>2. adapter # "claude"
          BY <3>3
        <4> QED
          BY <1>6, <3>3, <4>1, <4>2
      <3> QED
        BY <1>6, <3>1, <3>2, <3>3
    <2> QED
      BY <1>1, <1>3, <1>12, <2>1 DEF TypeOK, Calls, Buffers, SentinelSet
  <1>8. OneIsOpen'
    <2>1. ASSUME NEW i \in DOMAIN asked', i # Len(asked')
          PROVE  asked'[i].closed
      <3>1. i \in 1..k /\ asked'[i] = asked[i]
        BY <1>2, <1>3, <2>1
      <3>2. asked # << >> /\ asked[k].closed
        BY <1>1, <1>2, <3>1, LastAsked
      <3> QED
        BY <1>2, <3>1, <3>2 DEF OneIsOpen
    <2> QED
      BY <2>1 DEF OneIsOpen
  <1>9. BufferHolds'
    <2>1. CASE adapter = "openai"
      BY <1>1, <1>6, <2>1 DEF BufferHolds
    <2>2. CASE adapter = "claude"
      BY <1>1, <1>3, <1>4, <1>5, <1>6, <2>2 DEF BufferHolds
    <2>3. CASE adapter = "langchain"
      <3>1. buffer = [i \in 1..k |-> Held(i, asked[i])] /\ buffer \in Seq(Buffers)
        BY <1>1, <2>3, Types DEF BufferHolds
      <3>2. Len(buffer) = k /\ \A i \in 1..k : buffer[i] = Held(i, asked[i])
        BY <1>2, <3>1
      <3>3. /\ buffer' \in Seq(Buffers) /\ Len(buffer') = k + 1 /\ buffer'[k + 1] = held
            /\ \A i \in 1..k : buffer'[i] = buffer[i]
        BY <1>2, <1>6, <2>3, <3>1, <3>2
      <3>4. \A i \in 1..(k + 1) : i \in 1..k \/ i = k + 1
        BY <1>2
      <3>5. \A i \in 1..(k + 1) : buffer'[i] = Held(i, asked'[i])
        BY <1>3, <1>4, <3>2, <3>3, <3>4
      <3>6. buffer' = [i \in 1..(k + 1) |-> Held(i, asked'[i])]
        BY <3>3, <3>5
      <3> QED
        BY <1>1, <1>3, <2>3, <3>6 DEF BufferHolds
    <2> QED
      BY <1>6, <2>1, <2>2, <2>3
  <1>10. ShownSoFar'
    <2>1. adapter = "claude" => Len(emitted') = k
      BY <1>1, <1>12 DEF ShownSoFar
    <2>2. adapter = "langchain" => emitted' = << >>
      BY <1>1, <1>12 DEF ShownSoFar
    <2>3. /\ reason' = "none" /\ adapter' = adapter /\ Len(asked') - 1 = k
          /\ asked' # << >>
      BY <1>1, <1>2, <1>3 DEF ShownSoFar
    <2> QED
      BY <1>5, <1>12, <2>1, <2>2, <2>3 DEF ShownSoFar
  <1>11. ShownAtEnd'
    BY <1>1 DEF ShownAtEnd
  <1> QED
    BY <1>7, <1>8, <1>9, <1>10, <1>11, <1>12

\* What becomes of the open call, when it grows or is closed.
LEMMA OpenCallChanges ==
    ASSUME TypeOK, OneIsOpen, CallOpen, NEW more \in Calls,
           asked' = [asked EXCEPT ![Len(asked)] = more]
    PROVE  /\ asked' \in Seq(Calls) /\ Len(asked') = Len(asked) /\ asked'[Len(asked)] = more
           /\ Len(asked) \in 1..Len(asked)
           /\ \A i \in 1..(Len(asked) - 1) : asked'[i] = asked[i] /\ asked[i].closed
           /\ OneIsOpen'
           /\ CallOpen' <=> ~more.closed
  <1> DEFINE k == Len(asked)
  <1>1. k \in 1..k /\ k \in Nat /\ asked \in Seq(Calls) /\ DOMAIN asked = 1..k
    BY Types, LastAsked
  <1>2. asked' \in Seq(Calls) /\ Len(asked') = k /\ asked'[k] = more
    BY <1>1
  <1>3. ASSUME NEW i \in 1..(k - 1)
        PROVE  asked'[i] = asked[i] /\ asked[i].closed
    <2>1. i \in 1..k /\ i # k
      <3> HIDE DEF k
      <3> QED
        BY <1>1
    <2>2. i \in DOMAIN asked
      BY <1>1, <2>1, Zenon
    <2>3. asked[i].closed
      BY <2>1, <2>2, Zenon DEF OneIsOpen
    <2>4. asked'[i] = asked[i]
      BY <2>1, <2>2, Zenon
    <2> QED
      BY <2>3, <2>4
  <1>4. OneIsOpen'
    <2>1. ASSUME NEW i \in DOMAIN asked', i # Len(asked')
          PROVE  asked'[i].closed
      <3>1. i \in 1..(k - 1)
        BY <1>1, <1>2, <2>1
      <3> QED
        BY <1>3, <3>1
    <2> QED
      BY <2>1 DEF OneIsOpen
  <1>5. CallOpen' <=> ~more.closed
    <2>1. asked' # << >>
      BY <1>1, <1>2
    <2> QED
      BY <1>2, <2>1 DEF CallOpen, Last
  <1>6. \A i \in 1..(k - 1) : asked'[i] = asked[i] /\ asked[i].closed
    BY <1>3
  <1> QED
    BY <1>1, <1>2, <1>4, <1>5, <1>6, Zenon

LEMMA CallGrows ==
    ASSUME NEW c \in Calls, NEW last \in BOOLEAN
    PROVE  [c EXCEPT !.sent = @ + 1, !.closed = last] =
             [tool |-> c.tool, sent |-> c.sent + 1, closed |-> last]
  <1> DEFINE d == [c EXCEPT !.sent = @ + 1]
  <1>1. d = [tool |-> c.tool, sent |-> c.sent + 1, closed |-> c.closed]
    BY DEF Calls
  <1>2. d \in [tool : Tools, sent : Nat, closed : BOOLEAN]
    BY <1>1, BoundsAssumption DEF Calls
  <1>3. \A e \in [tool : Tools, sent : Nat, closed : BOOLEAN] :
           [e EXCEPT !.closed = last] = [tool |-> e.tool, sent |-> e.sent, closed |-> last]
    OBVIOUS
  <1>4. d.tool = c.tool /\ d.sent = c.sent + 1
    BY <1>1
  <1> HIDE DEF d
  <1>5. [d EXCEPT !.closed = last] = [tool |-> d.tool, sent |-> d.sent, closed |-> last]
    BY <1>2, <1>3
  <1> QED
    BY <1>4, <1>5, Zenon DEF d

LEMMA FragmentStep ==
    ASSUME IInv, NEW last \in BOOLEAN, SendFragment(last)
    PROVE  IInv'
  <1> USE DEF IInv
  <1> DEFINE k == Len(asked)
             call == asked[k]
             more == [tool |-> call.tool, sent |-> call.sent + 1, closed |-> last]
             fragment == [of |-> k, no |-> call.sent + 1, last |-> last]
  <1>1. /\ phase = "streaming" /\ CallOpen /\ reason = "none"
        /\ call.sent < MaxFragments
        /\ asked' = [asked EXCEPT ![k].sent = @ + 1, ![k].closed = last]
        /\ UNCHANGED <<adapter, phase, reason, texts>>
    BY LastAsked DEF SendFragment, ShownSoFar
  <1>2. k \in 1..k /\ k \in Nat /\ asked \in Seq(Calls) /\ call \in Calls /\ ~call.closed
    BY <1>1, Types, LastAsked
  <1>3. /\ more \in Calls /\ more.tool = call.tool
        /\ more.sent = call.sent + 1 /\ more.closed = last
        /\ fragment \in Fragments
    <2>1. call.sent \in Nat /\ call.sent + 1 \in 0..MaxFragments /\ call.tool \in Tools
      BY <1>1, <1>2, BoundsAssumption DEF Calls
    <2>2. fragment \in Fragments
      BY <1>2, <2>1 DEF Fragments
    <2> QED
      BY <2>1, <2>2 DEF Calls
  <1>4. asked' = [asked EXCEPT ![k] = more]
    <2>1. PICK c \in Calls : c = call
      BY <1>2
    <2>2. asked' = [asked EXCEPT ![k] = [c EXCEPT !.sent = @ + 1, !.closed = last]]
      BY <1>1, <1>2, <2>1
    <2>3. [c EXCEPT !.sent = @ + 1, !.closed = last] = more
      <3>1. [c EXCEPT !.sent = @ + 1, !.closed = last] =
              [tool |-> c.tool, sent |-> c.sent + 1, closed |-> last]
        BY CallGrows, Zenon
      <3> HIDE DEF call
      <3> QED
        BY <2>1, <3>1, Zenon
    <2> HIDE DEF more
    <2> QED
      BY <2>2, <2>3, Zenon
  <1>5. /\ adapter = "openai" => buffer' = buffer /\ emitted' = emitted
        /\ adapter = "claude" /\ last => ClaudeBlockStops(AddFragment(buffer, fragment))
        /\ adapter = "langchain" \/ (adapter = "claude" /\ ~last) =>
             buffer' = AddFragment(buffer, fragment) /\ emitted' = emitted
        /\ adapter \in {"openai", "claude", "langchain"}
    BY LastAsked, <1>1 DEF SendFragment, TypeOK, Adapters
  <1> HIDE DEF call, more, fragment
  <1>6. /\ asked' \in Seq(Calls) /\ Len(asked') = k /\ asked'[k] = more
        /\ \A i \in 1..(k - 1) : asked'[i] = asked[i] /\ asked[i].closed
        /\ OneIsOpen'
        /\ CallOpen' <=> ~last
    BY <1>1, <1>3, <1>4, OpenCallChanges
  <1> DEFINE held == Held(k, call)
             grown == Held(k, more)
  <1>7. /\ held \in Buffers /\ grown \in Buffers
        /\ grown.tool = held.tool
        /\ grown.fragments = Append(held.fragments, fragment)
    <2>1. held \in Buffers /\ grown \in Buffers
      BY <1>2, <1>3, HeldType
    <2> QED
      BY <1>2, <1>3, <2>1, HeldGrows DEF fragment
  <1>8. adapter = "claude" => buffer = <<held>>
    BY <1>1 DEF BufferHolds, call
  <1>9. adapter = "langchain" => buffer = [i \in 1..k |-> Held(i, asked[i])]
    BY <1>1 DEF BufferHolds
  <1> HIDE DEF held, grown
  <1>10. adapter = "claude" => AddFragment(buffer, fragment) = <<grown>>
    <2>1. CASE adapter = "claude"
      <3> DEFINE b == AddFragment(buffer, fragment)
      <3>1. buffer \in Seq(Buffers) /\ Len(buffer) = 1 /\ buffer[1] = held /\ 1 \in 1..Len(buffer)
        <4>1. buffer = <<held>>
          BY <1>8, <2>1
        <4>2. <<held>> \in Seq(Buffers) /\ Len(<<held>>) = 1 /\ <<held>>[1] = held
          BY <1>7, Single
        <4> QED
          BY <4>1, <4>2
      <3>2. b \in Seq(Buffers) /\ Len(b) = 1 /\ b[1] = grown
        BY <1>3, <1>7, <3>1, FragmentAdded
      <3> HIDE DEF b
      <3>3. b = <<grown>>
        BY <3>2
      <3> QED
        BY <3>3 DEF b
    <2> QED
      BY <2>1
  <1>11. adapter = "langchain" =>
           /\ buffer' \in Seq(Buffers)
           /\ buffer' = [i \in 1..k |-> Held(i, asked'[i])]
    <2>1. CASE adapter = "langchain"
      <3>1. buffer \in Seq(Buffers) /\ Len(buffer) = k /\ \A i \in 1..k : buffer[i] = Held(i, asked[i])
        BY <1>2, <1>9, <2>1, Types
      <3>2. buffer[k] = held /\ k \in 1..Len(buffer)
        BY <1>2, <3>1 DEF held, call
      <3>3. /\ buffer' \in Seq(Buffers) /\ Len(buffer') = k /\ buffer'[k] = grown
            /\ \A i \in 1..(k - 1) : buffer'[i] = buffer[i]
        BY <1>3, <1>5, <1>7, <2>1, <3>1, <3>2, FragmentAdded
      <3>4. \A i \in 1..k : i \in 1..(k - 1) \/ i = k
        BY <1>2
      <3>5. \A i \in 1..(k - 1) : i \in 1..k
        BY <1>2
      <3>6. \A i \in 1..k : buffer'[i] = Held(i, asked'[i])
        BY <1>6, <3>1, <3>3, <3>4, <3>5 DEF grown
      <3>7. buffer' = [i \in 1..k |-> buffer'[i]]
        BY <3>3
      <3> QED
        BY <3>3, <3>6, <3>7
    <2> QED
      BY <2>1
  <1>12. CASE adapter = "claude" /\ last
    <2>1. emitted' = emitted \o <<Sentinel(grown)>> /\ buffer' = << >>
      BY <1>5, <1>10, <1>12, SentinelsOfOne DEF ClaudeBlockStops
    <2>2. Sentinel(grown) \in SentinelSet
      BY <1>2, <1>3, SentinelOf DEF grown
    <2>3. emitted' = Append(emitted, Sentinel(grown)) /\ Len(emitted) = k - 1
      BY <1>1, <1>12, <2>1, <2>2, Types DEF ShownSoFar
    <2>4. k = Len(emitted) + 1
      BY <1>2, <2>3
    <2>5. /\ SentinelsAreFaithful'
          /\ emitted' \in Seq(SentinelSet)
          /\ Len(emitted') = Len(emitted) + 1
      <3>1. /\ k \in 1..Len(asked) /\ Len(asked') \in Nat /\ Len(asked) <= Len(asked')
            /\ \A i \in 1..(k - 1) : asked'[i] = asked[i]
            /\ asked'[k] \in Calls /\ asked'[k].closed
            /\ reason = "none" /\ adapter' = adapter
        BY <1>1, <1>2, <1>3, <1>6, <1>12
      <3>2. emitted' = Append(emitted, Sentinel(Held(k, asked'[k])))
        BY <1>6, <2>3 DEF grown
      <3> QED
        BY <2>4, <3>1, <3>2, ShowsNext
    <2>6. TypeOK'
      BY <1>1, <1>6, <2>1, <2>5 DEF TypeOK, Calls, SentinelSet
    <2>7. BufferHolds' /\ ShownSoFar' /\ ShownAtEnd'
      BY <1>1, <1>2, <1>6, <1>12, <2>1, <2>4, <2>5 DEF BufferHolds, ShownSoFar, ShownAtEnd
    <2> QED
      BY <1>6, <2>5, <2>6, <2>7
  <1>13. CASE ~(adapter = "claude" /\ last)
    <2>1. emitted' = emitted
      BY <1>5, <1>13
    <2>2. buffer' \in Seq(Buffers) /\ (adapter = "claude" => Len(buffer') <= 1)
      <3>1. CASE adapter = "openai"
        BY <1>5, <3>1, Types
      <3>2. CASE adapter = "claude"
        <4>1. buffer' = <<grown>>
          BY <1>5, <1>10, <1>13, <3>2
        <4>2. <<grown>> \in Seq(Buffers) /\ Len(<<grown>>) = 1
          BY <1>7, Single
        <4> QED
          BY <4>1, <4>2
      <3> QED
        BY <1>5, <1>11, <3>1, <3>2
    <2>3. TypeOK'
      BY <1>1, <1>6, <2>1, <2>2 DEF TypeOK, Calls, Buffers
    <2>4. BufferHolds'
      <3>1. CASE adapter = "openai"
        BY <1>1, <1>5, <3>1 DEF BufferHolds
      <3>2. CASE adapter = "claude"
        BY <1>1, <1>5, <1>6, <1>10, <1>13, <3>2 DEF BufferHolds, grown
      <3>3. CASE adapter = "langchain"
        BY <1>1, <1>6, <1>11, <3>3 DEF BufferHolds
      <3> QED
        BY <1>5, <3>1, <3>2, <3>3
    <2>5. ShownSoFar'
      <3>1. adapter = "claude" => CallOpen' /\ Len(emitted) = k - 1
        BY <1>1, <1>6, <1>13 DEF ShownSoFar
      <3>2. adapter = "langchain" => emitted = << >>
        BY <1>1 DEF ShownSoFar
      <3>3. asked' # << >> /\ (adapter = "openai" => Len(emitted) = k - 1)
        <4>1. asked # << >> /\ asked' # << >>
          BY <1>2, <1>6
        <4> QED
          BY <1>1, <4>1 DEF ShownSoFar
      <3> QED
        <4>1. reason' = "none" /\ adapter' = adapter /\ emitted' = emitted /\ Len(asked') = k
          BY <1>1, <1>6, <2>1
        <4> HIDE DEF k
        <4>2. adapter = "claude" => Len(emitted') = IF CallOpen' THEN Len(asked') - 1 ELSE Len(asked')
          BY <3>1, <4>1
        <4>3. adapter = "openai" =>
                Len(emitted') = IF asked' = << >> THEN 0 ELSE Len(asked') - 1
          BY <3>3, <4>1
        <4> QED
          BY <3>2, <4>1, <4>2, <4>3 DEF ShownSoFar
    <2>6. SentinelsAreFaithful'
      <3>1. emitted' = emitted /\ \A i \in DOMAIN emitted : i \in 1..(k - 1)
        <4>1. \A i \in DOMAIN emitted : asked[i].closed /\ i \in 1..k
          BY <1>1, <1>2, Types DEF SentinelsAreFaithful
        <4> QED
          BY <1>2, <2>1, <4>1 DEF call
      <3>2. \A i \in DOMAIN emitted : asked'[i] = asked[i]
        BY <1>6, <3>1
      <3>3. \A i \in DOMAIN emitted : Arguments(i)' = Arguments(i)
        BY <3>2 DEF Arguments
      <3> QED
        BY <1>1, <1>6, <3>1, <3>2, <3>3 DEF SentinelsAreFaithful
    <2>7. ShownAtEnd'
      BY <1>1 DEF ShownAtEnd
    <2> QED
      BY <1>6, <2>3, <2>4, <2>5, <2>6, <2>7
  <1> QED
    BY <1>12, <1>13

LEMMA CallCloses ==
    ASSUME NEW c \in Calls, NEW last \in BOOLEAN
    PROVE  [c EXCEPT !.closed = last] = [tool |-> c.tool, sent |-> c.sent, closed |-> last]
  BY DEF Calls

LEMMA CloseEmptyStep ==
    ASSUME IInv, CloseEmptyCall
    PROVE  IInv'
  <1> USE DEF IInv
  <1> DEFINE k == Len(asked)
             call == asked[k]
             done == [tool |-> call.tool, sent |-> 0, closed |-> TRUE]
             held == Held(k, call)
  <1>1. /\ phase = "streaming" /\ CallOpen /\ reason = "none" /\ call.sent = 0
        /\ asked' = [asked EXCEPT ![k].closed = TRUE]
        /\ UNCHANGED <<adapter, phase, reason, texts>>
    BY LastAsked DEF CloseEmptyCall, ShownSoFar
  <1>2. k \in 1..k /\ k \in Nat /\ asked \in Seq(Calls) /\ call \in Calls /\ ~call.closed
    BY <1>1, Types, LastAsked
  <1>3. done \in Calls
    BY <1>2, BoundsAssumption DEF Calls
  <1>4. asked' = [asked EXCEPT ![k] = done]
    <2>1. PICK c \in Calls : c = call
      BY <1>2
    <2>2. asked' = [asked EXCEPT ![k] = [c EXCEPT !.closed = TRUE]]
      BY <1>1, <1>2, <2>1
    <2>3. [c EXCEPT !.closed = TRUE] = [tool |-> c.tool, sent |-> c.sent, closed |-> TRUE]
      <3>1. TRUE \in BOOLEAN
        OBVIOUS
      <3> QED
        BY <3>1, CallCloses, Zenon
    <2>4. c.tool = call.tool /\ c.sent = 0
      BY <1>1, <2>1
    <2> QED
      BY <2>2, <2>3, <2>4
  <1>5. adapter = "claude" => buffer = <<held>>
    BY <1>1 DEF BufferHolds
  <1>6. IF adapter = "claude" THEN ClaudeBlockStops(<<held>>)
        ELSE buffer' = buffer /\ emitted' = emitted
    BY <1>5 DEF CloseEmptyCall
  <1>7. Held(k, done) = held
    BY <1>1, <1>2, <1>3, HeldEmpty
  <1>8. done.closed = TRUE
    OBVIOUS
  <1> HIDE DEF call, done, held
  <1>9. /\ asked' \in Seq(Calls) /\ Len(asked') = k /\ asked'[k] = done
        /\ \A i \in 1..(k - 1) : asked'[i] = asked[i] /\ asked[i].closed
        /\ OneIsOpen'
        /\ ~CallOpen'
    BY <1>1, <1>3, <1>4, <1>8, OpenCallChanges
  <1>10. CASE adapter = "claude"
    <2>1. emitted' = emitted \o <<Sentinel(held)>> /\ buffer' = << >>
      BY <1>6, <1>10, SentinelsOfOne DEF ClaudeBlockStops
    <2>2. Sentinel(held) \in SentinelSet
      BY <1>2, SentinelOf DEF held
    <2>3. emitted' = Append(emitted, Sentinel(held)) /\ Len(emitted) = k - 1
      BY <1>1, <1>10, <2>1, <2>2, Types DEF ShownSoFar
    <2>4. k = Len(emitted) + 1
      BY <1>2, <2>3
    <2>5. /\ SentinelsAreFaithful'
          /\ emitted' \in Seq(SentinelSet)
          /\ Len(emitted') = Len(emitted) + 1
      <3>1. /\ k \in 1..Len(asked) /\ Len(asked') \in Nat /\ Len(asked) <= Len(asked')
            /\ \A i \in 1..(k - 1) : asked'[i] = asked[i]
            /\ asked'[k] \in Calls /\ asked'[k].closed
            /\ reason = "none" /\ adapter' = adapter
        BY <1>1, <1>2, <1>3, <1>8, <1>9
      <3>2. emitted' = Append(emitted, Sentinel(Held(k, asked'[k])))
        BY <1>7, <1>9, <2>3
      <3> QED
        BY <2>4, <3>1, <3>2, ShowsNext
    <2>6. TypeOK'
      BY <1>1, <1>9, <2>1, <2>5 DEF TypeOK, Calls, SentinelSet
    <2>7. BufferHolds' /\ ShownSoFar' /\ ShownAtEnd'
      BY <1>1, <1>2, <1>9, <1>10, <2>1, <2>4, <2>5 DEF BufferHolds, ShownSoFar, ShownAtEnd
    <2> QED
      BY <1>9, <2>5, <2>6, <2>7
  <1>11. CASE adapter # "claude"
    <2>1. buffer' = buffer /\ emitted' = emitted
      BY <1>6, <1>11
    <2>2. TypeOK'
      BY <1>1, <1>9, <2>1 DEF TypeOK, Calls
    <2>3. BufferHolds'
      <3>1. ASSUME adapter = "langchain"
            PROVE  buffer = [i \in 1..k |-> Held(i, asked'[i])]
        <4>1. buffer = [i \in 1..k |-> Held(i, asked[i])]
          BY <1>1, <3>1 DEF BufferHolds
        <4>2. ASSUME NEW i \in 1..k
              PROVE  Held(i, asked'[i]) = Held(i, asked[i])
          <5>1. CASE i = k
            BY <1>7, <1>9, <5>1 DEF held, call
          <5>2. CASE i # k
            <6>1. i \in 1..(k - 1)
              BY <1>2, <5>2
            <6> QED
              BY <1>9, <6>1
          <5> QED
            BY <5>1, <5>2
        <4> QED
          BY <4>1, <4>2
      <3> QED
        BY <1>1, <1>9, <1>11, <2>1, <3>1 DEF BufferHolds
    <2>4. ShownSoFar'
      BY <1>1, <1>11, <2>1 DEF ShownSoFar
    <2>5. SentinelsAreFaithful'
      <3>1. \A i \in DOMAIN emitted : i \in 1..(k - 1)
        <4>1. \A i \in DOMAIN emitted : asked[i].closed /\ i \in 1..k
          BY <1>1, <1>2, Types DEF SentinelsAreFaithful
        <4> QED
          BY <1>2, <4>1 DEF call
      <3>2. \A i \in DOMAIN emitted : asked'[i] = asked[i]
        BY <1>9, <3>1
      <3>3. \A i \in DOMAIN emitted : Arguments(i)' = Arguments(i)
        BY <3>2 DEF Arguments
      <3> QED
        BY <1>1, <1>9, <2>1, <3>2, <3>3 DEF SentinelsAreFaithful
    <2>6. ShownAtEnd'
      BY <1>1 DEF ShownAtEnd
    <2> QED
      BY <1>9, <2>2, <2>3, <2>4, <2>5, <2>6
  <1> QED
    BY <1>10, <1>11

LEMMA FinishStep ==
    ASSUME IInv, NEW why \in {"stop", "tool_calls"}, Finish(why)
    PROVE  IInv'
  <1> USE DEF IInv
  <1> DEFINE k == Len(asked)
  <1>1. /\ phase = "streaming" /\ phase' = "ended" /\ reason = "none" /\ reason' = why
        /\ why \in {"stop", "tool_calls"} /\ ~CallOpen
        /\ UNCHANGED <<adapter, asked, texts>>
    BY DEF Finish, ShownSoFar
  <1>2. /\ k \in Nat /\ \A i \in 1..k : asked[i] \in Calls /\ asked[i].closed
    <2>1. k \in Nat /\ DOMAIN asked = 1..k /\ \A i \in 1..k : asked[i] \in Calls
      BY Types
    <2>2. \A i \in 1..k : asked[i].closed
      BY <1>1, <2>1, LastAsked DEF OneIsOpen
    <2> QED
      BY <2>1, <2>2
  <1>3. CASE adapter = "langchain"
    <2>1. emitted = << >> /\ buffer = [i \in 1..k |-> Held(i, asked[i])]
      BY <1>1, <1>3 DEF ShownSoFar, BufferHolds
    <2>2. emitted' = emitted \o Sentinels(buffer) /\ buffer' = << >>
      BY <1>1, <1>3 DEF Finish, Flush, Flushes
    <2>3. Sentinels(buffer) = [i \in 1..k |-> Sentinel(Held(i, asked[i]))]
      BY <2>1 DEF Sentinels
    <2>4. \A i \in 1..k :
             LET s == Sentinel(Held(i, asked[i])) IN
             s \in SentinelSet /\ s.tool = asked[i].tool /\ s.args = Arguments(i)
      BY <1>2, SentinelOf DEF Arguments
    <2>5. Sentinels(buffer) \in Seq(SentinelSet) /\ Len(Sentinels(buffer)) = k
      BY <1>2, <2>3, <2>4
    <2>6. emitted' = Sentinels(buffer)
      <3>1. emitted' = << >> \o Sentinels(buffer)
        BY <2>1, <2>2
      <3> QED
        BY <2>5, <3>1, ConcatEmptySeq
    <2>7. TypeOK'
      BY <1>1, <2>2, <2>5, <2>6 DEF TypeOK, SentinelSet
    <2>8. SentinelsAreFaithful'
      <3>1. DOMAIN emitted' = 1..k /\ Len(emitted') = k /\ Len(asked') = k
        BY <1>1, <2>5, <2>6
      <3>2. \A i \in 1..k : emitted'[i].tool = asked[i].tool /\ emitted'[i].args = Arguments(i)
        BY <2>3, <2>4, <2>6
      <3>3. \A i \in 1..k : Arguments(i)' = Arguments(i) /\ asked'[i] = asked[i]
        BY <1>1 DEF Arguments
      <3> QED
        BY <1>2, <3>1, <3>2, <3>3 DEF SentinelsAreFaithful
    <2>9. ShownAtEnd'
      BY <1>1, <1>3, <2>5, <2>6 DEF ShownAtEnd
    <2> QED
      BY <1>1, <1>3, <2>7, <2>8, <2>9 DEF OneIsOpen, BufferHolds, ShownSoFar
  <1>4. CASE adapter # "langchain"
    <2>1. buffer' = buffer /\ emitted' = Announced
      BY <1>4 DEF Finish
    <2>2. /\ SentinelsAreFaithful' /\ emitted' \in Seq(SentinelSet)
          /\ adapter = "openai" => Len(emitted') = k
          /\ adapter # "openai" => emitted' = emitted
      BY <1>1, <1>2, <2>1, Announces
    <2>3. TypeOK'
      BY <1>1, <2>1, <2>2 DEF TypeOK, SentinelSet
    <2>4. Len(emitted') = k
      BY <1>1, <1>4, <2>2 DEF ShownSoFar, TypeOK, Adapters
    <2>5. ShownAtEnd'
      BY <1>1, <1>4, <2>4 DEF ShownAtEnd
    <2> QED
      BY <1>1, <1>4, <2>1, <2>2, <2>3, <2>5 DEF OneIsOpen, BufferHolds, ShownSoFar
  <1> QED
    BY <1>3, <1>4

LEMMA CutOffStep ==
    ASSUME IInv, NEW why \in {"length", "content_filter"}, CutOff(why)
    PROVE  IInv'
  <1> USE DEF IInv
  <1> DEFINE k == Len(asked)
             held == Held(k, asked[k])
  <1>1. /\ phase = "streaming" /\ phase' # "streaming" /\ phase' \in {"ended", "raised"}
        /\ reason = "none" /\ reason' = why /\ why \in {"length", "content_filter"}
        /\ UNCHANGED <<adapter, asked, texts>>
        /\ adapter \in {"openai", "claude", "langchain"}
        /\ adapter = "openai" => phase' = "raised"
        /\ adapter = "claude" => ClaudeBlockStops(buffer)
        /\ adapter # "claude" => buffer' = buffer /\ emitted' = emitted
    BY DEF CutOff, Flush, Flushes, ShownSoFar, TypeOK, Adapters
  <1>2. CASE adapter = "claude" /\ CallOpen
    <2>1. /\ k \in 1..k /\ k \in Nat /\ asked[k] \in Calls /\ asked # << >>
          /\ buffer = <<held>> /\ Len(emitted) = k - 1
      BY <1>1, <1>2, Types, LastAsked DEF BufferHolds, ShownSoFar
    <2>2. Sentinel(held) \in SentinelSet
      BY <2>1, SentinelOf
    <2> HIDE DEF held
    <2>3. emitted' = Append(emitted, Sentinel(held)) /\ buffer' = << >>
      <3>1. emitted' = emitted \o <<Sentinel(held)>> /\ buffer' = << >>
        BY <1>1, <1>2, <2>1, SentinelsOfOne DEF ClaudeBlockStops
      <3> QED
        BY <2>2, <3>1, Types
    <2>4. /\ SentinelsAreFaithful'
          /\ emitted' \in Seq(SentinelSet)
          /\ Len(emitted') = k
      <3>1. PICK j \in 1..Len(asked) : j = k
        BY <2>1
      <3>2. /\ j = Len(emitted) + 1 /\ asked'[j] \in Calls /\ j = Len(asked')
            /\ emitted' = Append(emitted, Sentinel(Held(j, asked'[j])))
            /\ \A i \in 1..(j - 1) : asked'[i] = asked[i]
            /\ Len(asked') \in Nat /\ Len(asked) <= Len(asked') /\ adapter' = adapter
            /\ adapter = "claude" /\ reason' \in {"length", "content_filter"} /\ reason = "none"
        BY <1>1, <1>2, <2>1, <2>3, <3>1 DEF held
      <3>3. /\ SentinelsAreFaithful' /\ emitted' \in Seq(SentinelSet)
            /\ Len(emitted') = Len(emitted) + 1
        BY <3>2, ShowsNext
      <3> QED
        BY <2>1, <3>3
    <2>5. TypeOK'
      BY <1>1, <2>3, <2>4 DEF TypeOK, SentinelSet
    <2>6. ShownAtEnd'
      BY <1>1, <1>2, <2>4 DEF ShownAtEnd
    <2> QED
      BY <1>1, <1>2, <2>3, <2>4, <2>5, <2>6 DEF OneIsOpen, BufferHolds, ShownSoFar
  <1>3. CASE ~(adapter = "claude" /\ CallOpen)
    <2>1. /\ emitted' = emitted /\ (adapter = "claude" => Len(emitted) = k)
          /\ buffer' = buffer
      <3>1. CASE adapter = "claude"
        <4>1. buffer = << >> /\ Len(emitted) = k
          BY <1>1, <1>3, <3>1 DEF BufferHolds, ShownSoFar
        <4> QED
          BY <1>1, <3>1, <4>1, SentinelsOfOne, Types DEF ClaudeBlockStops
      <3> QED
        BY <1>1, <3>1
    <2>2. TypeOK'
      BY <1>1, <2>1 DEF TypeOK
    <2>3. SentinelsAreFaithful'
      BY <1>1, <2>1, Types, ShowsNothing
    <2>4. ShownAtEnd'
      <3>1. adapter = "langchain" => Len(emitted') = 0
        BY <1>1, <2>1 DEF ShownSoFar
      <3> QED
        BY <1>1, <2>1, <3>1 DEF ShownAtEnd
    <2> QED
      BY <1>1, <2>1, <2>2, <2>3, <2>4 DEF OneIsOpen, BufferHolds, ShownSoFar
  <1> QED
    BY <1>2, <1>3

LEMMA UnexplainedStep ==
    ASSUME IInv, EndUnexplained
    PROVE  IInv'
  <1> USE DEF IInv
  <1>1. /\ phase = "streaming" /\ phase' = "ended" /\ reason = "none"
        /\ UNCHANGED <<adapter, reason, asked, texts, buffer, emitted>>
    BY DEF EndUnexplained, ShownSoFar
  <1>2. ShownAtEnd'
    <2>1. CallOpen' = CallOpen
      BY <1>1 DEF CallOpen
    <2>2. adapter = "langchain" => Len(emitted) = 0
      BY <1>1 DEF ShownSoFar
    <2>3. asked = << >> => Len(asked) = 0
      OBVIOUS
    <2> QED
      BY <1>1, <2>1, <2>2, <2>3 DEF ShownSoFar, ShownAtEnd
  <1> QED
    BY <1>1, <1>2 DEF TypeOK, OneIsOpen, BufferHolds, ShownSoFar,
       SentinelsAreFaithful, Arguments

LEMMA RestStep ==
    ASSUME IInv, Break \/ Over \/ UNCHANGED vars
    PROVE  IInv'
  <1> USE DEF IInv
  <1>1. CASE Over \/ UNCHANGED vars
    <2>1. UNCHANGED vars
      BY <1>1 DEF Over
    <2> QED
      BY <2>1 DEF vars, TypeOK, OneIsOpen, BufferHolds, CallOpen, ShownSoFar,
         SentinelsAreFaithful, Arguments, ShownAtEnd
  <1>2. CASE Break
    <2>1. phase' = "raised" /\ UNCHANGED <<adapter, reason, asked, texts, buffer, emitted>>
      BY <1>2 DEF Break
    <2> QED
      BY <2>1 DEF TypeOK, OneIsOpen, BufferHolds, ShownSoFar,
         SentinelsAreFaithful, Arguments, ShownAtEnd
  <1> QED
    BY <1>1, <1>2

-----------------------------------------------------------------------------

\* The invariant is inductive, whatever the provider sends.
THEOREM StreamInvariance == Spec => []IInv
  <1>1. Init => IInv
    BY InitInv
  <1>2. IInv /\ [Next]_vars => IInv'
    BY TextStep, OpenStep, FragmentStep, CloseEmptyStep, FinishStep, CutOffStep,
       UnexplainedStep, RestStep DEF Next
  <1> QED
    BY <1>1, <1>2, PTL DEF Spec

\* What is gathered, asked and shown keeps its type: Claude's buffer holds one
\* call at most.
THEOREM StreamTypes == Spec => []TypeOK
  <1>1. IInv => TypeOK
    BY DEF IInv
  <1> QED
    BY <1>1, StreamInvariance, PTL

\* The calls the loop is shown are those of the model, each once and in order,
\* with their own arguments, or with none if Claude's response was cut
\* (openai_adapter.py:94-114, claude_adapter.py:104-136,
\* langchain_adapter.py:156-196).
THEOREM SentinelsFaithful == Spec => []SentinelsAreFaithful
  <1>1. IInv => SentinelsAreFaithful
    BY DEF IInv
  <1> QED
    BY <1>1, StreamInvariance, PTL

\* The loop takes a response with calls for an answer exactly when they are all
\* lost and a text is not: through LangChain for any reason that flushes
\* nothing, through the others a single call that no reason followed.
TakenDespiteCalls ==
    phase = "ended" =>
      (TakenForAnswer /\ asked # << >> <=>
         /\ asked # << >> /\ texts > 0
         /\ \/ adapter = "langchain" /\ reason \notin {"stop", "tool_calls"}
            \/ adapter = "openai" /\ reason = "none" /\ Len(asked) = 1
            \/ adapter = "claude" /\ reason = "none" /\ Len(asked) = 1 /\ CallOpen)

LEMMA CountsTell ==
    ASSUME IInv
    PROVE  LostCallsNeedCut /\ TakenDespiteCalls
  <1> USE DEF IInv
  <1>1. /\ Len(asked) \in Nat /\ Len(emitted) \in Nat
        /\ Len(asked) = 0 <=> asked = << >>
        /\ Len(emitted) = 0 <=> emitted = << >>
        /\ adapter \in {"openai", "claude", "langchain"}
    BY Types DEF TypeOK, Adapters
  <1>2. MayLose = IF adapter = "langchain" /\ reason \notin {"stop", "tool_calls"} THEN Len(asked)
                  ELSE IF adapter # "langchain" /\ reason = "none" THEN 1 ELSE 0
    BY DEF MayLose
  <1>3. LostCallsNeedCut
    <2>1. ASSUME phase = "ended"
          PROVE  Len(emitted) + MayLose >= Len(asked) /\ (MayLose = 0 => Len(emitted) = Len(asked))
      BY <1>1, <1>2, <2>1 DEF ShownAtEnd
    <2> QED
      BY <1>1, <2>1 DEF LostCallsNeedCut, TakenForAnswer
  <1>4. TakenDespiteCalls
    <2>1. ASSUME phase = "ended", asked # << >>
          PROVE  emitted = << >> <=>
                   \/ adapter = "langchain" /\ reason \notin {"stop", "tool_calls"}
                   \/ adapter = "openai" /\ reason = "none" /\ Len(asked) = 1
                   \/ adapter = "claude" /\ reason = "none" /\ Len(asked) = 1 /\ CallOpen
      <3> HIDE DEF IInv
      <3>1. ShownAtEnd /\ Len(asked) # 0
        BY <1>1, <2>1 DEF IInv
      <3>2. CASE adapter = "langchain"
        BY <1>1, <2>1, <3>1, <3>2 DEF ShownAtEnd
      <3>3. CASE adapter = "openai"
        <4>1. Len(emitted) = IF reason = "none" THEN Len(asked) - 1 ELSE Len(asked)
          BY <2>1, <3>1, <3>3 DEF ShownAtEnd
        <4>2. Len(emitted) = 0 <=> reason = "none" /\ Len(asked) = 1
          BY <1>1, <3>1, <4>1
        <4> QED
          BY <1>1, <3>3, <4>2
      <3>4. CASE adapter = "claude"
        <4>1. Len(emitted) = IF reason = "none" /\ CallOpen THEN Len(asked) - 1 ELSE Len(asked)
          BY <2>1, <3>1, <3>4 DEF ShownAtEnd
        <4>2. Len(emitted) = 0 <=> reason = "none" /\ CallOpen /\ Len(asked) = 1
          BY <1>1, <3>1, <4>1
        <4> QED
          BY <1>1, <3>4, <4>2
      <3> QED
        BY <1>1, <3>2, <3>3, <3>4
    <2> QED
      BY <2>1 DEF TakenForAnswer, TakenDespiteCalls
  <1> QED
    BY <1>3, <1>4

\* A response that ends without raising has shown every call, and is taken for
\* an answer only if there was none, but for those MayLose counts
\* (openai_adapter.py:94-114, langchain_adapter.py:180-196,
\* react_orchestrator.py:112-120).
THEOREM CallsAreLostByCutsOnly == Spec => []LostCallsNeedCut
  <1>1. IInv => LostCallsNeedCut
    BY CountsTell
  <1> QED
    BY <1>1, StreamInvariance, PTL

\* Exactly how many of the model's calls each adapter has shown when a response
\* ends, for each reason and for none, and exactly which responses with calls
\* the loop takes for an answer (openai_adapter.py:94-114,
\* claude_adapter.py:104-136, langchain_adapter.py:156-196,
\* react_orchestrator.py:112-120).
THEOREM LostCallsAreCounted == Spec => [](ShownAtEnd /\ TakenDespiteCalls)
  <1>1. IInv => ShownAtEnd /\ TakenDespiteCalls
    BY CountsTell DEF IInv
  <1> QED
    BY <1>1, StreamInvariance, PTL
=============================================================================
