--------------------------------- MODULE Gateway ---------------------------------
(***************************************************************************)
(* What a request passes before its handler runs: the rate limiter (module *)
(* RateLimiter), SecurityMiddleware, CORS, and FastAPI's routing, which    *)
(* resolves the dependencies (module Wiring) and validates the body.       *)
(* The limiter counts every request that is not for an exempt path, and    *)
(* measures its deque again when the response starts, which for a chat is  *)
(* when its stream does.                                                   *)
(*                                                                         *)
(* A body is parsed twice: security parses the text it decodes from the    *)
(* bytes, the router the bytes, and neither reads all that the other does. *)
(* The text of a query is told apart by the pattern lists that match it    *)
(* and by its length.  What POST routes other than /chat there may be, and *)
(* paths that no route has, are answered by 404 after the same checks.     *)
(***************************************************************************)
EXTENDS RateLimiter

CONSTANTS
    ValidKeys,      \* the client keys "apikey:..." of VALID_API_KEYS
    Bodies          \* the bodies that POST requests bring

Roles == {"operator", "viewer", "auditor", "admin", "logistics_manager", "hr", "driver"}

\* The limit of the schema, in characters.
MaxQueryLength == 4096

\* Slip: the limit of security is raised, that of the schema forgotten.
MaxPromptLengthRaised == 8192

\* The limit of security.
MaxPromptLength == 4096

\* form: what the JSON is, for whoever can read it; readable: who can -- "text",
\* json.loads of the decoded string, and "bytes", json.loads of what was sent.
\* Both read plain UTF-8 and find the same; the bytes alone are read behind a byte
\* order mark or in UTF-16, the text alone if decoding replaced bytes that are no
\* UTF-8; neither if it is no JSON or never came whole.  query: "missing"
\* stands for any falsy one, "other" for one that is no string; role: "missing"
\* stands for the empty one, "other" for null and what is no string, or for a
\* user_context that is no object; fields: the rest is as ChatRequest requires.
AllBodies == [
    form : {"object", "other", "empty"},
    readable : SUBSET {"text", "bytes"},
    query : {"text", "missing", "other"},
    length : Nat,
    matches : SUBSET {"injection", "sensitive", "role", "profile"},
    role : Roles \union {"missing", "other"},
    fields : BOOLEAN]

ASSUME GatewayAssumption == ValidKeys \subseteq Keys /\ Bodies \subseteq AllBodies
ASSUME RequestsAssumption == IsFiniteSet(Requests)

VARIABLES
    place,          \* place[r]: the layer that has the request
    body            \* body[r]: the body of a chat request at work

gatewayVars == <<vars, place, body>>

NoBody == [form |-> "none"]

-----------------------------------------------------------------------------

GatewayInit ==
    /\ Init
    /\ place = [r \in Requests |-> "client"]
    /\ body = [r \in Requests |-> NoBody]

TooLong(b) == b.length > MaxPromptLength

\* The checks of SecurityMiddleware, in order, and how each ends the request.
Checks(b) == <<
    [finds |-> b.form = "other" \/ b.role = "other",     outcome |-> "raised"],
    [finds |-> TooLong(b),                               outcome |-> "refused"],
    [finds |-> b.query = "other",                        outcome |-> "raised"],
    [finds |-> "injection" \in b.matches,                outcome |-> "refused"],
    [finds |-> "sensitive" \in b.matches,                outcome |-> "refused"],
    [finds |-> b.role \in {"operator", "viewer", "auditor"} /\ "role" \in b.matches,
                                                         outcome |-> "refused"],
    [finds |-> b.role \notin {"missing", "admin", "logistics_manager", "hr"}
               /\ "profile" \in b.matches,               outcome |-> "refused"]>>

Finding(b) == {i \in DOMAIN Checks(b) : Checks(b)[i].finds}

\* A body that security could not read, or is empty, is screened as an empty object.
Unread(b) == b.form = "empty" \/ "text" \notin b.readable

\* The router finds no body, or parses it.
Parses(b) == b.form = "empty" \/ "bytes" \in b.readable

Screen(b) ==
    IF Unread(b) \/ Finding(b) = {} THEN "passed"
    ELSE Checks(b)[CHOOSE i \in Finding(b) : \A j \in Finding(b) : i <= j].outcome

\* Slip: every field of the schema has a default.
ValidatesOptional(b) == b.form = "empty" \/ (b.length <= MaxQueryLength /\ b.fields)

\* The body is a ChatRequest.
Validates(b) ==
    b.form = "object" /\ b.query = "text" /\ b.length <= MaxQueryLength /\ b.fields

MoveTo(r, layer) == place' = [place EXCEPT ![r] = layer]

SetBody(r, b) == body' = [body EXCEPT ![r] = b]

\* A request for an exempt path touches neither middleware's state.
PassExempt(r) ==
    /\ place[r] = "client"
    /\ MoveTo(r, "ended")
    /\ UNCHANGED <<vars, body>>

\* Slip: security comes first, and what it refuses is not counted.
EnterKnown(r, k) ==
    /\ place[r] = "client"
    /\ \/ k \in ValidKeys /\ Admit(r, k) /\ MoveTo(r, "security")
       \/ /\ k \notin ValidKeys /\ Dispatch(r, k) /\ MoveTo(r, "ended")
          /\ pc' = [pc EXCEPT ![r] = "answered"]
          /\ UNCHANGED <<windows, header, admitted>>
    /\ UNCHANGED body

Enter(r, k) ==
    /\ place[r] = "client"
    /\ Admit(r, k)
    /\ MoveTo(r, "security")
    /\ UNCHANGED body

TurnAway(r, k) ==
    /\ place[r] = "client"
    /\ Limit(r, k)
    /\ MoveTo(r, "ended")
    /\ UNCHANGED body

\* A response that is whole passes the limiter.
Answer(r) ==
    /\ Respond(r)
    /\ MoveTo(r, "ended")
    /\ SetBody(r, NoBody)

\* An exception passes it on its way to the server, which answers 500; or the
\* client leaves.
Drop(r) ==
    /\ Fail(r)
    /\ MoveTo(r, "ended")
    /\ SetBody(r, NoBody)

\* The header names a key of VALID_API_KEYS.
Authorised(r) == key[r] \in ValidKeys

\* 401, for any path and method.
RejectKey(r) ==
    /\ place[r] = "security"
    /\ ~Authorised(r)
    /\ Answer(r)

\* The body of a POST is awaited and screened.  A path without a route is answered
\* by 404; for chat the bytes are parsed, and what does not parse is answered by
\* 400 or 422.
ReceiveBody(r) ==
    /\ place[r] = "security"
    /\ Authorised(r)
    /\ \E b \in Bodies :
         \/ Screen(b) = "raised" /\ Drop(r)
         \/ Screen(b) = "refused" /\ Answer(r)
         \/ Screen(b) = "passed" /\ Answer(r)
         \/ /\ Screen(b) = "passed" /\ Parses(b)
            /\ MoveTo(r, "chat")
            /\ SetBody(r, b)
            /\ UNCHANGED vars

\* Other methods are not screened; CORS answers the preflight of a browser.
PassBodiless(r) ==
    /\ place[r] = "security"
    /\ Authorised(r)
    /\ \/ Answer(r)
       \/ MoveTo(r, "history") /\ UNCHANGED <<vars, body>>

\* The dependencies of a chat are resolved, in threads of the pool, before its
\* body is validated; the response starts with the stream.
StartChat(r) ==
    /\ place[r] = "chat"
    /\ \/ Validates(body[r]) /\ Respond(r) /\ MoveTo(r, "streaming") /\ UNCHANGED body
       \/ ~Validates(body[r]) /\ Answer(r)

\* The conversations, 404 if there is none, 503 if the repository raises, or
\* 422 if the parameters are malformed.
AnswerHistory(r) ==
    /\ place[r] = "history"
    /\ Answer(r)

\* A dependency raises, or the client leaves before the response starts.
Lose(r) ==
    /\ place[r] \in {"security", "chat", "history"}
    /\ Drop(r)

\* The stream ends, or its client leaves (module RunAgent).
EndStream(r) ==
    /\ place[r] = "streaming"
    /\ MoveTo(r, "ended")
    /\ SetBody(r, NoBody)
    /\ UNCHANGED vars

GatewayNext ==
    \/ \E r \in Requests :
          \/ PassExempt(r)
          \/ \E k \in Keys : Enter(r, k) \/ TurnAway(r, k)
          \/ RejectKey(r) \/ ReceiveBody(r) \/ PassBodiless(r)
          \/ StartChat(r) \/ AnswerHistory(r)
          \/ Lose(r) \/ EndStream(r)
    \/ Tick /\ UNCHANGED <<place, body>>

GatewaySpec == GatewayInit /\ [][GatewayNext]_gatewayVars

-----------------------------------------------------------------------------

\* The agent is run for requests of a valid key whose body the router has read and
\* validated, and that security found clean if it could read it.  A body that only
\* the router can read is not screened, whatever its query: security takes it for an
\* empty object, and the validation of the schema asks for less
\* (security_middleware.py:109-114, chat_request.py:13-17).
StreamsWereScreened ==
    \A r \in Requests : place[r] = "streaming" =>
      /\ key[r] \in ValidKeys
      /\ body[r].form = "object" /\ "bytes" \in body[r].readable
      /\ "text" \in body[r].readable => Finding(body[r]) = {}

\* The two limits agree at the boundary, so that the length of a query is answered
\* for in one way: what security measured the schema never refuses for its length,
\* and what security could not measure is run by the agent only within the limit of
\* security (security_middleware.py:122, chat_request.py:14).
LengthLimitsAgree ==
    \A r \in Requests :
      /\ place[r] = "chat" /\ ~Unread(body[r]) => body[r].length <= MaxQueryLength
      /\ place[r] = "streaming" => body[r].length <= MaxPromptLength

\* Each request for other than an exempt path is counted once against its key,
\* whatever becomes of it: refused for its key or its body, failed, left or
\* streamed (main.py:71-94, rate_limit_middleware.py:40-65).
EveryRequestCounts ==
    \A k \in Keys :
      Len(admitted[k]) = Cardinality({r \in Requests : key[r] = k /\ pc[r] # "limited"})
=============================================================================
