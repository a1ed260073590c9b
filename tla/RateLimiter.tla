------------------------------- MODULE RateLimiter -------------------------------
(***************************************************************************)
(* RateLimitMiddleware: a sliding window of admission times for each       *)
(* client key.  dispatch runs without a pause up to call_next, and again   *)
(* from there to the response; other requests of the key come in between.  *)
(* The clock of the process (time.monotonic) is counted in ticks, several  *)
(* to a second, because Retry-After is cut to whole seconds.               *)
(* Requests for the paths that are exempt do not touch the limiter.        *)
(***************************************************************************)
EXTENDS Integers, Sequences, FiniteSets, SequencesExt

CONSTANTS
    Keys,           \* "apikey:..." and "ip:..." of _get_client_key
    Requests,
    None,           \* no key yet
    MaxRequests,    \* settings.RATE_LIMIT_REQUESTS
    WindowSeconds,  \* settings.RATE_LIMIT_WINDOW_SECONDS
    Second,         \* ticks in a second
    MaxTime         \* bound: ticks the clock runs for

ASSUME LimitAssumption == MaxRequests \in Nat \ {0}
ASSUME TimeAssumption ==
    WindowSeconds \in Nat /\ Second \in Nat \ {0} /\ MaxTime \in Nat
ASSUME KeysAssumption == None \notin Keys

Window == WindowSeconds * Second

VARIABLES
    now,            \* time.monotonic()
    windows,        \* _windows: windows[k] is the deque of key k
    pc,             \* pc[r]: "idle", "calling", "answered", "limited" or "failed"
    key,            \* key[r]: client_key
    arrived,        \* arrived[r]: now of its dispatch
    header,         \* header[r]: X-RateLimit-Remaining or Retry-After it was sent
    admitted        \* ghost: admitted[k]: all admission times of k

vars == <<now, windows, pc, key, arrived, header, admitted>>

-----------------------------------------------------------------------------

Init ==
    /\ now = 0
    /\ windows = [k \in Keys |-> << >>]
    /\ pc = [r \in Requests |-> "idle"]
    /\ key = [r \in Requests |-> None]
    /\ arrived = [r \in Requests |-> 0]
    /\ header = [r \in Requests |-> 0]
    /\ admitted = [k \in Keys |-> << >>]

\* Slip: a time at the very start of the window is evicted too.
EvictInclusive(q, start) == SelectSeq(q, LAMBDA t : t > start)

\* q without the longest prefix of times before start.
Evict(q, start) ==
    LET old == CHOOSE n \in 0..Len(q) :
                 /\ \A i \in 1..n : q[i] < start
                 /\ n < Len(q) => q[n + 1] >= start
    IN  SubSeq(q, old + 1, Len(q))

Current(k) == Evict(windows[k], now - Window)

Dispatch(r, k) ==
    /\ pc[r] = "idle"
    /\ key' = [key EXCEPT ![r] = k]
    /\ arrived' = [arrived EXCEPT ![r] = now]
    /\ UNCHANGED now

Admit(r, k) ==
    /\ Len(Current(k)) < MaxRequests
    /\ Dispatch(r, k)
    /\ windows' = [windows EXCEPT ![k] = Append(Current(k), now)]
    /\ admitted' = [admitted EXCEPT ![k] = Append(@, now)]
    /\ pc' = [pc EXCEPT ![r] = "calling"]
    /\ UNCHANGED header

\* Slip: the time left is cut, not rounded up.
RetryAfterCut(k) == (Window - (now - Head(Current(k)))) \div Second

\* Slip: the whole window, whatever part of it has passed.
RetryAfterWindow(k) == WindowSeconds + 1

\* int() cuts the time left to whole seconds, which are rounded up by one.
RetryAfter(k) == (Window - (now - Head(Current(k)))) \div Second + 1

Limit(r, k) ==
    /\ Len(Current(k)) >= MaxRequests
    /\ Dispatch(r, k)
    /\ windows' = [windows EXCEPT ![k] = Current(k)]
    /\ header' = [header EXCEPT ![r] = RetryAfter(k)]
    /\ pc' = [pc EXCEPT ![r] = "limited"]
    /\ UNCHANGED admitted

\* Slip: the deque is measured before call_next.
RespondAsArrived(r) ==
    /\ pc[r] = "calling"
    /\ header' = [header EXCEPT ![r] = MaxRequests
         - Cardinality({i \in DOMAIN windows[key[r]] : windows[key[r]][i] <= arrived[r]})]
    /\ pc' = [pc EXCEPT ![r] = "answered"]
    /\ UNCHANGED <<now, windows, key, arrived, admitted>>

\* call_next returned: the deque is measured as it is by now.
Respond(r) ==
    /\ pc[r] = "calling"
    /\ header' = [header EXCEPT ![r] = MaxRequests - Len(windows[key[r]])]
    /\ pc' = [pc EXCEPT ![r] = "answered"]
    /\ UNCHANGED <<now, windows, key, arrived, admitted>>

\* call_next raised, or the client left: the admission is not taken back.
Fail(r) ==
    /\ pc[r] = "calling"
    /\ pc' = [pc EXCEPT ![r] = "failed"]
    /\ UNCHANGED <<now, windows, key, arrived, header, admitted>>

Tick ==
    /\ now < MaxTime
    /\ now' = now + 1
    /\ UNCHANGED <<windows, pc, key, arrived, header, admitted>>

Next ==
    \/ \E r \in Requests : (\E k \in Keys : Admit(r, k) \/ Limit(r, k)) \/ Respond(r) \/ Fail(r)
    \/ Tick

Spec == Init /\ [][Next]_vars

-----------------------------------------------------------------------------

TypeOK ==
    /\ now \in Nat
    /\ windows \in [Keys -> Seq(Nat)]
    /\ pc \in [Requests -> {"idle", "calling", "answered", "limited", "failed"}]
    /\ key \in [Requests -> Keys \union {None}]
    /\ arrived \in [Requests -> Nat]
    /\ header \in [Requests -> Int]
    /\ admitted \in [Keys -> Seq(Nat)]

\* No stretch of time as long as the window, ends included, holds more than
\* MaxRequests admissions of a key, wherever it starts
\* (rate_limit_middleware.py:46-65, README.md:20, 339).
WindowBound ==
    \A k \in Keys : \A i \in 1..(Len(admitted[k]) - MaxRequests) :
       admitted[k][i + MaxRequests] - admitted[k][i] > Window

\* A client that waits for the seconds it was told is admitted, unless others
\* of its key were admitted meanwhile (rate_limit_middleware.py:54-63).
RetryAfterSuffices ==
    \A r \in Requests :
      /\ pc[r] = "limited"
      /\ now >= arrived[r] + header[r] * Second
      /\ \A i \in DOMAIN admitted[key[r]] : admitted[key[r]][i] <= arrived[r]
      => Len(Current(key[r])) < MaxRequests

\* A client is turned away only when MaxRequests admissions are in its window,
\* and the wait it is told is at least a second and less than a second longer
\* than the oldest of them stays there (rate_limit_middleware.py:51-55).
RetryAfterIsTight ==
    \A r \in Requests : pc[r] = "limited" =>
      LET k == key[r]
          blocking == {i \in DOMAIN admitted[k] :
                         admitted[k][i] \in (arrived[r] - Window)..arrived[r]}
      IN  /\ header[r] >= 1
          /\ Cardinality(blocking) = MaxRequests
          /\ \A i \in blocking :
               (header[r] - 1) * Second <= admitted[k][i] + Window - arrived[r]

\* Admissions of the key of r in the window that ends now.
Recent(r) ==
    {i \in DOMAIN admitted[key[r]] : admitted[key[r]][i] >= now - Window}

\* The allowance a response announces is never negative and never more than is
\* left, although requests of the key came and went since its own admission
\* (rate_limit_middleware.py:65-69).
RemainingIsSafe ==
    [][\A r \in Requests : pc[r] = "calling" /\ pc'[r] = "answered" =>
         0 <= header'[r] /\ header'[r] <= MaxRequests - Cardinality(Recent(r))]_vars
=============================================================================
