-------------------------------- MODULE MCGateway --------------------------------
(* Two admissions a window of two seconds, and two ticks a second, so that       *)
(* admissions fall on, inside and between whole seconds.  There is a body for    *)
(* each way through the checks, one at the limit of the length and one beyond    *)
(* it, and of those that matter one behind a byte order mark.                    *)
EXTENDS Gateway, TLC

\* What an hr user may ask, as long as may be.
Chat == [form |-> "object", readable |-> {"text", "bytes"}, query |-> "text",
         length |-> 4096, matches |-> {"role", "profile"}, role |-> "hr", fields |-> TRUE]

Long == [Chat EXCEPT !.length = 4097]
Injected == [Chat EXCEPT !.matches = {"injection"}]

\* The same JSON behind a byte order mark.
Marked(b) == [b EXCEPT !.readable = {"bytes"}]

MCBodies == {
    Chat, [Chat EXCEPT !.fields = FALSE],
    [Chat EXCEPT !.readable = {}], [Chat EXCEPT !.readable = {"text"}],
    [Chat EXCEPT !.form = "empty"], [Chat EXCEPT !.form = "other"],
    [Chat EXCEPT !.query = "other"],
    Long, Injected, [Chat EXCEPT !.matches = {"sensitive"}],
    [Chat EXCEPT !.role = "viewer"], [Chat EXCEPT !.role = "driver"],
    Marked(Long), Marked(Injected)}

Symmetry == Permutations(Requests)
=============================================================================
