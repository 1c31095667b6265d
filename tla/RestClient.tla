------------------------------ MODULE RestClient -------------------------------
(***************************************************************************)
(* restful.py: a program makes calls of the client's methods, one after    *)
(* the other, and the deck answers them.  The connection may break before  *)
(* the deck has the request, or after it has carried it out; the deck may  *)
(* answer something that is not JSON, and it may forget the tokens it has  *)
(* given.  There is neither a retry nor a timeout.                         *)
(*                                                                         *)
(* A body is the set of its fields.  The caller passes, besides the        *)
(* identifiers in the path: some of the keyword arguments with a true      *)
(* value, and its dictionary as raw_data or not; the dictionary is the     *)
(* same object in all the calls.  A required argument may be empty, and so *)
(* may one with a default.                                                 *)
(***************************************************************************)
EXTENDS RestApi, Naturals, FiniteSets

CONSTANTS
    MaxCalls,  \* bound on the number of calls
    MaxGiven,  \* bound on the keyword arguments given in a call
    Dicts,     \* what the caller's dictionary may hold
    Topics     \* bound on what is called after what: sets of methods

Fields == UNION {Api[m].must \union Api[m].may : m \in Methods}

ASSUME ClientAssumption ==
    /\ MaxCalls \in Nat /\ MaxGiven \in Nat
    /\ Dicts \subseteq SUBSET Fields
    /\ \A t \in Topics : t \subseteq Methods

VARIABLES
    pc,       \* "ready", or "sent" while a call is being made
    calls,    \* calls so far
    call,     \* the last call: its method and its arguments
    request,  \* the request made for it
    effects,  \* how often the deck carried the request out
    answer,   \* what the deck answered, if it did
    result,   \* what the last call returned
    own,      \* the fields the caller has put into its dictionary
    dict,     \* the fields of that dictionary
    token,    \* the token in the session's headers, 0 for none
    granted,  \* the number of tokens the deck has given
    expired,  \* how many of them it has forgotten
    stored    \* the values: the path and field each is at, and the call it is from

callVars == <<calls, call, request, own, dict>>
deckVars == <<granted, expired, stored>>
vars == <<pc, callVars, effects, answer, result, token, deckVars>>

Results == {"none", "success", "refusal", "failure", "exception"}
Answers == {"none", "ok", "garbled", "unauthorized", "refused", "failed"}

NoCall == [method |-> "none", given |-> {}, raw |-> {}, empty |-> FALSE]
NoRequest == [verb |-> "none", path |-> "none", body |-> {}, nulls |-> {}, token |-> 0]

\* The session is new, or has its token.
Init ==
    /\ pc = "ready" /\ calls = 0
    /\ effects = 0 /\ result = "none"
    /\ call = NoCall /\ request = NoRequest /\ answer = "none"
    /\ own \in Dicts /\ dict = own
    /\ token \in {0, 1} /\ granted = token /\ expired = 0
    /\ stored = {}

-----------------------------------------------------------------------------
(* The client. *)

\* The fields of a request's body.
FieldsOf(m, given, raw, empty) ==
    CASE raw = {} -> Api[m].must \union given \union (IF empty THEN {} ELSE Api[m].default)
      [] Api[m].raw = "into" -> Api[m].must \union raw
      [] Api[m].raw = "aliased" -> raw \union given
      [] OTHER -> raw

\* Defect: a keyword argument that is not given is sent as None.
NullsAlsoNotGiven(m, given, raw, empty) == Api[m].may \ (given \union raw)

\* Those without a value: only required arguments are sent when they are empty.
Nulls(m, given, raw, empty) ==
    IF empty THEN (Api[m].must \intersect FieldsOf(m, given, raw, empty)) \ raw ELSE {}

\* What becomes of the dictionary.
DictAfter(m, given, raw) == IF Api[m].raw = "aliased" THEN raw \union given ELSE raw

\* A method prepares its data and sends it: get, post, put, patch or delete with
\* the session's headers.
Call(m, given, pass, empty) ==
    LET raw == IF pass THEN dict ELSE {}
        nulls == Nulls(m, given, raw, empty)
    IN
    /\ Api[m].verb # "none"
    /\ pc' = "sent" /\ calls' = calls + 1
    /\ call' = [method |-> m, given |-> given, raw |-> raw, empty |-> empty]
    /\ dict' = IF pass /\ raw # {} THEN DictAfter(m, given, raw) ELSE dict
    /\ request' = [verb |-> Api[m].verb, path |-> Api[m].path, token |-> token,
                   body |-> FieldsOf(m, given, raw, empty) \ nulls, nulls |-> nulls]
    /\ effects' = 0 /\ answer' = "none" /\ result' = "none"
    /\ UNCHANGED <<own, token, deckVars>>

\* delete_host_network, update_host_state: a TypeError.
CallRaises(m) ==
    /\ Api[m].verb = "none"
    /\ calls' = calls + 1
    /\ call' = [NoCall EXCEPT !.method = m]
    /\ request' = NoRequest
    /\ effects' = 0 /\ answer' = "none" /\ result' = "exception"
    /\ UNCHANGED <<pc, own, dict, token, deckVars>>

\* get_token reads the token of an answer that is a success; there is none in an
\* answer that was not JSON (KeyError).
KeepsToken == call.method = Token /\ answer \in {"ok", "garbled"}

\* _get_response: the status is the answer's, whether or not its body is JSON.
Status == CASE answer \in {"ok", "garbled"} -> "success"
            [] answer \in {"unauthorized", "refused"} -> "refusal"
            [] OTHER -> "failure"

\* Defect: get_token leaves the session's headers alone.
GetResponseNoToken ==
    /\ pc = "sent" /\ answer # "none"
    /\ pc' = "ready"
    /\ result' = Status
    /\ UNCHANGED <<callVars, effects, answer, token, deckVars>>

\* Defect: a failure that left no trace is tried again.
GetResponseOrRetry ==
    /\ pc = "sent" /\ answer # "none"
    /\ IF answer = "failed" /\ effects = 0
       THEN answer' = "none" /\ UNCHANGED <<pc, result>>
       ELSE pc' = "ready" /\ result' = Status /\ UNCHANGED answer
    /\ UNCHANGED <<callVars, effects, token, deckVars>>

GetResponse ==
    /\ pc = "sent" /\ answer # "none"
    /\ pc' = "ready"
    /\ result' = IF KeepsToken /\ answer = "garbled" THEN "exception" ELSE Status
    /\ token' = IF KeepsToken /\ answer = "ok" THEN granted ELSE token
    /\ UNCHANGED <<callVars, effects, answer, deckVars>>

\* Defect: the request is sent again.
SendAgain ==
    /\ pc = "sent"
    /\ answer' = "none"
    /\ UNCHANGED <<pc, callVars, effects, result, token, deckVars>>

\* The session raises; nothing here catches it.
ConnectionBreaks ==
    /\ pc = "sent"
    /\ pc' = "ready" /\ result' = "exception"
    /\ UNCHANGED <<callVars, effects, answer, token, deckVars>>

-----------------------------------------------------------------------------
(* The deck. *)

Public == {"/users/login", "/users/token"}
Authorized == request.path \in Public \/ request.token > expired

\* Without its leading slash a path runs into the address ('.../apimachines/1').
Routed == request.path # "machines/%s"

At(fields) == {e \in stored : e[1] = request.path /\ e[2] \in fields}

StoredAfter ==
    CASE request.verb = "DELETE" -> {e \in stored : e[1] # request.path}
      [] request.verb \in {"PUT", "PATCH"} ->
             (stored \ At(request.nulls \union request.body))
                 \union {<<request.path, f, calls>> : f \in request.body}
      [] OTHER -> stored

CarryOut ==
    /\ pc = "sent" /\ answer = "none"
    /\ Authorized /\ Routed
    /\ effects' = effects + 1
    /\ stored' = StoredAfter
    /\ granted' = granted + IF call.method = Token THEN 1 ELSE 0
    /\ answer' \in {"ok", "garbled", "failed"}
    /\ UNCHANGED <<pc, callVars, result, token, expired>>

Refuse ==
    /\ pc = "sent" /\ answer = "none"
    /\ answer' \in {"refused", "failed"} \union (IF Authorized THEN {} ELSE {"unauthorized"})
    /\ UNCHANGED <<pc, callVars, effects, result, token, deckVars>>

ForgetTokens ==
    /\ expired < granted
    /\ expired' = granted
    /\ UNCHANGED <<pc, callVars, effects, result, answer, token, granted, stored>>

-----------------------------------------------------------------------------

Idle == pc = "ready" /\ calls = MaxCalls /\ UNCHANGED vars

Reply == CarryOut \/ Refuse \/ GetResponse \/ ConnectionBreaks

GivenTo(m) == {g \in SUBSET Api[m].may : Cardinality(g) <= MaxGiven}

Choice(p) == IF p THEN BOOLEAN ELSE {FALSE}

\* The ways to call a method: <<arguments given, dictionary passed, empty ones>>.
\* Of the arguments with a default all are left out but those given, or all are empty.
Arguments ==
    [m \in Methods |->
        {a \in GivenTo(m) \X Choice(Api[m].raw # "never") \X Choice(Api[m].must # {}) :
            a[3] /\ Api[m].default # {} => a[1] = {}}]

Callable ==
    IF pc # "ready" \/ calls = MaxCalls THEN {}
    ELSE IF call = NoCall THEN Methods
    ELSE UNION {t \in Topics : call.method \in t}

Next ==
    \/ \E m \in Callable : \E a \in Arguments[m] : Call(m, a[1], a[2], a[3])
    \/ \E m \in Callable : CallRaises(m)
    \/ Reply
    \/ ForgetTokens
    \/ Idle

Spec == Init /\ [][Next]_vars

\* The deck answers, or the connection breaks.
FairSpec == Spec /\ WF_vars(Reply)

-----------------------------------------------------------------------------

TypeOK ==
    /\ pc \in {"ready", "sent"} /\ effects \in {0, 1} /\ result \in Results
    /\ calls \in 0..MaxCalls
    /\ call.method \in Methods \union {"none"}
    /\ request.body \subseteq Fields /\ request.nulls \subseteq Fields
    /\ answer \in Answers
    /\ own \subseteq Fields /\ dict \subseteq Fields
    /\ token \in 0..granted /\ granted \in Nat /\ expired \in 0..granted
    /\ \A e \in stored : e[2] \in Fields

\* Each call is at most once what it asks of the deck, also when an answer is
\* lost or is not JSON; a success means it was done, a refusal that it was not
\* (restful.py sends nothing twice and keeps the status of every answer).
DeckContract == INSTANCE DeckCall WITH open <- (pc = "sent")

OnceAtMost == DeckContract!CallSpec

\* What the caller of the last call named: the required arguments, those he gave,
\* and what he put himself into the dictionary he passed.
Named ==
    Api[call.method].must \union call.given \union (IF call.raw # {} THEN own ELSE {})

\* What a call may touch without being told: update_switch sends its defaults, and
\* a dictionary that went through the two methods for the cluster's config brings
\* what they wrote into it to whatever it is passed to afterwards.
Unasked ==
    (IF call.method = "update_switch" THEN SwitchDefaults ELSE {})
        \union (IF call.raw # {} THEN Config ELSE {})

\* Whatever was called before, with whatever dictionary, an update neither takes
\* away nor replaces a value that its caller did not name: nothing else is in its
\* request, no argument left out is sent as None, and of what earlier calls did to
\* the dictionary only the cluster's config is left.
OthersSurvive ==
    [][ \A e \in stored \ stored' :
            request.verb = "DELETE" \/ e[2] \in Named \union Unasked ]_vars

\* Once get_token has succeeded the program is refused for want of a token only
\* when the deck has forgotten it: the session carries the last one given.
TokenCarried ==
    /\ result = "success" /\ call.method = Token => token = granted
    /\ answer = "unauthorized" => token <= expired

\* A call ends, if the deck answers or the connection breaks.
CallEnds == pc = "sent" ~> pc = "ready"
=============================================================================
