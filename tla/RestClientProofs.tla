--------------------------- MODULE RestClientProofs ----------------------------
(***************************************************************************)
(* The REST client, for every number of calls and every dictionary a       *)
(* caller may pass.  Only KeepsOthers depends on the rows of RestApi: on   *)
(* which methods write into a dictionary, and which have defaults to send. *)
(***************************************************************************)
EXTENDS RestClient, TLAPS

\* While a call is being made it has no result, and its request carries the token
\* of the session; until there is an answer nothing was done.
Pending ==
    pc = "sent" =>
        /\ result = "none" /\ request.token = token
        /\ answer = "none" => effects = 0

\* What the answer says of the deck.
AnswerIsTrue ==
    /\ answer \in {"ok", "garbled"} => effects = 1
    /\ answer \in {"unauthorized", "refused"} => effects = 0

\* Earlier calls have left nothing but a cluster's config in the dictionary.
DictKept == dict \subseteq own \union Config

\* A request holds nothing its caller did not name, or else what Unasked lists.
RequestAsked == request.body \union request.nulls \subseteq Named \union Unasked

IInv == TypeOK /\ Pending /\ AnswerIsTrue /\ DictKept /\ RequestAsked /\ TokenCarried

-----------------------------------------------------------------------------
(* The rows. *)

ConfigMethods == {"update_cluster_config", "patch_cluster_config"}

\* Only the two methods for the cluster's config write into the dictionary they
\* are given, nothing but their arguments; only update_switch has defaults.
Plain(row) ==
    /\ row.raw = "aliased" => row.may \subseteq Config
    /\ row.default # {} => row.name = "update_switch" /\ row.default \subseteq SwitchDefaults
    /\ row.default \subseteq row.may

LEMMA RowsPlain == \A row \in Rows : Plain(row)
<1>. DEFINE AllPlain(table) == \A row \in table : Plain(row)
<1>. USE DEF Row, Get, List, Delete, Action, Raises, WithDefaults, Plain
<1>1. AllPlain(Users) /\ AllPlain(Machines) /\ AllPlain(Subnets) /\ AllPlain(Adapters)
  BY DEF Users, Machines, Subnets, Adapters
<1>2. AllPlain(Switches)
  BY DEF Switches
<1>3. AllPlain(SwitchMachines)
  BY DEF SwitchMachines
<1>4. AllPlain(Clusters)
  BY DEF Clusters
<1>5. AllPlain(ClusterActions)
  BY DEF ClusterActions
<1>6. AllPlain(ClusterHosts)
  BY DEF ClusterHosts
<1>7. AllPlain(ClusterHostStates)
  BY DEF ClusterHostStates
<1>8. AllPlain(Hosts)
  BY DEF Hosts
<1>9. AllPlain(HostNetworks)
  BY DEF HostNetworks
<1>10. AllPlain(HostActions)
  BY DEF HostActions
<1>. HIDE DEF AllPlain
<1>11. \A table \in Tables : AllPlain(table)
  BY <1>1, <1>2, <1>3, <1>4, <1>5, <1>6, <1>7, <1>8, <1>9, <1>10 DEF Tables
<1>. QED
  BY <1>11 DEF Rows, AllPlain

\* The row of a method is the row of its name.
LEMMA RowOfMethod == \A m \in Methods : Api[m] \in Rows /\ Api[m].name = m
<1>1. \A m \in Methods : \E row \in Rows : row.name = m
  BY DEF Methods
<1>. QED
  BY <1>1 DEF Api

LEMMA MethodPlain ==
    ASSUME NEW m \in Methods
    PROVE  /\ Api[m].raw = "aliased" => Api[m].may \subseteq Config
           /\ Api[m].default # {} =>
                  m = "update_switch" /\ Api[m].default \subseteq SwitchDefaults
           /\ Api[m].default \subseteq Api[m].may
  BY RowsPlain, RowOfMethod DEF Plain

-----------------------------------------------------------------------------
(* The parts of the inductive invariant, one action at a time. *)

\* The fields of a body are fields of the table or of the caller's dictionary.
LEMMA BodyFields ==
    ASSUME NEW m \in Methods, NEW given \in SUBSET Api[m].may, NEW raw \in SUBSET Fields,
           NEW empty \in BOOLEAN
    PROVE  /\ FieldsOf(m, given, raw, empty) \subseteq Fields
           /\ Nulls(m, given, raw, empty) \subseteq Fields
           /\ DictAfter(m, given, raw) \subseteq Fields
<1>1. Api[m].must \subseteq Fields /\ Api[m].may \subseteq Fields
  BY DEF Fields
<1>2. Api[m].default \subseteq Fields
  BY <1>1, MethodPlain
<1>3. FieldsOf(m, given, raw, empty) \subseteq Fields
  BY <1>1, <1>2 DEF FieldsOf
<1>4. DictAfter(m, given, raw) \subseteq Fields
  BY <1>1 DEF DictAfter
<1>. QED
  BY <1>3, <1>4 DEF Nulls

\* What a step may pass to a method.
LEMMA ArgumentsPassed ==
    ASSUME NEW m \in Methods, NEW a \in Arguments[m]
    PROVE  /\ a[1] \in SUBSET Api[m].may /\ a[2] \in BOOLEAN /\ a[3] \in BOOLEAN
<1>1. a \in GivenTo(m) \X Choice(Api[m].raw # "never") \X Choice(Api[m].must # {})
  BY DEF Arguments
<1>2. GivenTo(m) \subseteq SUBSET Api[m].may
  BY DEF GivenTo
<1>3. \A p \in BOOLEAN : Choice(p) \subseteq BOOLEAN
  BY DEF Choice
<1>. QED
  BY <1>1, <1>2, <1>3

\* The fields of a body are named by the caller, or of the kinds Unasked lists.
LEMMA BodyAsked ==
    ASSUME NEW m \in Methods, NEW given \in SUBSET Api[m].may,
           NEW mine, NEW raw \in SUBSET (mine \union Config), NEW empty \in BOOLEAN
    PROVE  FieldsOf(m, given, raw, empty) \union Nulls(m, given, raw, empty)
               \subseteq Api[m].must \union given \union (IF raw # {} THEN mine ELSE {})
                   \union (IF m = "update_switch" THEN SwitchDefaults ELSE {})
                   \union (IF raw # {} THEN Config ELSE {})
<1>1. Api[m].default \subseteq IF m = "update_switch" THEN SwitchDefaults ELSE {}
  BY MethodPlain
<1>2. CASE raw = {}
  BY <1>1, <1>2 DEF FieldsOf, Nulls
<1>3. CASE raw # {}
  <2>1. FieldsOf(m, given, raw, empty) \subseteq Api[m].must \union given \union raw
    BY <1>3 DEF FieldsOf
  <2>2. Nulls(m, given, raw, empty) \subseteq Api[m].must
    BY DEF Nulls
  <2>3. FieldsOf(m, given, raw, empty) \union Nulls(m, given, raw, empty)
            \subseteq Api[m].must \union given \union mine \union Config
    BY <2>1, <2>2
  <2>. QED
    BY <1>3, <2>3
<1>. QED
  BY <1>2, <1>3

\* What a method leaves of the dictionary passed to it.
LEMMA DictAfterKept ==
    ASSUME NEW m \in Methods, NEW given \in SUBSET Api[m].may,
           NEW mine, NEW raw \in SUBSET (mine \union Config)
    PROVE  DictAfter(m, given, raw) \subseteq mine \union Config
  BY MethodPlain DEF DictAfter

LEMMA CallableMethods == \A m \in Callable : m \in Methods /\ pc = "ready" /\ calls # MaxCalls
  BY ClientAssumption DEF Callable

\* A new client, and one with its token, is in order.
LEMMA InitIInv == Init => IInv
<1>. SUFFICES ASSUME Init PROVE IInv
  OBVIOUS
<1>1. own \subseteq Fields /\ dict = own
  BY ClientAssumption DEF Init
<1>2. TypeOK
  BY <1>1, ClientAssumption DEF Init, TypeOK, Results, Answers, NoCall, NoRequest
<1>. QED
  BY <1>1, <1>2
  DEF Init, IInv, Pending, AnswerIsTrue, DictKept, RequestAsked, TokenCarried, NoRequest

\* A method sends a request of its own.
LEMMA CallIInv ==
    ASSUME IInv, NEW m \in Callable, NEW a \in Arguments[m], Call(m, a[1], a[2], a[3])
    PROVE  IInv'
<1>. DEFINE given == a[1]
            raw == IF a[2] THEN dict ELSE {}
            empty == a[3]
<1>1. m \in Methods /\ calls \in 0..MaxCalls /\ calls # MaxCalls
  BY CallableMethods DEF IInv, TypeOK
<1>2. given \in SUBSET Api[m].may /\ raw \in SUBSET Fields /\ empty \in BOOLEAN
  BY <1>1, ArgumentsPassed DEF IInv, TypeOK
<1>3. /\ FieldsOf(m, given, raw, empty) \subseteq Fields
      /\ Nulls(m, given, raw, empty) \subseteq Fields
      /\ DictAfter(m, given, raw) \subseteq Fields
  <2>. HIDE DEF given, raw, empty
  <2>. QED
    BY <1>1, <1>2, BodyFields
<1>4. /\ pc' = "sent" /\ calls' = calls + 1
      /\ call'.method = m /\ call'.given = given /\ call'.raw = raw
      /\ own' = own
      /\ dict' = dict \/ dict' = DictAfter(m, given, raw)
      /\ request'.token = token
      /\ request'.body = FieldsOf(m, given, raw, empty) \ Nulls(m, given, raw, empty)
      /\ request'.nulls = Nulls(m, given, raw, empty)
      /\ effects' = 0 /\ answer' = "none" /\ result' = "none"
      /\ UNCHANGED <<token, granted, expired, stored>>
  BY DEF Call, deckVars
<1>5. raw \in SUBSET (own \union Config)
  BY DEF IInv, DictKept
<1>. HIDE DEF given, raw, empty
<1>6. TypeOK'
  BY <1>1, <1>3, <1>4, ClientAssumption DEF IInv, TypeOK, Results, Answers
<1>7. Pending' /\ AnswerIsTrue' /\ TokenCarried'
  BY <1>4 DEF Pending, AnswerIsTrue, TokenCarried
<1>8. DictKept'
  <2>1. DictAfter(m, given, raw) \subseteq own \union Config
    BY <1>1, <1>2, <1>5, DictAfterKept
  <2>. QED
    BY <1>4, <2>1 DEF IInv, DictKept
<1>9. RequestAsked'
  <2>1. FieldsOf(m, given, raw, empty) \union Nulls(m, given, raw, empty)
            \subseteq Api[m].must \union given \union (IF raw # {} THEN own ELSE {})
                \union (IF m = "update_switch" THEN SwitchDefaults ELSE {})
                \union (IF raw # {} THEN Config ELSE {})
    BY <1>1, <1>2, <1>5, BodyAsked
  <2>2. Named' \union Unasked' =
            Api[m].must \union given \union (IF raw # {} THEN own ELSE {})
                \union (IF m = "update_switch" THEN SwitchDefaults ELSE {})
                \union (IF raw # {} THEN Config ELSE {})
    BY <1>4 DEF Named, Unasked
  <2>3. request'.body \union request'.nulls
            \subseteq FieldsOf(m, given, raw, empty) \union Nulls(m, given, raw, empty)
    BY <1>4
  <2>. QED
    BY <2>1, <2>2, <2>3 DEF RequestAsked
<1>. QED
  BY <1>6, <1>7, <1>8, <1>9 DEF IInv

\* The two methods that send nothing.
LEMMA CallRaisesIInv ==
    ASSUME IInv, NEW m \in Callable, CallRaises(m)
    PROVE  IInv'
<1>1. m \in Methods /\ pc = "ready" /\ calls \in 0..MaxCalls /\ calls # MaxCalls
  BY CallableMethods DEF IInv, TypeOK
<1>2. TypeOK'
  BY <1>1, ClientAssumption
  DEF IInv, TypeOK, CallRaises, NoCall, NoRequest, Results, Answers, deckVars
<1>3. Pending' /\ AnswerIsTrue' /\ DictKept' /\ RequestAsked'
  BY <1>1
  DEF IInv, CallRaises, Pending, AnswerIsTrue, DictKept, RequestAsked, NoRequest, deckVars
<1>4. TokenCarried'
  BY DEF CallRaises, TokenCarried
<1>. QED
  BY <1>2, <1>3, <1>4 DEF IInv

\* The end of a call.
LEMMA ReturnIInv ==
    ASSUME IInv, GetResponse \/ ConnectionBreaks
    PROVE  IInv'
<1>1. CASE GetResponse
  <2>1. result' \in Results
    BY <1>1 DEF GetResponse, Status, Results
  <2>2. TypeOK'
    BY <1>1, <2>1 DEF IInv, TypeOK, GetResponse, callVars, deckVars
  <2>3. Pending' /\ AnswerIsTrue' /\ DictKept' /\ RequestAsked'
    BY <1>1 DEF IInv, Pending, AnswerIsTrue, DictKept, RequestAsked, Named, Unasked, GetResponse, callVars
  <2>4. TokenCarried'
    BY <1>1
    DEF IInv, TypeOK, Answers, TokenCarried, GetResponse, KeepsToken, Status, callVars, deckVars
  <2>. QED
    BY <2>2, <2>3, <2>4 DEF IInv
<1>2. CASE ConnectionBreaks
  <2>1. TypeOK'
    BY <1>2 DEF IInv, TypeOK, ConnectionBreaks, Results, callVars, deckVars
  <2>2. Pending' /\ AnswerIsTrue' /\ DictKept' /\ RequestAsked' /\ TokenCarried'
    BY <1>2
    DEF IInv, Pending, AnswerIsTrue, DictKept, RequestAsked, Named, Unasked, TokenCarried, ConnectionBreaks, callVars, deckVars
  <2>. QED
    BY <2>1, <2>2 DEF IInv
<1>. QED
  BY <1>1, <1>2

\* What the deck holds of a kind of thing stays within the table.
LEMMA StoredFields ==
    ASSUME TypeOK
    PROVE  \A e \in StoredAfter : e[2] \in Fields
<1>1. \A e \in {<<request.path, f, calls>> : f \in request.body} : e[2] \in Fields
  BY DEF TypeOK
<1>. QED
  BY <1>1 DEF TypeOK, StoredAfter

LEMMA CarryOutIInv ==
    ASSUME IInv, CarryOut
    PROVE  IInv'
<1>1. effects = 0 /\ result = "none" /\ request.token = token
  BY DEF IInv, Pending, CarryOut
<1>2. \A e \in stored' : e[2] \in Fields
  BY StoredFields DEF IInv, CarryOut
<1>3. granted' \in Nat /\ granted <= granted'
  BY DEF IInv, TypeOK, CarryOut
<1>4. TypeOK'
  BY <1>1, <1>2, <1>3 DEF IInv, TypeOK, CarryOut, Answers, callVars
<1>5. Pending' /\ AnswerIsTrue' /\ DictKept' /\ RequestAsked' /\ TokenCarried'
  BY <1>1
  DEF IInv, Pending, AnswerIsTrue, DictKept, RequestAsked, Named, Unasked, TokenCarried, CarryOut, callVars
<1>. QED
  BY <1>4, <1>5 DEF IInv

LEMMA RefuseIInv ==
    ASSUME IInv, Refuse
    PROVE  IInv'
<1>1. effects = 0 /\ result = "none" /\ request.token = token
  BY DEF IInv, Pending, Refuse
<1>2. answer' \in {"refused", "failed", "unauthorized"}
      /\ (answer' = "unauthorized" => ~ Authorized)
  BY DEF Refuse
<1>3. TypeOK'
  BY <1>2 DEF IInv, TypeOK, Refuse, Answers, callVars, deckVars
<1>4. Pending' /\ AnswerIsTrue' /\ DictKept' /\ RequestAsked'
  BY <1>1, <1>2 DEF IInv, Pending, AnswerIsTrue, DictKept, RequestAsked, Named, Unasked, Refuse, callVars
<1>5. TokenCarried'
  BY <1>1, <1>2 DEF IInv, TypeOK, TokenCarried, Refuse, Authorized, callVars, deckVars
<1>. QED
  BY <1>3, <1>4, <1>5 DEF IInv

LEMMA ForgetIInv ==
    ASSUME IInv, ForgetTokens
    PROVE  IInv'
<1>1. TypeOK'
  BY DEF IInv, TypeOK, ForgetTokens, callVars
<1>2. Pending' /\ AnswerIsTrue' /\ DictKept' /\ RequestAsked' /\ TokenCarried'
  BY DEF IInv, TypeOK, Pending, AnswerIsTrue, DictKept, RequestAsked, Named, Unasked, TokenCarried, ForgetTokens, callVars
<1>. QED
  BY <1>1, <1>2 DEF IInv

LEMMA StepIInv == IInv /\ [Next]_vars => IInv'
<1>. SUFFICES ASSUME IInv, [Next]_vars PROVE IInv'
  OBVIOUS
<1>1. CASE UNCHANGED vars
  BY <1>1
  DEF vars, callVars, deckVars, IInv, TypeOK, Pending, AnswerIsTrue, DictKept, RequestAsked, Named, Unasked, TokenCarried
<1>2. ASSUME NEW m \in Callable, NEW a \in Arguments[m], Call(m, a[1], a[2], a[3]) PROVE IInv'
  BY <1>2, CallIInv
<1>3. ASSUME NEW m \in Callable, CallRaises(m) PROVE IInv'
  BY <1>3, CallRaisesIInv
<1>4. CASE Reply
  BY <1>4, CarryOutIInv, RefuseIInv, ReturnIInv DEF Reply
<1>5. CASE ForgetTokens
  BY <1>5, ForgetIInv
<1>6. CASE Idle
  BY <1>6, <1>1 DEF Idle
<1>. QED
  BY <1>1, <1>2, <1>3, <1>4, <1>5, <1>6 DEF Next

\* The inductive invariant of the client and the deck.
THEOREM ClientInvariant == Spec => []IInv
  BY InitIInv, StepIInv, PTL DEF Spec

\* Types, with at most one effect of each call.
THEOREM ClientTypes == Spec => []TypeOK
<1>1. IInv => TypeOK
  BY DEF IInv
<1>. QED
  BY <1>1, ClientInvariant, PTL

\* After get_token has succeeded, a request lacks a valid token only when the deck
\* has forgotten what it gave.
THEOREM CarriesToken == Spec => []TokenCarried
<1>1. IInv => TokenCarried
  BY DEF IInv
<1>. QED
  BY <1>1, ClientInvariant, PTL

\* An update touches no value its caller did not name.
LEMMA StepOthersSurvive ==
    ASSUME IInv, [Next]_vars, NEW e \in stored \ stored'
    PROVE  request.verb = "DELETE" \/ e[2] \in Named \union Unasked
<1>1. CarryOut
  BY DEF Next, Reply, Call, CallRaises, Refuse, GetResponse, ConnectionBreaks, ForgetTokens,
         Idle, vars, deckVars
<1>2. CASE request.verb \in {"PUT", "PATCH"}
  <2>1. e \in At(request.nulls \union request.body)
    BY <1>1, <1>2 DEF CarryOut, StoredAfter
  <2>2. e[2] \in request.nulls \union request.body
    BY <2>1 DEF At
  <2>. QED
    BY <2>2 DEF IInv, RequestAsked
<1>3. CASE request.verb \notin {"PUT", "PATCH", "DELETE"}
  BY <1>1, <1>3 DEF CarryOut, StoredAfter
<1>. QED
  BY <1>2, <1>3

\* Of the values the deck holds an update neither takes away nor replaces one its
\* caller did not name, but for the defaults of update_switch and a cluster's config
\* in a dictionary used again, however many calls went before.
THEOREM KeepsOthers == Spec => OthersSurvive
<1>1. IInv /\ [Next]_vars =>
          [ \A e \in stored \ stored' :
                request.verb = "DELETE" \/ e[2] \in Named \union Unasked ]_vars
  BY StepOthersSurvive
<1>. QED
  BY <1>1, ClientInvariant, PTL DEF Spec, OthersSurvive

-----------------------------------------------------------------------------
\* The detailed client implements the contract: its steps begin a call, have one
\* effect, end the call with a true answer, or are invisible.
LEMMA InitContract == Init => DeckContract!CallInit
  BY DEF Init, DeckContract!CallInit

LEMMA StepContract ==
    IInv /\ [Next]_vars =>
        [DeckContract!CallNext]_<<pc = "sent", effects, result>>
<1>. SUFFICES ASSUME IInv, [Next]_vars
              PROVE  \/ DeckContract!CallNext
                     \/ UNCHANGED <<pc = "sent", effects, result>>
  OBVIOUS
<1>1. ASSUME NEW m \in Callable, NEW a \in Arguments[m], Call(m, a[1], a[2], a[3])
      PROVE  DeckContract!Begin
  BY <1>1, CallableMethods DEF Call, DeckContract!Begin
<1>2. ASSUME NEW m \in Callable, CallRaises(m)
      PROVE  DeckContract!Misfire
  BY <1>2, CallableMethods DEF CallRaises, DeckContract!Misfire
<1>3. CASE CarryOut
  BY <1>3 DEF IInv, Pending, CarryOut, callVars, DeckContract!CallNext, DeckContract!Effect
<1>4. CASE Refuse \/ ForgetTokens
  BY <1>4 DEF Refuse, ForgetTokens
<1>5. CASE GetResponse
  <2>1. /\ result' = "success" => effects = 1
        /\ result' = "refusal" => effects = 0
        /\ result' \in DeckContract!Results \ {"none"}
    BY <1>5 DEF IInv, AnswerIsTrue, GetResponse, Status, KeepsToken, DeckContract!Results
  <2>2. DeckContract!End
    BY <1>5, <2>1 DEF GetResponse, DeckContract!End, DeckContract!Promise
  <2>. QED
    BY <2>2 DEF DeckContract!CallNext
<1>6. CASE ConnectionBreaks
  <2>1. DeckContract!End
    BY <1>6 DEF ConnectionBreaks, DeckContract!End, DeckContract!Promise, DeckContract!Results
  <2>. QED
    BY <2>1 DEF DeckContract!CallNext
<1>7. CASE Idle \/ UNCHANGED vars
  BY <1>7 DEF Idle, vars
<1>. QED
  BY <1>1, <1>2, <1>3, <1>4, <1>5, <1>6, <1>7 DEF Next, Reply, DeckContract!CallNext

\* restful.py keeps the contract of a call: at most one effect, and an answer
\* that tells the truth about it.
THEOREM KeepsContract == Spec => OnceAtMost
<1>1. IInv /\ [Next]_vars =>
          [DeckContract!CallNext]_<<pc = "sent", effects, result>>
  BY StepContract
<1>. QED
  BY <1>1, InitContract, ClientInvariant, PTL DEF Spec, OnceAtMost, DeckContract!CallSpec
=============================================================================
