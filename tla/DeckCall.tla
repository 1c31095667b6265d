------------------------------- MODULE DeckCall --------------------------------
(***************************************************************************)
(* What a call of the REST client promises its caller: the deck does what  *)
(* the call asks at most once, and before the call is over; it has done it *)
(* when the answer is a success, and it has not when the answer is a       *)
(* refusal.  After an exception, or a failure of the deck, it may have.    *)
(***************************************************************************)
EXTENDS Naturals

VARIABLES
    open,     \* a call is being made
    effects,  \* how often the deck did what the last call asks
    result    \* what the last call returned

Results == {"none", "success", "refusal", "failure", "exception"}

CallInit == open = FALSE /\ effects = 0 /\ result = "none"

Begin ==
    /\ ~ open
    /\ open' = TRUE /\ effects' = 0 /\ result' = "none"

Effect ==
    /\ open /\ effects = 0
    /\ effects' = 1
    /\ UNCHANGED <<open, result>>

Promise == CASE result' = "success" -> effects = 1
             [] result' = "refusal" -> effects = 0
             [] OTHER -> TRUE

End ==
    /\ open
    /\ ~ open'
    /\ result' \in Results \ {"none"}
    /\ Promise
    /\ UNCHANGED effects

\* A method that fails before it sends anything.
Misfire ==
    /\ ~ open /\ ~ open'
    /\ effects' = 0 /\ result' = "exception"

CallNext == Begin \/ Effect \/ End \/ Misfire

CallSpec == CallInit /\ [][CallNext]_<<open, effects, result>>
=============================================================================
