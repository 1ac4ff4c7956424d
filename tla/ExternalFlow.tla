---------------------------- MODULE ExternalFlow ----------------------------
(***************************************************************************)
(* The external service (service_external.go) step by step against the     *)
(* mock NIP provider (mock_nip_provider.go).  TransferSpine lets a         *)
(* provider answer anything at any time; here every answer comes from what *)
(* one provider process remembers.                                         *)
(*                                                                         *)
(* A call is several steps: an outbound transfer commits its intent, asks  *)
(* the provider, commits the completion; a requery reads the transfer and  *)
(* the provider's memory, and commits later; an inbound event is parsed    *)
(* (and remembered by the provider) before it is recorded.  A call may die *)
(* between any two steps (a cancelled request, a refused transaction), and *)
(* Restart loses every call and the provider's memory, which is not        *)
(* persisted.                                                              *)
(*                                                                         *)
(* reported and initiations are history variables: no code keeps them.     *)
(* Left out: the demo routes, name enquiry, liens and the internal         *)
(* operations, which do not meet the provider.                             *)
(***************************************************************************)
EXTENDS TransferSpine

CONSTANTS
    Scenarios,    \* scenarios an outbound transfer may ask the provider for
    Overrides,    \* scenarios a requery may ask the provider for
    Delays,       \* delays inbound events may have: "none", "waiting"
    MaxAsked,     \* bound on requeries between their read and their commit
    MaxParsed     \* bound on inbound events parsed and not yet recorded

AllScenarios == {"success", "pending", "failed", "timeout", "provider_unknown"}

ASSUME FlowAssumption ==
    /\ Scenarios \subseteq AllScenarios
    /\ Overrides \subseteq AllScenarios
    /\ Delays \subseteq {"none", "waiting"}
    /\ MaxAsked \in Nat
    /\ MaxParsed \in Nat

VARIABLES
    memory,        \* MockNIPProvider.transfers: reference -> remembered result
    requeryErrors, \* MockNIPProvider.requeryErrors: references that time out
    inFlight,      \* transfers whose initiating call is alive
    answer,        \* the provider's answer that call holds
    asked,         \* requeries that hold an answer not yet committed
    parsed,        \* inbound events parsed and not yet recorded
    initiations,   \* how often the provider was asked to make a transfer
    reported       \* <<transfer, status>>: the provider's record of that very
                   \* transfer had that status

provider == <<memory, requeryErrors>>
calls    == <<inFlight, answer, asked, parsed>>
history  == <<initiations, reported>>
flowVars == <<vars, provider, calls, history>>

-----------------------------------------------------------------------------
ProviderReference == References \cup Keys

\* What the provider remembers under a reference.  about is the transfer the
\* result was made for, 0 when it was a webhook; the code does not keep it.
Remembered ==
    [status: Statuses, providerStatus: ProviderStatuses,
     delay: {"none", "waiting", "elapsed"}, about: Transfer \cup {0}]

Forgotten == [status |-> "unknown reference"]
NoAnswer == [status |-> "no answer"]

Requery == [transfer: Transfer, reference: ProviderReference, answer: ProviderResult]

FlowTypeOK ==
    /\ memory \in [ProviderReference -> Remembered \cup {Forgotten}]
    /\ requeryErrors \subseteq {r \in ProviderReference : memory[r] # Forgotten}
    /\ inFlight \subseteq calling
    /\ answer \in [Transfer -> ProviderResult \cup {NoAnswer}]
    /\ asked \subseteq Requery
    /\ parsed \subseteq InboundEvents
    /\ initiations \in [Transfer -> Nat]
    /\ reported \subseteq Transfer \X Statuses

FlowInit ==
    /\ Init
    /\ memory = [r \in ProviderReference |-> Forgotten]
    /\ requeryErrors = {}
    /\ inFlight = {}
    /\ answer = [t \in Transfer |-> NoAnswer]
    /\ asked = {}
    /\ parsed = {}
    /\ initiations = [t \in Transfer |-> 0]
    /\ reported = {}

-----------------------------------------------------------------------------
(***************************************************************************)
(* The provider.                                                           *)
(***************************************************************************)
ScenarioStatus(scenario) ==
    CASE scenario = "success" -> "succeeded"
      [] scenario = "failed"  -> "failed"
      [] OTHER                -> "pending"

Outcome_M(scenario) ==
    [status |-> IF scenario = "timeout" THEN "failed" ELSE ScenarioStatus(scenario), event |-> Nil,
     providerStatus |-> IF scenario = "timeout" THEN "failed"
                        ELSE IF scenario = "provider_unknown" THEN "provider_unknown"
                        ELSE ScenarioStatus(scenario)]

Outcome(scenario) ==
    [status |-> ScenarioStatus(scenario), event |-> Nil,
     providerStatus |-> IF scenario \in {"timeout", "provider_unknown"} THEN "provider_unknown"
                        ELSE ScenarioStatus(scenario)]

Remember(reference, result, delay, about) ==
    memory' = [memory EXCEPT ![reference] =
                  [status |-> result.status, providerStatus |-> result.providerStatus,
                   delay |-> delay, about |-> about]]

\* The result of a requery.  Once its delay has elapsed a pending transfer
\* reads as succeeded, with the provider status it was remembered with.
RequeryAnswer(reference) ==
    LET m == memory[reference]
    IN  IF reference \in requeryErrors THEN Outcome("timeout")
        ELSE [status |-> IF m.delay = "elapsed" /\ m.status = "pending" THEN "succeeded" ELSE m.status,
              providerStatus |-> m.providerStatus, event |-> Nil]

AnswerAccepted_M(result) == TRUE

\* externalTransferRequeryCompletionInput refuses a result that contradicts itself.
AnswerAccepted(result) ==
    result.providerStatus = result.status \/ result.providerStatus = "provider_unknown"

\* Time passes: the moment a delayed result was due is over.
DelayElapses(reference) ==
    /\ memory[reference] # Forgotten
    /\ memory[reference].delay = "waiting"
    /\ memory' = [memory EXCEPT ![reference].delay = "elapsed"]
    /\ UNCHANGED <<vars, requeryErrors, calls, history>>

-----------------------------------------------------------------------------
(***************************************************************************)
(* ExternalOutboundTransfer.                                               *)
(***************************************************************************)
OutboundRequests == {in \in Requests : in.op = "external_outbound"}

BeginExternalOutboundTransfer_M(in) ==
    /\ \/ RecordTransfer(in) /\ inFlight' = inFlight \cup {count'}
       \/ \E t \in Existing : /\ transfers[t].key = in.key /\ IsPending(t)
                              /\ inFlight' = inFlight \cup {t} /\ calling' = calling \cup {t}
                              /\ UNCHANGED <<accountStatus, ledger, available, count, transfers, hold,
                                             journal, lien, events, audit, reviewing>>
    /\ UNCHANGED <<provider, answer, asked, parsed, history>>

\* Only the call that creates the intent goes on to the provider; a retry of
\* the request, also a concurrent one, is answered from the transfer row.
BeginExternalOutboundTransfer(in) ==
    /\ RecordTransfer(in)
    /\ inFlight' = inFlight \cup {count'}
    /\ UNCHANGED <<provider, answer, asked, parsed, history>>

\* A timeout is not remembered: the caller's answer is all there is of it.
InitiateTransfer(t, scenario) ==
    /\ t \in inFlight /\ answer[t] = NoAnswer
    /\ answer' = [answer EXCEPT ![t] = Outcome(scenario)]
    /\ initiations' = [initiations EXCEPT ![t] = @ + 1]
    /\ IF scenario = "timeout" THEN UNCHANGED <<memory, reported>>
       ELSE /\ Remember(transfers[t].reference, Outcome(scenario), "none", t)
            /\ reported' = reported \cup {<<t, ScenarioStatus(scenario)>>}
    /\ UNCHANGED <<vars, requeryErrors, inFlight, asked, parsed>>

EndCall_M(t) ==
    /\ answer' = [answer EXCEPT ![t] = NoAnswer]
    /\ UNCHANGED <<provider, inFlight, asked, parsed, history>>

EndCall(t) ==
    /\ inFlight' = inFlight \ {t}
    /\ answer' = [answer EXCEPT ![t] = NoAnswer]
    /\ UNCHANGED <<provider, asked, parsed, history>>

CompleteCall(t) ==
    /\ t \in inFlight /\ answer[t] # NoAnswer
    /\ CompleteExternalOutboundTransfer(t, answer[t])
    /\ EndCall(t)

\* The request was cancelled, or the completion was refused or found the
\* transfer already final.
LoseCall(t) ==
    /\ t \in inFlight
    /\ EndCall(t)
    /\ UNCHANGED vars

-----------------------------------------------------------------------------
(***************************************************************************)
(* ExternalTransferRequery.  Every external transfer has a reference, and  *)
(* a requery that names another one is refused.                            *)
(***************************************************************************)
ReferenceKnown(t) ==
    t \in Existing /\ Requeryable(t) /\ memory[transfers[t].reference] # Forgotten

\* applyMockRequeryScenario: what the provider will say from now on.
SetRequeryScenario(t, scenario) ==
    LET r == transfers[t].reference
    IN  /\ "requery" \in Endpoints
        /\ ReferenceKnown(t)
        /\ IF scenario = "timeout"
           THEN requeryErrors' = requeryErrors \cup {r} /\ UNCHANGED <<memory, reported>>
           ELSE /\ requeryErrors' = requeryErrors \ {r}
                /\ Remember(r, Outcome(scenario), "none", memory[r].about)
                /\ reported' = reported \cup ({memory[r].about} \cap Transfer) \X {ScenarioStatus(scenario)}
        /\ UNCHANGED <<vars, calls, initiations>>

\* The unlocked read of the transfer and the provider's answer.  An unknown
\* reference is an error and no answer, as is a contradictory result.
RequeryTransfer(t) ==
    LET r == transfers[t].reference
    IN  /\ "requery" \in Endpoints
        /\ ReferenceKnown(t)
        /\ AnswerAccepted(RequeryAnswer(r))
        /\ Cardinality(asked) < MaxAsked
        /\ asked' = asked \cup {[transfer |-> t, reference |-> r, answer |-> RequeryAnswer(r)]}
        /\ UNCHANGED <<vars, provider, inFlight, answer, parsed, history>>

CompleteRequery(call) ==
    /\ CompleteExternalTransferRequery(call.transfer, call.reference, call.answer)
    /\ asked' = asked \ {call}
    /\ UNCHANGED <<provider, inFlight, answer, parsed, history>>

LoseRequery(call) ==
    /\ asked' = asked \ {call}
    /\ UNCHANGED <<vars, provider, inFlight, answer, parsed, history>>

-----------------------------------------------------------------------------
(***************************************************************************)
(* ExternalInboundEvent.                                                   *)
(***************************************************************************)
\* ParseWebhook remembers the event before anything checks it.
ParseWebhook(in, delay) ==
    /\ delay # "none" => in.status = "pending"
    /\ Cardinality(parsed) < MaxParsed
    /\ parsed' = parsed \cup {in}
    /\ Remember(in.reference, in, delay, 0)
    /\ requeryErrors' = requeryErrors \ {in.reference}
    /\ UNCHANGED <<vars, inFlight, answer, asked, history>>

EndEvent(in) ==
    /\ parsed' = parsed \ {in}
    /\ UNCHANGED <<provider, inFlight, answer, asked, history>>

RecordExternalInboundTransfer(in) == RecordTransfer(in) /\ EndEvent(in)

ReviewEvent(in) ==
    /\ \/ ReviewUnknownDestination(in)
       \/ \E reason \in {"blocked", "conflict"} : SendToReview(in, reason)
    /\ EndEvent(in)

\* The event was rejected or a replay, or its call died.
DropEvent(in) == EndEvent(in) /\ UNCHANGED vars

ReviewCall ==
    /\ \E call \in reviewing : RecordProviderEventReview(call) \/ LoseReview(call)
    /\ UNCHANGED <<provider, calls, history>>

-----------------------------------------------------------------------------
AccountControl ==
    /\ \E a \in Customers : FreezeAccount(a) \/ UnfreezeAccount(a)
    /\ UNCHANGED <<provider, calls, history>>

\* Calls about to record a review are lost one by one (LoseReview) first.
Restart ==
    /\ reviewing = {}
    /\ memory' = [r \in ProviderReference |-> Forgotten]
    /\ requeryErrors' = {}
    /\ inFlight' = {}
    /\ answer' = [t \in Transfer |-> NoAnswer]
    /\ asked' = {}
    /\ parsed' = {}
    /\ UNCHANGED <<vars, history>>

FlowNext ==
    \/ \E in \in OutboundRequests : BeginExternalOutboundTransfer(in)
    \/ \E t \in Transfer, scenario \in Scenarios : InitiateTransfer(t, scenario)
    \/ \E t \in Transfer : CompleteCall(t)
    \/ \E t \in Transfer : LoseCall(t)
    \/ \E t \in Transfer, scenario \in Overrides : SetRequeryScenario(t, scenario)
    \/ \E t \in Transfer : RequeryTransfer(t)
    \/ \E call \in asked : CompleteRequery(call)
    \/ \E call \in asked : LoseRequery(call)
    \/ \E in \in InboundEvents, delay \in Delays : ParseWebhook(in, delay)
    \/ \E in \in parsed : RecordExternalInboundTransfer(in)
    \/ \E in \in parsed : ReviewEvent(in)
    \/ \E in \in parsed : DropEvent(in)
    \/ ReviewCall
    \/ \E r \in ProviderReference : DelayElapses(r)
    \/ AccountControl
    \/ Restart

FlowSpec == FlowInit /\ [][FlowNext]_flowVars

\* Nothing in the code asks again by itself: this is an operator who requeries
\* an open transfer again and again, whose requeries are not all lost, and a
\* clock.  A requery that cannot commit returns its error.
OperatorPersists ==
    /\ \A t \in Transfer : /\ SF_flowVars(RequeryTransfer(t))
                           /\ SF_flowVars(\E call \in asked : call.transfer = t /\ CompleteRequery(call))
    /\ WF_flowVars(\E call \in asked : LoseRequery(call))
    /\ WF_flowVars(\E r \in ProviderReference : DelayElapses(r))

FairFlowSpec == FlowSpec /\ OperatorPersists

=============================================================================
