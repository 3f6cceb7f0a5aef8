---------------------------- MODULE PendingSession ----------------------------
(***************************************************************************)
(* One request of the app server on its way through the gateway to a       *)
(* client and back: it is built and announced or answered at once, shown,  *)
(* answered by a client through the SDK's builders or by any gRPC message, *)
(* checked, claimed, and written to the app server.  Beside it the app     *)
(* server writes to its standard error, where it may repeat what it was    *)
(* told.                                                                   *)
(*                                                                         *)
(* What the request becomes is computed by PendingRequests, the responses  *)
(* by ActionBuilders; RedactStream is the text.  Runs, claims, idempotency *)
(* keys and the order of events are the matter of ChatRuntime.             *)
(***************************************************************************)
EXTENDS ActionBuilders, RedactStream

CONSTANTS
  Requests,    \* requests the app server may make
  Narrated,    \* bound: the requests beside which the app server writes text, to
               \* which any gRPC client responds and the text waits for a refused
               \* response to be followed by another
  Values,      \* what a client may answer to a question or put into a form
  UnknownID,   \* an id that nothing is shown under
  MaxChosen,   \* bound: ids or answers in one response, one beside a text
  MaxValues,   \* bound: values of one answer
  MaxChunk,    \* bound: bytes of a chunk of the text
  MaxRepeats   \* bound: how often secrets occur in the text

\* What pending.Build reads from the app server's messages; of the lists only
\* that they are lists.
IsList(s) == s \in Seq(Range(s))
IsSection(section) ==
  IsList(section.entries) /\ IsList(section.read) /\ IsList(section.write)
ASSUME RequestsAssumption ==
  \A r \in Requests :
    /\ r.type \in {"command", "file", "permissions", "elicitation", "questions"}
    /\ r.size \in Nat
    /\ r.type = "command" => /\ IsList(r.decisions) /\ IsList(r.paths)
                             /\ r.listed \in BOOLEAN /\ r.amendments \in Nat
    /\ r.type = "file" => IsList(r.grantRoot)
    /\ r.type = "permissions" => /\ r.network \in {"absent", "on", "off"}
                                 /\ IsSection(r.fileSystem) /\ IsSection(r.root)
    /\ r.type = "questions" => /\ IsList(r.questions)
                               /\ \A i \in DOMAIN r.questions : IsList(r.questions[i].options)

\* The four direct decisions can be shown (domain.MaxApprovalDecisionOptions is 16).
ASSUME LimitsAssumption ==
  /\ MaxApprovalDecisionOptions \in Nat \ 0..3
  /\ MaxPermissionAtoms \in Nat /\ MaxToolUserInputQuestions \in Nat
  /\ MaxToolUserInputOptionsPerQuestion \in Nat /\ MaxDisplayPayload \in Nat
  /\ MaxToolUserInputAnswersPerQuestion \in Nat
ASSUME BoundsAssumption ==
  MaxChunk \in Nat /\ MaxChosen \in Nat /\ MaxValues \in Nat

NoAnswer  == [by |-> "nobody", response |-> Approval(UnknownID)]
NoPayload == [none |-> TRUE]

VARIABLES
  phase,     \* "idle", "resolved" (at once), "announced", "unmappable", "shown",
             \* "writing", "written"
  request,   \* the request
  answer,    \* the last response and who made it
  refused,   \* whether it was refused
  payload,   \* what is written to the app server
  told       \* secret value -> where the text was when the app server learnt it

sessionVars == <<phase, request, answer, refused, payload, told>>
pendingVars == <<sessionVars, redactVars>>

PendingInit == /\ RedactInit
               /\ phase = "idle"
               /\ request \in Requests
               /\ answer = NoAnswer
               /\ refused = FALSE
               /\ payload = NoPayload
               /\ told = << >>

-----------------------------------------------------------------------------
\* handleForwardedServerRequest: the request is announced, or answered at once.
CodexAsks ==
  /\ phase = "idle"
  /\ IF OverLimit(request)
     THEN phase' = "resolved" /\ payload' = AutoResolution(request)
     ELSE phase' = "announced" /\ UNCHANGED payload
  /\ UNCHANGED <<request, answer, refused, told, redactVars>>

\* chatPendingRequestToProto: the stream sends the display or fails.
StreamSends ==
  /\ phase = "announced"
  /\ phase' = IF Mappable(Display(request)) THEN "shown" ELSE "unmappable"
  /\ UNCHANGED <<request, answer, refused, payload, told, redactVars>>

-----------------------------------------------------------------------------
\* The responses a client can send: ids and answers up to MaxChosen.
Sequences(S, max) == UNION {[1..n -> S] : n \in 0..max}
Chosen == IF request \in Narrated THEN 1 ELSE MaxChosen

ShownIDs(display) ==
  CASE display.type = "approval"    -> {o.id : o \in Range(display.options)}
    [] display.type = "permissions" -> {atom.id : atom \in Range(display.atoms)}
    [] display.type = "questions"   -> QuestionIDs(display.questions)
    [] display.type = "elicitation" -> {}

AnswerLists(display) ==
  Sequences([id : ShownIDs(display) \cup {UnknownID}, values : Sequences(Values, MaxValues)], Chosen)
Contents == Values \cup NotJSON \cup TooLarge \cup {NoContent}

\* Any gRPC client.
RawResponses(display) ==
  LET ids == ShownIDs(display) \cup {UnknownID}
  IN CASE display.type = "approval" ->
            {Approval(id) : id \in ids} \cup {Permissions(<< >>, "unspecified", FALSE)}
       [] display.type = "permissions" ->
            {Permissions(s, scope, strict) :
               s \in Sequences(ids, Chosen), scope \in {"unspecified", "turn", "session"},
               strict \in BOOLEAN}
       [] display.type = "elicitation" ->
            {Elicitation(action, c) : action \in {"accept", "decline", "cancel"},
                                      c \in Contents}
       [] display.type = "questions" -> {Answers(a) : a \in AnswerLists(display)}

\* A user of the SDK: who builds what.
Built(display) ==
  LET ids == Sequences(ShownIDs(display) \cup {UnknownID}, Chosen)
      By(builder, responses) == {[by |-> builder, response |-> a] : a \in responses}
  IN CASE display.type = "approval" ->
            By("choose", UNION {Choose(display, id) : id \in ShownIDs(display)})
              \cup By("approve", Approve(display))
              \cup By("deny", DenyApproval(display))
              \cup By("cancel", CancelApproval(display))
       [] display.type = "permissions" ->
            By("grant", UNION {GrantTurn(display, s) \cup GrantSession(display, s)
                                 \cup GrantTurnRelaxed(display, s)
                                 \cup GrantSessionRelaxed(display, s) : s \in ids})
              \cup By("denyPermissions", DenyPermissions(display))
       [] display.type = "elicitation" ->
            By("submit", UNION {Submit(display, c) : c \in Contents})
              \cup By("submitJSON", UNION {SubmitJSON(display, c) : c \in Contents})
              \cup By("cancel", CancelInput(display))
       [] display.type = "questions" ->
            By("answer", UNION {Answer(display, a) : a \in AnswerLists(display)})

Sent(display) ==
  (IF request \in Narrated THEN {} ELSE Built(display)) \cup {[by |-> "raw", response |-> a] : a \in RawResponses(display)}

-----------------------------------------------------------------------------
\* Refused by the gRPC handler, before anything is claimed.
RespondMalformed(a) ==
  /\ ~ WellFormed(a.response)
  /\ refused' = TRUE
  /\ UNCHANGED <<phase, payload, told, redactVars>>

\* claimChatPendingResponse: refused by ValidateResponse, which has registered
\* the secrets of the answers before the one it refuses.
RespondInvalid(a) ==
  /\ WellFormed(a.response)
  /\ ~ Valid(Record(request), a.response)
  /\ Register(Registers(Record(request), a.response))
  /\ refused' = TRUE
  /\ UNCHANGED <<phase, payload, told, textVars>>

\* claimChatPendingResponse: validated, secrets registered, claimed.
RespondClaims(a) ==
  /\ WellFormed(a.response)
  /\ Valid(Record(request), a.response)
  /\ Register(Registers(Record(request), a.response))
  /\ payload' = Payload(Record(request), a.response)
  /\ refused' = FALSE
  /\ phase' = "writing"
  /\ UNCHANGED <<told, textVars>>

Respond(a) ==
  /\ phase = "shown"
  /\ RespondMalformed(a) \/ RespondInvalid(a) \/ RespondClaims(a)
  /\ answer' = a
  /\ UNCHANGED request

\* What the user gave as a secret: to a secret question, or to a sensitive field.
SecretsOf(r, a) ==
  Segments \cap
    CASE a.type = "questions" ->
           UNION {Range(a.answers[i].values) :
                    i \in {k \in DOMAIN a.answers :
                             QuestionByID(r.questions, a.answers[k].id).secret}}
      [] a.type = "elicitation" ->
           IF r.sensitive /\ a.action = "accept" THEN {a.content} ELSE {}
      [] OTHER -> {}

Tell == told' = [s \in DOMAIN told \cup SecretsOf(request, answer.response) |->
                  IF s \in DOMAIN told THEN told[s] ELSE received]

\* RespondServerRequest: the response reaches the app server, or it fails, when
\* the app server may have read it or not.
WriteResponse ==
  /\ phase = "writing"
  /\ phase' = "written"
  /\ Tell
  /\ UNCHANGED <<request, answer, refused, payload, redactVars>>
WriteFails ==
  /\ phase = "writing"
  /\ phase' = "shown"
  /\ payload' = NoPayload
  /\ Tell \/ UNCHANGED told
  /\ UNCHANGED <<request, answer, refused, redactVars>>

-----------------------------------------------------------------------------
\* The app server writes a chunk: a secret may occur in it from where it was
\* when the app server learnt it.
Repeatable(n) ==
  {o \in (DOMAIN told) \X (0..TextLength) :
     /\ told[o[1]] <= o[2]
     /\ received < End(o) /\ End(o) <= received + n}

CodexWrites ==
  /\ request \in Narrated /\ ~ refused
  /\ \E n \in 1..MaxChunk : \E new \in SUBSET Repeatable(n) :
       /\ Cardinality(occurrences \cup new) <= MaxRepeats
       /\ WriteStarts(n, new)
  /\ UNCHANGED sessionVars

StderrPublishes == WritePublishes /\ UNCHANGED sessionVars
StderrEnds      == request \in Narrated /\ ~ refused /\ Flush /\ UNCHANGED sessionVars

PendingNext == \/ CodexAsks
               \/ StreamSends
               \/ phase = "shown" /\ \E a \in Sent(Display(request)) : Respond(a)
               \/ WriteResponse
               \/ WriteFails
               \/ CodexWrites
               \/ StderrPublishes
               \/ StderrEnds

PendingSpec == PendingInit /\ [][PendingNext]_pendingVars

-----------------------------------------------------------------------------
Claimed == phase \in {"writing", "written"}
Lists   == {"entries", "read", "write"}

\* What the user chose by id in the display is what the app server is told:
\* the decision shown under the id, of the permissions those shown under the
\* ids and no other, the values for the questions they were asked under
\* (pending.Build numbers the display, ValidateResponse looks the ids up in a
\* record made beside it).
WrittenIsWhatWasShown ==
  LET shown == Display(request)
      a     == answer.response
  IN Claimed =>
     CASE a.type = "approval" ->
            \E o \in Range(shown.options) :
              o.id = a.id /\ o.selectable /\ payload = [decision |-> o.wire]
       [] a.type = "permissions" ->
            LET chosen == {atom \in Range(shown.atoms) : atom.id \in Range(a.ids)}
            IN /\ \A atom \in chosen : atom.grantable
               /\ Cardinality(chosen) = Len(a.ids)
               /\ payload.network = (\E atom \in chosen : atom.field = "network")
               /\ \A f \in Lists : Range(payload[f])
                                    = {atom.value : atom \in {x \in chosen : x.field = f}}
               /\ (payload.scope = "session") = (a.scope = "session")
               /\ payload.strict = a.strict
       [] a.type = "elicitation" ->
            payload.action = a.action /\ payload.content = a.content
       [] a.type = "questions" ->
            \A i \in DOMAIN a.answers :
              /\ a.answers[i].id \in QuestionIDs(shown.questions)
              /\ payload.answers[a.answers[i].id] = a.answers[i].values

\* Nothing a user is told cannot be approved is approved, whatever the client
\* sends: no command or change that reaches outside the working directory or
\* amends the network policy, no path outside it, no network that was not
\* asked for; and what is answered without a user grants nothing
\* (directDecisionOption, addGrant, AutoResolutionPayload).
NothingBlockedIsGranted ==
  LET r == request
  IN /\ (Claimed \/ phase = "resolved") =>
        CASE r.type = "command" -> payload.decision \in Accepts =>
                                     Range(r.paths) \subseteq CwdPaths /\ r.amendments = 0
          [] r.type = "file" -> payload.decision \in Accepts =>
                                  Range(r.grantRoot) \subseteq CwdPaths
          [] r.type = "permissions" ->
               /\ payload.network => r.network = "on"
               /\ \A f \in Lists : Range(payload[f]) \subseteq CwdPaths
          [] OTHER -> TRUE
     /\ phase = "resolved" =>
        CASE r.type \in {"command", "file"} -> payload.decision \in Refusals
          [] r.type = "permissions" -> payload = NoPermissions
          [] r.type = "elicitation" -> payload.action \in Refusals
          [] r.type = "questions"   -> payload = [error |-> "over_limit"]

\* A request that is announced reaches its user and can be turned down: its
\* display passes the outbound checks, unless its texts are too long together,
\* and some response to it is accepted and grants nothing, whatever decisions
\* the app server has offered (commandDecisionOptions adds those that refuse;
\* the checks are in another package).
GrantsNothing(made) ==
  CASE request.type \in {"command", "file"} -> made.decision \in Refusals
    [] request.type = "permissions" -> made = NoPermissions
    [] request.type = "elicitation" -> made.action \in Refusals
    [] request.type = "questions"   -> DOMAIN made.answers = {}
RefusalIsPossible ==
  /\ phase = "unmappable" => request.size > MaxDisplayPayload
  /\ phase = "shown" =>
       \E a \in RawResponses(Display(request)) :
         /\ WellFormed(a)
         /\ Valid(Record(request), a)
         /\ GrantsNothing(Payload(Record(request), a))

\* What the SDK's builders return, the gateway takes: a response made by Choose,
\* Approve, Deny or Cancel of an approval, Grant*, Submit, Cancel or Answer is
\* refused only if the caller repeated an id, granted nothing, gave a value that
\* is not offered or one that is too large (three layers check one another's
\* ids: sdk/go/actions.go, grpcapi/validators.go, pending/response.go).
Careless(a) ==
  CASE a.type = "permissions" -> a.ids = << >> \/ ~ IsInjective(a.ids)
    [] a.type = "elicitation" -> a.content \in TooLarge
    [] a.type = "questions"   ->
         \/ ~ IsInjective(AnsweredIDs(a))
         \/ \E i \in DOMAIN a.answers :
              \/ Len(a.answers[i].values) > MaxToolUserInputAnswersPerQuestion
              \/ \E v \in Range(a.answers[i].values) :
                   ~ Allows(QuestionByID(request.questions, a.answers[i].id), v)
    [] OTHER -> FALSE
BuilderAnswersFit ==
  refused /\ answer.by \notin {"raw", "submitJSON", "denyPermissions"} =>
    Careless(answer.response)

\* "Deny rejects a permissions request without granting any permission ids"
\* (sdk/go/actions.go:198): the gateway takes it.
DenialIsAccepted == ~ (refused /\ answer.by = "denyPermissions")
=============================================================================
