--------------------------- MODULE PendingRequests ---------------------------
(***************************************************************************)
(* What the gateway makes of a request of the app server, and of the       *)
(* response a client sends to it: pending.Build with its limits, the       *)
(* display that is shown and the record that is kept (pending/build.go),   *)
(* the outbound checks on the display (grpcapi/mapping_string_limits.go),  *)
(* the inbound checks on the response (grpcapi/validators.go), and         *)
(* pending.ValidateResponse with the payload it makes for the app server   *)
(* (pending/response.go, appserver/mapping.go).                            *)
(*                                                                         *)
(* All of it is without state.  A request is a record by type; texts are   *)
(* their size, a path is a model value that is or is not under the         *)
(* configured working directory, an option or an answer is a value.        *)
(***************************************************************************)
EXTENDS Naturals, Sequences, FiniteSets, SequencesExt, Functions

CONSTANTS
  CwdPaths,            \* the paths under the configured working directory
  BadTokens,           \* option tokens that may not be shown (paths, hosts, secrets)
  NotJSON, TooLarge,   \* contents that are not JSON, and those that are too large
  NoContent,           \* the empty content
  MaxApprovalDecisionOptions,
  MaxApprovalSecurityMetadataEntries,
  MaxPermissionAtoms,
  MaxToolUserInputQuestions,
  MaxToolUserInputOptionsPerQuestion,
  MaxToolUserInputAnswersPerQuestion,
  MaxDisplayPayload    \* MaxOutboundPendingDisplayPayloadBytes

Accepts  == {"accept", "acceptForSession"}
Refusals == {"decline", "cancel"}
WireDecisions == Accepts \cup Refusals

UnderCwd(path) == path \in CwdPaths

\* The elements of s that are in S, picked one after the other.
Among(s, S) ==
  LET picked[n \in 0..Len(s)] ==
        IF n = 0 THEN << >>
        ELSE IF s[n] \in S THEN Append(picked[n - 1], s[n]) ELSE picked[n - 1]
  IN  picked[Len(s)]

-----------------------------------------------------------------------------
\* Approval of a command or of a file change.

DirectOption(w, blocked) ==
  [id |-> <<"decision", w>>, wire |-> w, selectable |-> ~ (blocked /\ w \in Accepts)]
AdvancedOption(i) == [id |-> <<"advanced", i>>, wire |-> "none", selectable |-> FALSE]

DirectOptions(decisions, blocked) ==
  [i \in DOMAIN decisions |-> DirectOption(decisions[i], blocked)]
AllDirectOptions(blocked) ==
  DirectOptions(<<"accept", "acceptForSession", "decline", "cancel">>, blocked)

\* A mutant of CommandOptions: what the app server offers and no more.
OfferedOptions(r, blocked) ==
  IF r.listed THEN [i \in DOMAIN r.decisions |->
                      IF r.decisions[i] \in WireDecisions
                      THEN DirectOption(r.decisions[i], blocked) ELSE AdvancedOption(i)]
              ELSE AllDirectOptions(blocked)

\* commandDecisionOptions: what the app server offers, in its order, and the
\* two ways to refuse if it offers them not.
CommandOptions(r, blocked) ==
  LET listed == [i \in DOMAIN r.decisions |->
                   IF r.decisions[i] \in WireDecisions
                   THEN DirectOption(r.decisions[i], blocked) ELSE AdvancedOption(i)]
      absent == Among(<<"decline", "cancel">>, Refusals \ Range(r.decisions))
  IN IF r.listed THEN listed \o DirectOptions(absent, blocked)
                 ELSE AllDirectOptions(blocked)

RepeatsDecision(decisions) ==
  \E i, j \in DOMAIN decisions :
    i < j /\ decisions[i] = decisions[j] /\ decisions[i] \in WireDecisions

\* A mutant of CommandBlocked: the last path decides.
LastPathBlocks(r) ==
  (r.paths # << >> /\ ~ UnderCwd(Last(r.paths))) \/ r.amendments > 0

\* approvalSecurity: a path outside the working directory or an amendment of
\* the network policy blocks approval; the other entries only inform.
CommandBlocked(r) ==
  (\E i \in DOMAIN r.paths : ~ UnderCwd(r.paths[i])) \/ r.amendments > 0
SecurityEntries(r) == r.plain + Len(r.paths) + r.amendments

\* fileGrantRoot
FileBlocked(r) == \E i \in DOMAIN r.grantRoot : ~ UnderCwd(r.grantRoot[i])

Blocked(r) == IF r.type = "command" THEN CommandBlocked(r) ELSE FileBlocked(r)
Options(r) == IF r.type = "command" THEN CommandOptions(r, CommandBlocked(r))
                                    ELSE AllDirectOptions(FileBlocked(r))

ApprovalOverLimit(r) ==
  /\ r.type = "command"
  /\ \/ SecurityEntries(r) > MaxApprovalSecurityMetadataEntries
     \/ RepeatsDecision(r.decisions)
     \/ Len(Options(r)) > MaxApprovalDecisionOptions

\* record.ApprovalOptions: what may be chosen, by the id it is shown under.
ApprovalRecord(r) ==
  LET chosen == {i \in DOMAIN Options(r) : Options(r)[i].selectable}
  IN [id \in {Options(r)[i].id : i \in chosen} |->
        (CHOOSE o \in Range(Options(r)) : o.id = id).wire]

-----------------------------------------------------------------------------
\* Permissions.

PathAtoms(paths, field) ==
  [i \in DOMAIN paths |->
     [field |-> field, value |-> paths[i], grantable |-> UnderCwd(paths[i])]]
FileSystemAtoms(section) ==
  PathAtoms(section.entries, "entries") \o PathAtoms(section.read, "read")
    \o PathAtoms(section.write, "write")
NetworkAtoms(network) ==
  IF network = "absent" THEN << >>
  ELSE <<[field |-> "network", value |-> network, grantable |-> network = "on"]>>

\* The atoms in the order in which they are numbered and shown.
Atoms(r) ==
  NetworkAtoms(r.network) \o FileSystemAtoms(r.fileSystem) \o FileSystemAtoms(r.root)

PermissionID(i) == <<"permission", i>>

ShownAtoms(r) ==
  [i \in DOMAIN Atoms(r) |-> [id |-> PermissionID(i), field |-> Atoms(r)[i].field,
                              value |-> Atoms(r)[i].value,
                              grantable |-> Atoms(r)[i].grantable]]

\* A mutant of PermissionGrants: numbered by the grantable atoms alone.
GrantsCounted(r) ==
  LET grantable == SelectSeq(Atoms(r), LAMBDA atom : atom.grantable)
  IN [id \in {PermissionID(i) : i \in DOMAIN grantable} |-> grantable[id[2]]]

\* record.PermissionGrants: the grantable atoms, under the number of the atom.
PermissionGrants(r) ==
  LET grantable == {i \in DOMAIN Atoms(r) : Atoms(r)[i].grantable}
  IN [id \in {PermissionID(i) : i \in grantable} |-> Atoms(r)[id[2]]]

-----------------------------------------------------------------------------
\* Structured input and questions.

ElicitationOverLimit(r) == r.schema = "too_large" \/ r.url = "unsafe"

QuestionsOverLimit(r) ==
  \/ Len(r.questions) = 0
  \/ Len(r.questions) > MaxToolUserInputQuestions
  \/ \E i, j \in DOMAIN r.questions : i < j /\ r.questions[i].id = r.questions[j].id
  \/ \E i \in DOMAIN r.questions :
       LET options == r.questions[i].options
       IN \/ Len(options) > MaxToolUserInputOptionsPerQuestion
          \/ ~ IsInjective(options)
          \/ Range(options) \cap BadTokens # {}

QuestionByID(questions, id) == CHOOSE q \in Range(questions) : q.id = id
QuestionIDs(questions) == {questions[i].id : i \in DOMAIN questions}

\* toolOptions, IsOther: the values an answer may have; no options, any value.
Allows(question, value) ==
  question.options = << >> \/ question.other \/ value \in Range(question.options)

-----------------------------------------------------------------------------
\* Build.

OverLimit(r) ==
  CASE r.type \in {"command", "file"} -> ApprovalOverLimit(r)
    [] r.type = "permissions"         -> Len(Atoms(r)) > MaxPermissionAtoms
    [] r.type = "elicitation"         -> ElicitationOverLimit(r)
    [] r.type = "questions"           -> QuestionsOverLimit(r)

Display(r) ==
  CASE r.type \in {"command", "file"} ->
         [type |-> "approval", options |-> Options(r), blocked |-> Blocked(r),
          size |-> r.size]
    [] r.type = "permissions" ->
         [type |-> "permissions", atoms |-> ShownAtoms(r), size |-> r.size]
    [] r.type = "elicitation" ->
         [type |-> "elicitation", supported |-> r.schema # "unsupported",
          size |-> r.size]
    [] r.type = "questions" ->
         [type |-> "questions", questions |-> r.questions, size |-> r.size]

Record(r) ==
  CASE r.type \in {"command", "file"} ->
         [type |-> "approval", options |-> ApprovalRecord(r)]
    [] r.type = "permissions" ->
         [type |-> "permissions", grants |-> PermissionGrants(r)]
    [] r.type = "elicitation" ->
         [type |-> "elicitation", sensitive |-> r.sensitive]
    [] r.type = "questions" ->
         [type |-> "questions", questions |-> r.questions]

NoPermissions ==
  [network |-> FALSE, entries |-> << >>, read |-> << >>, write |-> << >>,
   scope |-> "turn", strict |-> FALSE]

\* AutoResolutionPayload: how a request over its limits is answered at once.
AutoResolution(r) ==
  CASE r.type \in {"command", "file"} -> [decision |-> "decline"]
    [] r.type = "permissions"         -> NoPermissions
    [] r.type = "elicitation"         -> [action |-> "decline", content |-> NoContent]
    [] r.type = "questions"           -> [error |-> "over_limit"]

-----------------------------------------------------------------------------
\* pendingRequestDisplayMappingFailure: what a display must be like for a
\* stream, a replay or a status to carry it.

OptionsMappable(display) ==
  LET options == display.options
  IN /\ Len(options) <= MaxApprovalDecisionOptions
     /\ IsInjective([i \in DOMAIN options |-> options[i].id])
     /\ \E o \in Range(options) : o.selectable /\ o.wire \in Refusals
     /\ \A o \in Range(options) :
          o.selectable => /\ o.wire # "none"
                          /\ ~ (display.blocked /\ o.wire \in Accepts)

AtomsMappable(atoms) ==
  /\ Len(atoms) <= MaxPermissionAtoms
  /\ IsInjective([i \in DOMAIN atoms |-> atoms[i].id])

QuestionsMappable(questions) ==
  /\ Len(questions) <= MaxToolUserInputQuestions
  /\ IsInjective([i \in DOMAIN questions |-> questions[i].id])
  /\ \A q \in Range(questions) : Len(q.options) <= MaxToolUserInputOptionsPerQuestion

Mappable(display) ==
  /\ display.size <= MaxDisplayPayload
  /\ CASE display.type = "approval"    -> OptionsMappable(display)
       [] display.type = "permissions" -> AtomsMappable(display.atoms)
       [] display.type = "elicitation" -> TRUE
       [] display.type = "questions"   -> QuestionsMappable(display.questions)

-----------------------------------------------------------------------------
\* Responses, and the checks of the gRPC handlers (pendingResponseFromProto).

Approval(id) == [type |-> "approval", id |-> id]
Permissions(ids, scope, strict) ==
  [type |-> "permissions", ids |-> ids, scope |-> scope, strict |-> strict]
Elicitation(action, content) ==
  [type |-> "elicitation", action |-> action, content |-> content]
Answers(answers) == [type |-> "questions", answers |-> answers]

AnsweredIDs(a) == [i \in DOMAIN a.answers |-> a.answers[i].id]

\* permissionsResponseFromProto: a refusal has neither scope nor strictness.
PermissionsWellFormed(a) ==
  /\ Len(a.ids) <= MaxPermissionAtoms
  /\ IsInjective(a.ids)
  /\ a.ids = << >> => a.scope = "unspecified" /\ ~ a.strict

ElicitationWellFormed(a) ==
  IF a.action = "accept" THEN a.content \notin NotJSON \cup TooLarge \cup {NoContent}
                         ELSE a.content = NoContent

AnswersWellFormed(a) ==
  /\ Len(a.answers) <= MaxToolUserInputQuestions
  /\ IsInjective(AnsweredIDs(a))
  /\ \A i \in DOMAIN a.answers :
       Len(a.answers[i].values) <= MaxToolUserInputAnswersPerQuestion

WellFormed(a) ==
  CASE a.type = "approval"    -> TRUE
    [] a.type = "permissions" -> PermissionsWellFormed(a)
    [] a.type = "elicitation" -> ElicitationWellFormed(a)
    [] a.type = "questions"   -> AnswersWellFormed(a)

-----------------------------------------------------------------------------
\* ValidateResponse.

\* validatePermissionsResponse, NewPermissionsRequestApprovalResponse
GrantsValid(record, a) ==
  /\ IsInjective(a.ids)
  /\ Range(a.ids) \subseteq DOMAIN record.grants
  /\ a.ids = << >> => a.scope # "session" /\ ~ a.strict

\* mergePermissionGrant over the chosen ids: a list field grows in the order
\* of the ids, the network is enabled.
GrantedValues(grants, field) ==
  LET chosen == Among(grants, {g \in Range(grants) : g.field = field})
  IN [i \in DOMAIN chosen |-> chosen[i].value]

GrantPayload(record, a) ==
  LET grants == [i \in DOMAIN a.ids |-> record.grants[a.ids[i]]]
  IN [network |-> GrantedValues(grants, "network") # << >>,
      entries |-> GrantedValues(grants, "entries"), read |-> GrantedValues(grants, "read"),
      write   |-> GrantedValues(grants, "write"),
      scope   |-> IF a.scope = "session" THEN "session" ELSE "turn",
      strict  |-> a.strict]

\* validateToolUserInputResponse goes through the answers in order and stops at
\* the first it refuses.
AnswerValid(record, a, i) ==
  LET answer == a.answers[i]
  IN /\ \A j \in 1..(i - 1) : a.answers[j].id # answer.id
     /\ answer.id \in QuestionIDs(record.questions)
     /\ \A v \in Range(answer.values) :
          Allows(QuestionByID(record.questions, answer.id), v)

Valid(record, a) ==
  /\ a.type = record.type
  /\ CASE a.type = "approval"    -> a.id \in DOMAIN record.options
       [] a.type = "permissions" -> GrantsValid(record, a)
       [] a.type = "elicitation" -> ElicitationWellFormed(a)
       [] a.type = "questions"   -> \A i \in DOMAIN a.answers : AnswerValid(record, a, i)

Payload(record, a) ==
  CASE a.type = "approval"    -> [decision |-> record.options[a.id]]
    [] a.type = "permissions" -> GrantPayload(record, a)
    [] a.type = "elicitation" -> [action |-> a.action, content |-> a.content]
    [] a.type = "questions"   ->
         [answers |-> [id \in Range(AnsweredIDs(a)) |->
                         (CHOOSE answer \in Range(a.answers) : answer.id = id).values]]

\* The values that are registered as sensitive on the way: those of secret
\* questions before the first answer that is refused, and the content of
\* sensitive fields.
Registers(record, a) ==
  IF a.type # record.type THEN {}
  ELSE IF a.type = "questions"
  THEN UNION {Range(a.answers[i].values) :
                i \in {k \in DOMAIN a.answers :
                         /\ \A j \in DOMAIN a.answers : j <= k => AnswerValid(record, a, j)
                         /\ QuestionByID(record.questions, a.answers[k].id).secret}}
  ELSE IF a.type = "elicitation" /\ a.action = "accept" /\ Valid(record, a)
            /\ record.sensitive
  THEN {a.content}
  ELSE {}
=============================================================================
