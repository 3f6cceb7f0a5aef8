---------------------------- MODULE ActionBuilders ----------------------------
(***************************************************************************)
(* The Go SDK's helpers that make a response from a pending action event   *)
(* (sdk/go/actions.go).  A builder either returns a response or an error:  *)
(* here the set of the responses it returns, of one element or none.  The  *)
(* event (sdk/go/pending_events.go) carries the display as it was sent.    *)
(***************************************************************************)
EXTENDS PendingRequests

\* ApprovalRequested.Choose: the first option with the id decides.
Choose(display, id) ==
  {Approval(id) : o \in {p \in Range(display.options) : p.id = id /\ p.selectable}}

\* chooseByKind, for Approve, Deny and Cancel: the only selectable one.
ChooseByKind(display, wire) ==
  LET matched == {i \in DOMAIN display.options :
                    display.options[i].wire = wire /\ display.options[i].selectable}
  IN {Approval(display.options[i].id) : i \in {k \in matched : matched = {k}}}

Approve(display) == ChooseByKind(display, "accept")
DenyApproval(display) == ChooseByKind(display, "decline")
CancelApproval(display) == ChooseByKind(display, "cancel")

-----------------------------------------------------------------------------
\* A mutant of GrantableIDs: whatever is requested.
RequestedIDs(display) == [i \in DOMAIN display.atoms |-> display.atoms[i].id]

\* PermissionsRequested.grant: no ids stand for all that can be granted.
GrantableIDs(display) ==
  LET grantable == Among(display.atoms, {atom \in Range(display.atoms) : atom.grantable})
  IN [i \in DOMAIN grantable |-> grantable[i].id]

Grant(display, scope, ids, strict) ==
  LET chosen == IF ids = << >> THEN GrantableIDs(display) ELSE ids
  IN {Permissions(chosen, scope, strict) :
        x \in {y \in {chosen} : Range(y) \subseteq Range(GrantableIDs(display))}}

GrantTurn(display, ids)    == Grant(display, "turn", ids, TRUE)
GrantSession(display, ids) == Grant(display, "session", ids, TRUE)
GrantTurnRelaxed(display, ids)    == Grant(display, "turn", ids, FALSE)
GrantSessionRelaxed(display, ids) == Grant(display, "session", ids, FALSE)

\* PermissionsRequested.Deny
DenyPermissions(display) == {Permissions(<< >>, "turn", FALSE)}

-----------------------------------------------------------------------------
\* StructuredInputRequested: Submit checks the values against the fields of
\* the schema, which must be one it supports, and encodes them, whatever their
\* size; SubmitJSON sends any text.
Submit(display, content) ==
  {Elicitation("accept", content) :
     c \in {d \in {content} : display.supported /\ d \notin NotJSON \cup {NoContent}}}
SubmitJSON(display, content) == {Elicitation("accept", content)}
CancelInput(display) == {Elicitation("cancel", NoContent)}

\* UserInputRequested.Answer looks at the ids of the questions only.
Answer(display, answers) ==
  {Answers(a) : a \in {b \in {answers} :
     \A i \in DOMAIN b : b[i].id \in QuestionIDs(display.questions)}}
=============================================================================
