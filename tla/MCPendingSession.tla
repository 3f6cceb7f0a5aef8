---------------------------- MODULE MCPendingSession ----------------------------
(***************************************************************************)
(* PendingSession for TLC: of each type the requests at and over every     *)
(* limit, with paths inside and outside the working directory, and three   *)
(* secrets, one of them too short to be registered.                        *)
(***************************************************************************)
EXTENDS PendingSession

CONSTANTS in1, in2, out1
CONSTANT Types   \* the types of requests of a run

MCCwdPaths  == {in1, in2}
MCBadTokens == {"/etc"}
MCNotJSON   == {"broken"}
MCTooLarge  == {"huge"}
MCSegments  == {"pin", "key", "pass"}
MCLength    == [s \in MCSegments |-> CASE s = "pin" -> 1 [] s = "key" -> 2 [] s = "pass" -> 3]
MCValues    == MCSegments

Paths == {<< >>, <<in1>>, <<out1>>, <<in1, out1>>, <<out1, in2>>, <<in1, in2, in1, in2>>}

Command(listed, decisions, plain, paths, amendments, size) ==
  [type |-> "command", listed |-> listed, decisions |-> decisions, plain |-> plain,
   paths |-> paths, amendments |-> amendments, size |-> size]
Commands ==
  {Command(FALSE, << >>, plain, paths, amendments, 1) :
     plain \in {0, 1}, paths \in Paths, amendments \in {0, 1}}
  \cup {Command(TRUE, decisions, 0, paths, 0, 1) :
     decisions \in {<< >>, <<"accept">>, <<"amend", "accept">>, <<"cancel", "amend">>,
                    <<"accept", "accept">>, <<"amend", "amend">>,
                    <<"amend", "amend", "amend">>, <<"amend", "amend", "amend", "accept">>},
     paths \in {<< >>, <<out1>>}}
  \cup {Command(FALSE, << >>, 0, << >>, 0, 3)}

Files == {[type |-> "file", grantRoot |-> root, size |-> size] :
            root \in {<< >>, <<in1>>, <<out1>>}, size \in {1, 3}}

FileSystem(entries, read, write) == [entries |-> entries, read |-> read, write |-> write]
PermissionRequests ==
  {[type |-> "permissions", network |-> network, fileSystem |-> fs, root |-> root,
    size |-> 1] :
     network \in {"absent", "on", "off"},
     fs \in {FileSystem(<< >>, << >>, << >>), FileSystem(<<out1>>, <<in1>>, << >>),
             FileSystem(<< >>, << >>, <<in2, out1>>)},
     root \in {FileSystem(<< >>, << >>, << >>), FileSystem(<<in2>>, << >>, <<in1>>)}}

Elicitations ==
  {[type |-> "elicitation", url |-> url, schema |-> schema, sensitive |-> sensitive,
    size |-> 1] :
     url \in {"none", "safe", "unsafe"},
     schema \in {"none", "form", "unsupported", "too_large"}, sensitive \in BOOLEAN}

Question(id, options, other, secret) ==
  [id |-> id, options |-> options, other |-> other, secret |-> secret]
QuestionLists ==
  {<<Question("a", << >>, FALSE, TRUE)>>,
   <<Question("a", << >>, FALSE, TRUE), Question("b", <<"pin">>, FALSE, FALSE)>>,
   <<Question("a", <<"pin">>, TRUE, FALSE), Question("b", <<"pin">>, FALSE, FALSE)>>,
   <<Question("a", <<"pin", "pin">>, FALSE, FALSE)>>,
   <<Question("a", <<"pin", "key", "pass">>, FALSE, FALSE)>>,
   <<Question("a", <<"/etc">>, FALSE, FALSE)>>,
   <<Question("a", << >>, FALSE, FALSE), Question("a", << >>, FALSE, TRUE)>>,
   << >>,
   [i \in 1..3 |-> Question(<<"a", "b", "c">>[i], << >>, FALSE, FALSE)]}
QuestionRequests ==
  {[type |-> "questions", questions |-> questions, size |-> 1] : questions \in QuestionLists}

MCRequests ==
  {r \in Commands \cup Files \cup PermissionRequests \cup Elicitations \cup QuestionRequests :
     r.type \in Types}
\* One question for a secret.
MCNarrated ==
  {r \in QuestionRequests : r.questions = <<Question("a", << >>, FALSE, TRUE)>>}
=============================================================================
