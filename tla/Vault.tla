--------------------------------- MODULE Vault ---------------------------------
(***************************************************************************)
(* examples/075-authorization: documents behind three authorization        *)
(* behaviors and an ownership check in the edit handler, served over HTTP  *)
(* and by a CLI.  No coroutine of it awaits between the dispatch of a      *)
(* request and its end, so the event loop runs each call in one step.      *)
(***************************************************************************)
EXTENDS Integers, Sequences

CONSTANTS
  Calls,      \* requests that reach a boundary
  Op,         \* call -> "view", "list" or "edit"
  Document,   \* call -> the document it names
  Token,      \* call -> what its credential says of the caller, or Nobody
  Bearer,     \* calls whose Authorization header has the Bearer scheme
  Cli,        \* calls of the command line: each a process with a store of its own
  Documents,  \* the documents of default_store
  Owner,      \* document -> its owner
  Nobody      \* no credential

VARIABLES
  body,   \* document -> the call that last saved it, or Original
  audit,  \* call -> the denials recorded for it
  reply   \* call -> its status, and what it was shown

Original == "original"
NoReply == [status |-> -1, shows |-> {}]

Init ==
  /\ body = [d \in Documents |-> Original]
  /\ audit = [c \in Calls |-> <<>>]
  /\ reply = [c \in Calls |-> NoReply]

(* authn: the header's scheme counts, the flag has none.                   *)
Principal(c) == IF c \in Cli \cup Bearer THEN Token[c] ELSE Nobody
Authenticated(c) == Principal(c) # Nobody

(* The marker bases by which a request type selects its behaviors.         *)
RequiresRole(c) == Op[c] = "list"
MutatingCommand(c) == Op[c] = "edit"

(* The behaviors, in the order of the behaviors sequence: what the first   *)
(* to deny the call appends to the audit list.                             *)
RequireAuthentication(c) == IF Authenticated(c) THEN <<>> ELSE <<"unauthenticated">>
RequireRole(c) == IF RequiresRole(c) /\ ~Principal(c).admin THEN <<"role">> ELSE <<>>
RequireMfa(c) == IF MutatingCommand(c) /\ ~Principal(c).mfa THEN <<"mfa">> ELSE <<>>
Denial(c) ==
  IF ~Authenticated(c) THEN RequireAuthentication(c) ELSE RequireRole(c) \o RequireMfa(c)

(* DocumentAuthorizer.                                                     *)
CanEdit(c) == Principal(c).id = Owner[Document[c]] \/ Principal(c).admin

(* The exception handlers of create_app, and the exit codes of the CLI.    *)
HttpStatus == [ok |-> 200, unauthenticated |-> 401, forbidden |-> 403, missing |-> 404]
ExitCode == [ok |-> 0, unauthenticated |-> 13, forbidden |-> 13, missing |-> 3]
Status(c, outcome) == IF c \in Cli THEN ExitCode[outcome] ELSE HttpStatus[outcome]

Reply(c, outcome, shows) ==
  /\ reply[c] = NoReply
  /\ reply' = [reply EXCEPT ![c] = [status |-> Status(c, outcome), shows |-> shows]]

Store(c) == IF c \in Cli THEN [d \in Documents |-> Original] ELSE body

Deny(c) ==
  /\ Denial(c) # <<>>
  /\ Reply(c, IF Authenticated(c) THEN "forbidden" ELSE "unauthenticated", {})
  /\ audit' = [audit EXCEPT ![c] = @ \o Denial(c)]
  /\ UNCHANGED body

ViewDocument(c) ==
  /\ Op[c] = "view" /\ Denial(c) = <<>>
  /\ IF Document[c] \in Documents
     THEN Reply(c, "ok", {<<Document[c], Store(c)[Document[c]]>>})
     ELSE Reply(c, "missing", {})
  /\ UNCHANGED <<body, audit>>

ListAllDocuments(c) ==
  /\ Op[c] = "list" /\ Denial(c) = <<>>
  /\ Reply(c, "ok", {<<d, Store(c)[d]>> : d \in Documents})
  /\ UNCHANGED <<body, audit>>

EditDocument(c) ==
  /\ Op[c] = "edit" /\ Denial(c) = <<>>
  /\ IF Document[c] \notin Documents THEN Reply(c, "missing", {}) /\ UNCHANGED body
     ELSE IF ~CanEdit(c) THEN Reply(c, "forbidden", {}) /\ UNCHANGED body
     ELSE /\ body' = IF c \in Cli THEN body ELSE [body EXCEPT ![Document[c]] = c]
          /\ Reply(c, "ok", {<<Document[c], c>>})
  /\ UNCHANGED audit

Next == \E c \in Calls : Deny(c) \/ ViewDocument(c) \/ ListAllDocuments(c) \/ EditDocument(c)
Spec == Init /\ [][Next]_<<body, audit, reply>>
===============================================================================
