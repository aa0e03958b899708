----------------------------- MODULE VaultThreads -----------------------------
(***************************************************************************)
(* examples/075-authorization-sync: the same vault with synchronous        *)
(* routes, which the web framework runs on a pool of threads.  Calls       *)
(* overlap between the checks, the load of a document and its save.  The   *)
(* asynchronous vault, where a call is one step, is its specification.     *)
(***************************************************************************)
EXTENDS Integers, Sequences

CONSTANTS
  Calls, Op, Document, Token, Bearer, Cli, Documents, Owner, Nobody  \* as in Vault

VARIABLES
  body, audit, reply,  \* as in Vault
  vaultPc              \* call -> "idle", "admitted", "loaded" or "replied"

vaultVars == <<body, audit, reply, vaultPc>>

Original == "original"
NoReply == [status |-> -1, shows |-> {}]

VaultInit ==
  /\ body = [d \in Documents |-> Original]
  /\ audit = [c \in Calls |-> <<>>]
  /\ reply = [c \in Calls |-> NoReply]
  /\ vaultPc = [c \in Calls |-> "idle"]

(* from_http, from_cli.                                                    *)
Principal(c) == IF c \in Cli \cup Bearer THEN Token[c] ELSE Nobody
Authenticated(c) == Principal(c) # Nobody

-----------------------------------------------------------------------------
(* The marker bases by which a request type selects its behaviors, and the *)
(* behaviors, outermost first: whether each lets the call through.         *)
RequiresRole(c) == Op[c] = "list"
MutatingCommand(c) == Op[c] = "edit"
HasMfa_Always(c) == TRUE
HasMfa(c) == MutatingCommand(c) => Principal(c).mfa
HasRole(c) == RequiresRole(c) => Principal(c).admin

FirstDenial(c) ==
  IF ~Authenticated(c) THEN "unauthenticated"
  ELSE IF ~HasRole(c) THEN "role"
  ELSE IF ~HasMfa(c) THEN "mfa" ELSE "none"

CanEdit_Anyone(c) == TRUE
CanEdit(c) == Principal(c).id = Owner[Document[c]] \/ Principal(c).admin

(* create_app's exception handlers, and send_as_cli.                       *)
HttpStatus == [ok |-> 200, unauthenticated |-> 401, forbidden |-> 403, missing |-> 404]
ExitCode == [ok |-> 0, unauthenticated |-> 13, forbidden |-> 13, missing |-> 3]

Reply(c, outcome, shows) ==
  /\ vaultPc' = [vaultPc EXCEPT ![c] = "replied"]
  /\ reply' = [reply EXCEPT ![c] =
                 [status |-> IF c \in Cli THEN ExitCode[outcome] ELSE HttpStatus[outcome],
                  shows |-> shows]]

(* A command-line call has a process, and a store, of its own.             *)
Store(c) == IF c \in Cli THEN [d \in Documents |-> Original] ELSE body

Check(c) ==
  /\ vaultPc[c] = "idle"
  /\ IF FirstDenial(c) = "none"
     THEN vaultPc' = [vaultPc EXCEPT ![c] = "admitted"] /\ UNCHANGED <<audit, reply>>
     ELSE /\ audit' = [audit EXCEPT ![c] = Append(@, FirstDenial(c))]
          /\ Reply(c, IF Authenticated(c) THEN "forbidden" ELSE "unauthenticated", {})
  /\ UNCHANGED body

ViewDocument(c) ==
  /\ vaultPc[c] = "admitted" /\ Op[c] = "view"
  /\ IF Document[c] \in Documents
     THEN Reply(c, "ok", {<<Document[c], Store(c)[Document[c]]>>})
     ELSE Reply(c, "missing", {})
  /\ UNCHANGED <<body, audit>>

ListAllDocuments(c) ==
  /\ vaultPc[c] = "admitted" /\ Op[c] = "list"
  /\ Reply(c, "ok", {<<d, Store(c)[d]>> : d \in Documents})
  /\ UNCHANGED <<body, audit>>

(* EditDocumentHandler loads the document once and hands what it loaded to *)
(* the authorizer ...                                                      *)
LoadDocument(c) ==
  /\ vaultPc[c] = "admitted" /\ Op[c] = "edit"
  /\ IF Document[c] \notin Documents THEN Reply(c, "missing", {})
     ELSE IF ~CanEdit(c) THEN Reply(c, "forbidden", {})
     ELSE vaultPc' = [vaultPc EXCEPT ![c] = "loaded"] /\ UNCHANGED reply
  /\ UNCHANGED <<body, audit>>

(* ... and saves it with the new body: nothing else of it can have changed.*)
SaveDocument_Unshown(c) ==
  /\ vaultPc[c] = "loaded"
  /\ body' = IF c \in Cli THEN body ELSE [body EXCEPT ![Document[c]] = c]
  /\ vaultPc' = [vaultPc EXCEPT ![c] = "replied"]
  /\ UNCHANGED <<audit, reply>>
SaveDocument(c) ==
  /\ vaultPc[c] = "loaded"
  /\ body' = IF c \in Cli THEN body ELSE [body EXCEPT ![Document[c]] = c]
  /\ Reply(c, "ok", {<<Document[c], c>>})
  /\ UNCHANGED audit

VaultNext ==
  \E c \in Calls :
    Check(c) \/ ViewDocument(c) \/ ListAllDocuments(c) \/ LoadDocument(c) \/ SaveDocument(c)
VaultSpec == VaultInit /\ [][VaultNext]_vaultVars

-----------------------------------------------------------------------------
VaultTypeOK ==
  /\ body \in [Documents -> Calls \cup {Original}]
  /\ vaultPc \in [Calls -> {"idle", "admitted", "loaded", "replied"}]
  /\ \A c \in Calls : vaultPc[c] = "replied" <=> reply[c] # NoReply

(* Whatever the threads did in between, what a document says comes from    *)
(* its default or from an edit by an authenticated caller, with the mfa    *)
(* claim, who owns it or is an admin.                                      *)
WritesAreAuthorized ==
  \A d \in Documents : body[d] # Original =>
    LET c == body[d]
    IN  /\ Document[c] = d /\ c \in Bearer /\ Token[c] # Nobody
        /\ Token[c].mfa /\ (Token[c].id = Owner[d] \/ Token[c].admin)

(* A caller learns that a document is missing only past every check its    *)
(* request is subject to, and a call leaves an audit entry exactly when a  *)
(* behavior denied it.                                                     *)
ChecksComeFirst ==
  \A c \in Calls : vaultPc[c] = "replied" =>
    /\ reply[c].status \in {404, 3} =>
         Authenticated(c) /\ (Op[c] = "edit" => Token[c].mfa)
    /\ audit[c] # <<>> <=> FirstDenial(c) # "none"
    /\ Len(audit[c]) <= 1

(* The checks guard what is written and what is told.                      *)
VaultIsGuarded == WritesAreAuthorized /\ ChecksComeFirst

(* The threads answer and write as the asynchronous vault would: each call *)
(* as if it had run in one step, at its load or at its save.               *)
Async == INSTANCE Vault
MirrorsAsyncVault == Async!Spec
===============================================================================
