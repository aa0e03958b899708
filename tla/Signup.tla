-------------------------------- MODULE Signup --------------------------------
(***************************************************************************)
(* examples/110-testing(-sync): RegisterUser creates a user and dispatches *)
(* SendWelcomeEmail through a LateBoundSender, which works only once       *)
(* build_mediator has bound it.  On the event loop other requests run      *)
(* while a mail is being sent; the mailer may fail, and a caller may be    *)
(* cancelled there.  Nothing takes the user back.                          *)
(***************************************************************************)
EXTENDS Naturals, FiniteSets

CONSTANTS
  Signups,   \* RegisterUser requests
  Lookups,   \* GetUser requests
  LookedFor  \* lookup -> the user id it asks for

ASSUME SignupAssumption == IsFiniteSet(Signups) /\ LookedFor \in [Lookups -> Nat]

VARIABLES
  twin,    \* "async" or "sync"
  bound,   \* the sender has its mediator
  userOf,  \* signup -> the id of its user in UserRepository, or 0
  mails,   \* the user ids the mailer has accepted a mail for
  signup,  \* signup -> "idle", "mailing", "registered" or how it failed
  lookup   \* lookup -> "idle", or how it last ended: "found", "UserNotFound"

signupVars == <<twin, bound, userOf, mails, signup, lookup>>

Users == {userOf[s] : s \in Signups} \ {0}

SignupInit ==
  /\ twin \in {"async", "sync"} /\ bound = FALSE
  /\ userOf = [s \in Signups |-> 0] /\ mails = {}
  /\ signup = [s \in Signups |-> "idle"]
  /\ lookup = [g \in Lookups |-> "idle"]

\* The number UserRepository.create gives: _next_id counts the users created.
NextUserId_Signups == Cardinality({s \in Signups : signup[s] = "registered"}) + 1
NextUserId == Cardinality(Users) + 1

\* build_mediator has constructed the mediator and binds the sender to it.
BindSender == bound' = TRUE /\ ~bound /\ UNCHANGED <<twin, userOf, mails, signup, lookup>>

\* How SendWelcomeEmail ends: the mailer accepts the mail or raises.
Mailed(s, user) ==
  /\ mails' = mails \cup {user} /\ signup' = [signup EXCEPT ![s] = "registered"]
MailFails(s) == UNCHANGED mails /\ signup' = [signup EXCEPT ![s] = "mail failed"]

\* LateBoundSender.send before bind.
SendUnbound(s) ==
  /\ ~bound /\ UNCHANGED mails /\ signup' = [signup EXCEPT ![s] = "RuntimeError"]

\* RegisterUserHandler up to its dispatch; the synchronous one sends the mail
\* in the same step.
SignUp(s) ==
  /\ signup[s] = "idle"
  /\ userOf' = [userOf EXCEPT ![s] = NextUserId]
  /\ \/ SendUnbound(s)
     \/ bound /\ twin = "async" /\ UNCHANGED mails
        /\ signup' = [signup EXCEPT ![s] = "mailing"]
     \/ bound /\ twin = "sync" /\ (Mailed(s, NextUserId) \/ MailFails(s))
  /\ UNCHANGED <<twin, bound, lookup>>

\* The awaited dispatch ends; a cancelled caller does not know whether the
\* mailer, an external service, had taken the mail.
MailEnds(s) ==
  /\ signup[s] = "mailing"
  /\ \/ Mailed(s, userOf[s])
     \/ MailFails(s)
     \/ /\ signup' = [signup EXCEPT ![s] = "cancelled"]
        /\ \E reached \in BOOLEAN :
             mails' = IF reached THEN mails \cup {userOf[s]} ELSE mails
  /\ UNCHANGED <<twin, bound, userOf, lookup>>

GetsUser(g) ==
  /\ lookup' = [lookup EXCEPT ![g] =
       IF LookedFor[g] \in Users THEN "found" ELSE "UserNotFound"]
  /\ UNCHANGED <<twin, bound, userOf, mails, signup>>

SignupNext ==
  \/ BindSender
  \/ \E s \in Signups : SignUp(s) \/ MailEnds(s)
  \/ \E g \in Lookups : GetsUser(g)

SignupSpec == SignupInit /\ [][SignupNext]_signupVars

SignupTypeOK ==
  /\ twin \in {"async", "sync"} /\ bound \in BOOLEAN
  /\ userOf \in [Signups -> 0 .. Cardinality(Signups)]
  /\ mails \subseteq Users
  /\ signup \in [Signups -> {"idle", "mailing", "registered", "mail failed",
                             "cancelled", "RuntimeError"}]
  /\ lookup \in [Lookups -> {"idle", "found", "UserNotFound"}]

\* Every request that got as far as create has a user of its own, whatever
\* became of its mail (RegisterUserHandler 148-151): overlapping signups never
\* share an id, and a registered user has been mailed.
SignupsKeepTheirUsers ==
  /\ \A s \in Signups : signup[s] # "idle" => userOf[s] # 0
  /\ \A s, t \in Signups : s # t /\ userOf[s] # 0 => userOf[s] # userOf[t]
  /\ \A s \in Signups : signup[s] = "registered" => userOf[s] \in mails

===============================================================================
