------------------------------ MODULE Accounts -----------------------------
(***************************************************************************)
(* Signing up.  Whether email and phone are free is asked before the       *)
(* password is hashed, outside the transaction, so that two requests can   *)
(* both find them free; then only the unique indexes stand between them,   *)
(* and the one that comes second is answered with an internal error        *)
(* instead of "email or phone in use".  A driver's profile is a second     *)
(* row, with a unique licence number of its own.                           *)
(***************************************************************************)
EXTENDS Naturals

CONSTANTS
    Account,    \* ids of users there may come to be
    NoAccount,
    Form,       \* [phone, email, license, role] of the forms sent
    NoForm,
    Signup      \* requests under way at a time

ASSUME AccountsAssumption == NoAccount \notin Account /\ NoForm \notin Form

VARIABLES
    user,       \* users: the form an account was made of
    profile,    \* drivers: the accounts that have a row
    signup      \* the requests and their transactions

accountsVars == <<user, profile, signup>>

SignupRecord ==
    [pc : {"idle", "check", "insert", "profile", "commit", "done"},
     form : Form \cup {NoForm}, account : Account \cup {NoAccount}, profiled : BOOLEAN,
     answer : {"none", "ok", "conflict", "error"}]
NoSignup == [pc |-> "idle", form |-> NoForm, account |-> NoAccount, profiled |-> FALSE,
             answer |-> "none"]

AccountsInit ==
    /\ user = [a \in Account |-> NoForm]
    /\ profile = {}
    /\ signup = [s \in Signup |-> NoSignup]

Existing == {a \in Account : user[a] # NoForm}
NoRowWritten == UNCHANGED <<user, profile>>
SignupDone(s, answer) ==
    signup' = [signup EXCEPT ![s] = [NoSignup EXCEPT !.pc = "done", !.answer = answer]]

Shares(f, g) == f.phone = g.phone \/ f.email = g.email
\* Mutant: a table without the unique columns.
Taken_NoIndex(f) == FALSE
Taken(f) == \E a \in Existing : Shares(user[a], f)
LicenseTaken(f) == \E a \in profile : user[a].license = f.license
\* Requests the inserted row of which is not committed, so that nobody sees it.
Open(s) == {o \in Signup \ {s} : signup[o].pc \in {"profile", "commit"}}

SendForm(s, f) ==
    /\ signup[s].pc = "idle"
    /\ signup' = [signup EXCEPT ![s].pc = "check", ![s].form = f]
    /\ NoRowWritten

\* The check up front.  Hashing the password follows it.
CheckForm(s) ==
    /\ signup[s].pc = "check"
    /\ IF \E a \in Existing : Shares(user[a], signup[s].form)
       THEN SignupDone(s, "conflict")
       ELSE signup' = [signup EXCEPT ![s].pc = "insert"]
    /\ NoRowWritten

InsertUser(s) ==
    LET f == signup[s].form IN
    /\ signup[s].pc = "insert"
    /\ \A o \in Open(s) : ~Shares(signup[o].form, f)
    /\ \/ Taken(f) /\ SignupDone(s, "error")
       \/ \E a \in Account \ Existing :
             /\ ~Taken(f)
             /\ \A o \in Signup : signup[o].account # a
             /\ signup' = [signup EXCEPT ![s].account = a, ![s].pc =
                              IF f.role = "driver" THEN "profile" ELSE "commit"]
    /\ NoRowWritten

InsertProfile(s) ==
    LET f == signup[s].form IN
    /\ signup[s].pc = "profile"
    /\ \A o \in Open(s) : signup[o].profiled => signup[o].form.license # f.license
    /\ IF LicenseTaken(f)
       THEN SignupDone(s, "error")
       ELSE signup' = [signup EXCEPT ![s].profiled = TRUE, ![s].pc = "commit"]
    /\ NoRowWritten

\* COMMIT and the token: when the token cannot be signed, the account is there
\* all the same, and the rollback that follows has nothing to undo.
CommitSignup(s) ==
    LET a == signup[s].account IN
    /\ signup[s].pc = "commit"
    /\ user' = [user EXCEPT ![a] = signup[s].form]
    /\ profile' = IF signup[s].profiled THEN profile \cup {a} ELSE profile
    /\ \E answer \in {"ok", "error"} : SignupDone(s, answer)

FailSignup(s) ==
    /\ signup[s].pc \notin {"idle", "done"}
    /\ SignupDone(s, "error")
    /\ NoRowWritten

SignupAnswered(s) ==
    /\ signup[s].pc = "done"
    /\ signup' = [signup EXCEPT ![s] = NoSignup]
    /\ NoRowWritten

AccountsNext ==
    \E s \in Signup :
        \/ \E f \in Form : SendForm(s, f)
        \/ CheckForm(s) \/ InsertUser(s) \/ InsertProfile(s)
        \/ CommitSignup(s) \/ FailSignup(s) \/ SignupAnswered(s)

AccountsSpec == AccountsInit /\ [][AccountsNext]_accountsVars

----------------------------------------------------------------------------
\* Type invariant.
AccountsTypeOK ==
    /\ user \in [Account -> Form \cup {NoForm}]
    /\ profile \in SUBSET Account
    /\ signup \in [Signup -> SignupRecord]

(***************************************************************************)
(* However many requests passed the check together, no two accounts share  *)
(* a phone or an email, the phone alone being what login looks for; and    *)
(* whatever fails between the two insertions, a driver's account has its   *)
(* profile, without which it could log in but never go online.             *)
(***************************************************************************)
OneWholeAccount ==
    /\ \A a, b \in Existing : Shares(user[a], user[b]) => a = b
    /\ profile = {a \in Existing : user[a].role = "driver"}
=============================================================================
