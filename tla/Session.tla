------------------------------ MODULE Session ------------------------------
(***************************************************************************)
(* Who is signed in, as one tab of the web client sees it: the session in  *)
(* the store that all tabs share, the gate of the page (AuthGate), which   *)
(* keeps a copy of it, and the profile the user menu shows (useMe), which  *)
(* it reads from the API with the token of the moment.  The listeners of   *)
(* a tab hear of the changes the tab makes itself, not of the others'.     *)
(*                                                                         *)
(* Leaving a page does not stop its login: the answer still replaces the   *)
(* session.  One-click logins, which the API refuses to users of another   *)
(* role than the page's, are logins by password that happen to match.      *)
(***************************************************************************)
EXTENDS Naturals, FiniteSets

CONSTANTS
    User, Nobody,
    Role, RoleOf,   \* the role of each user, that of the page as well
    MaxReads,       \* bound on the reads of the profile under way, per user: more merge
    MaxLogins       \* bound on the logins under way

ASSUME SessionAssumption ==
    /\ Nobody \notin User /\ "home" \notin Role
    /\ RoleOf \in [User -> Role]
    /\ MaxReads \in Nat \ {0} /\ MaxLogins \in Nat

VARIABLES
    stored,     \* the session in localStorage
    page,       \* the route: a role's page, or one that needs no session
    gate,       \* the session state of AuthGate, while a page is mounted
    me,         \* the profile the menu shows
    reads,      \* reads of the profile under way, by the user of their token
    logins,     \* logins under way: the role of their page, and if it was left
    elsewhere,  \* history: another tab has changed the store since this one did
    late,       \* history: a read for somebody else was under way at the last change
    failed      \* history: a read has failed since the last change

tellings == <<elsewhere, late, failed>>
sessionVars == <<stored, page, gate, me, reads, logins, tellings>>

Signed == User \cup {Nobody}
Login == [role : Role, gone : BOOLEAN]
NoReads == [u \in User |-> 0]
ReadAs(r, u) == IF u \in User /\ r[u] < MaxReads THEN [r EXCEPT ![u] = @ + 1] ELSE r
Mounted(p) == p # "home"
\* The button of the form is disabled while a login of this page is under way.
Loading == \E l \in logins : ~l.gone
\* AuthGate shows the page instead of the form.
Admitted == gate \in User /\ RoleOf[gate] = page

\* A tab is opened; a page that is loaded again reads the store, and the profile.
SessionInit ==
    /\ stored \in Signed
    /\ page = "home" /\ gate = Nobody /\ me = Nobody
    /\ reads = ReadAs(NoReads, stored)
    /\ logins = {}
    /\ elsewhere = FALSE /\ late = FALSE /\ failed = FALSE

Reload ==
    /\ gate' = IF Mounted(page) THEN stored ELSE Nobody
    /\ me' = Nobody
    /\ reads' = ReadAs(NoReads, stored)
    /\ logins' = {}
    /\ elsewhere' = FALSE /\ late' = FALSE /\ failed' = FALSE
    /\ UNCHANGED <<stored, page>>

\* The listeners: the gate takes the session over, the menu drops its profile or
\* reads it again.  Mutant: they are not called.
Notified_Nobody(s) == UNCHANGED <<gate, me, reads>>
Notified(s) ==
    /\ gate' = IF Mounted(page) THEN s ELSE gate
    /\ me' = IF s = Nobody THEN Nobody ELSE me
    /\ reads' = ReadAs(reads, s)

\* auth.setSession and auth.clear.
ChangeTo(s) ==
    /\ stored' = s
    /\ Notified(s)
    /\ elsewhere' = FALSE
    /\ late' = \E u \in User \ {s} : reads[u] > 0
    /\ failed' = FALSE

\* The gate of the page that is left is unmounted, and that of the other reads the store.
Navigate(p) ==
    /\ p # page
    /\ page' = p
    /\ gate' = IF Mounted(p) THEN stored ELSE Nobody
    /\ logins' = {[l EXCEPT !.gone = TRUE] : l \in logins}
    /\ UNCHANGED <<stored, me, reads, tellings>>

\* submitLogin and submitDemoLogin.
SubmitLogin ==
    /\ Mounted(page) /\ ~Admitted /\ ~Loading
    /\ Cardinality(logins) < MaxLogins
    /\ logins' = logins \cup {[role |-> page, gone |-> FALSE]}
    /\ UNCHANGED <<stored, page, gate, me, reads, tellings>>

\* acceptSession: whoever belongs to another page signs everybody out.
LoginAnswered(l, u) ==
    /\ l \in logins
    /\ logins' = logins \ {l}
    /\ ChangeTo(IF RoleOf[u] = l.role THEN u ELSE Nobody)
    /\ UNCHANGED page

\* Bad credentials, a disabled demo, or no answer.
LoginFailed(l) ==
    /\ l \in logins
    /\ logins' = logins \ {l}
    /\ UNCHANGED <<stored, page, gate, me, reads, tellings>>

\* "Switch user" on the form, and "Sign out" in the menu, which is there if the
\* store had a session when it was drawn.
SignOut ==
    /\ \/ gate \in User /\ ~Admitted
       \/ stored \in User \/ elsewhere
    /\ ChangeTo(Nobody)
    /\ UNCHANGED <<page, logins>>

\* The menu is opened without a profile.
OpenMenu ==
    /\ me = Nobody
    /\ stored \in User /\ reads[stored] < MaxReads
    /\ reads' = ReadAs(reads, stored)
    /\ UNCHANGED <<stored, page, gate, me, logins, tellings>>

\* GET /me: the profile of the user of the token, whoever is signed in by then.
ReadAnswered(u) ==
    /\ reads[u] > 0
    /\ reads' = [reads EXCEPT ![u] = @ - 1]
    /\ me' = u
    /\ UNCHANGED <<stored, page, gate, logins, tellings>>

\* An expired token, or no answer: the profile shown before is kept.
ReadFailed(u) ==
    /\ reads[u] > 0
    /\ reads' = [reads EXCEPT ![u] = @ - 1]
    /\ failed' = TRUE
    /\ UNCHANGED <<stored, page, gate, me, logins, elsewhere, late>>

\* Another tab signs in or out.
OtherTab(s) ==
    /\ stored' = s
    /\ elsewhere' = TRUE
    /\ UNCHANGED <<page, gate, me, reads, logins, late, failed>>

SessionNext ==
    \/ \E p \in Role \cup {"home"} : Navigate(p)
    \/ SubmitLogin \/ SignOut \/ OpenMenu \/ Reload
    \/ \E l \in logins : LoginFailed(l) \/ \E u \in User : LoginAnswered(l, u)
    \/ \E u \in User : ReadAnswered(u) \/ ReadFailed(u)
    \/ \E s \in Signed : OtherTab(s)

SessionSpec == SessionInit /\ [][SessionNext]_sessionVars

----------------------------------------------------------------------------
\* Type invariant.
SessionTypeOK ==
    /\ stored \in Signed /\ gate \in Signed /\ me \in Signed
    /\ page \in Role \cup {"home"}
    /\ reads \in [User -> 0 .. MaxReads]
    /\ logins \subseteq Login
    /\ elsewhere \in BOOLEAN /\ late \in BOOLEAN /\ failed \in BOOLEAN

(***************************************************************************)
(* As long as no other tab has changed the session: the gate of the page   *)
(* is that of the session its requests are sent with; and a menu at rest   *)
(* shows that user's profile or none, unless a read failed since the last  *)
(* change, or one for the user before was under way then.                  *)
(***************************************************************************)
OneIdentity ==
    ~elsewhere =>
        /\ Mounted(page) => gate = stored
        /\ reads = NoReads /\ ~late /\ ~failed => me \in {Nobody, stored}
=============================================================================
