------------------------------ MODULE Accounts ------------------------------
(***************************************************************************)
(* One person's account: invitation, login and its lock, MFA, password     *)
(* reset and the sessions (src/app.js, services/mfa-service.js,            *)
(* services/organization-service.js).  Handlers run concurrently.  A       *)
(* transaction reads only rows it has locked, so it is one step, at its    *)
(* COMMIT; statements outside a transaction are steps of their own, and so *)
(* is the session store: a handler loads its session first and a session   *)
(* it has changed is written back at the end of the response, whether or   *)
(* not the row is still there.                                             *)
(***************************************************************************)
EXTENDS Integers, FiniteSets

CONSTANTS
    Handlers,
    Sids,           \* session ids; one nobody holds any more counts as new
    Invitations,    \* one organization's invitations to this person's address
    Tokens,         \* password reset tokens
    None,
    FailLimit,      \* failed logins before the lock, 5 in the code
    MaxFails,       \* bound: failures beyond it are not told apart
    MaxClock,       \* bound: TOTP steps of 30 s that pass
    MaxEnrolments   \* bound: MFA setups and enablings

ASSUME AccountsAssumption ==
    /\ None \notin Sids
    /\ FailLimit \in Nat \ {0} /\ MaxFails \in Nat /\ FailLimit <= MaxFails
    /\ MaxClock \in Nat /\ MaxEnrolments \in Nat

VARIABLES
    account,    \* the row of users
    cred,       \* the row of user_mfa_credentials
    clock,      \* the current TOTP step
    token,      \* token[t]: the row of password_reset_tokens
    invitation, \* invitation[i]: the row of user_invitations
    session,    \* session[s]: the row of user_sessions
    job,        \* job[h]: where handler h is
    enrolment,  \* history: how often MFA was set up or enabled
    spent,      \* history: codes accepted since the last of these
    repeated,   \* history: some code was accepted again
    cut         \* history: sessions nobody used when the password changed

people == <<account, invitation>>
mfa == <<cred, clock, enrolment, spent, repeated>>
sessions == <<session, cut>>
accountsVars == <<people, mfa, token, sessions, job>>

Counters == 1..(MaxClock + 1)
Recovery == 0       \* stands for the recovery codes: one of them

Account == [exists: BOOLEAN, mfa: BOOLEAN, mustChange: BOOLEAN,
            fails: 0..MaxFails, locked: {"no", "yes", "over"}]

Credential == [enabled: BOOLEAN, last: Nat, recovery: BOOLEAN]

ASSUME CredentialAssumption == None \notin Credential

Idle == [at |-> "idle", sid |-> None]

Job == [at: {"idle", "invite", "wrong", "right", "rightMfa", "verify", "verified",
             "setup", "enable", "disable", "delete", "change", "renew", "issue",
             "saveAuth", "savePending"},
        sid: Sids \cup {None}]

AccountsTypeOK ==
    /\ account \in Account
    /\ cred \in Credential \cup {None}
    /\ clock \in 0..MaxClock
    /\ token \in [Tokens -> {"absent", "live", "dead"}]
    /\ invitation \in [Invitations -> {"absent", "open", "expired", "accepted", "revoked"}]
    /\ session \in [Sids -> {"none", "auth", "pending"}]
    /\ cut \subseteq Sids
    /\ job \in [Handlers -> Job]
    /\ enrolment \in 0..MaxEnrolments /\ spent \subseteq Counters \cup {Recovery}
    /\ repeated \in BOOLEAN

(* The person is provisioned with a password to be changed, or not there. *)
AccountsInit ==
    /\ \E provisioned \in BOOLEAN :
          account = [exists |-> provisioned, mfa |-> FALSE, mustChange |-> provisioned,
                     fails |-> 0, locked |-> "no"]
    /\ cred = None /\ clock = 0
    /\ token = [t \in Tokens |-> "absent"]
    /\ invitation = [i \in Invitations |-> "absent"]
    /\ session = [s \in Sids |-> "none"]
    /\ job = [h \in Handlers |-> Idle]
    /\ enrolment = 0 /\ spent = {} /\ repeated = FALSE
    /\ cut = {}

GoOn(h, place) == job' = [job EXCEPT ![h].at = place]

Done(h) == job' = [job EXCEPT ![h] = Idle]

Busy == {job[h].sid : h \in Handlers}

(* regenerate: the old session is destroyed; the new one is kept by the    *)
(* handler until its response ends.                                        *)
Regenerate(h, old, save) ==
    \E s \in Sids \ Busy :
       /\ session[s] = "none"
       /\ session' = [q \in Sids |-> IF q = old THEN "none" ELSE session[q]]
       /\ cut' = cut \ {s}
       /\ job' = [job EXCEPT ![h] = [at |-> save, sid |-> s]]

(* The end of the response writes a changed session back. *)
Save(h) ==
    /\ job[h].at \in {"saveAuth", "savePending"}
    /\ session' = [session EXCEPT ![job[h].sid] =
                     IF job[h].at = "saveAuth" THEN "auth" ELSE "pending"]
    /\ Done(h)
    /\ UNCHANGED <<people, mfa, token, cut>>

(* Mutant of DropSessions: the sessions stay. *)
DropNoSessions ==
    /\ cut' = cut \cup {s \in Sids : session[s] = "auth" /\ s \notin Busy}
    /\ UNCHANGED session

(* DELETE FROM user_sessions WHERE userId is this person: a session still  *)
(* waiting for its MFA code has no userId yet.                             *)
DropSessions ==
    /\ session' = [s \in Sids |-> IF session[s] = "auth" THEN "none" ELSE session[s]]
    /\ cut' = cut \cup {s \in Sids : session[s] = "auth" /\ s \notin Busy}

(***************************************************************************)
(* Invitation                                                              *)
(***************************************************************************)

(* createInvitation looks for a user of that address, then inserts. *)
Invite(h) ==
    /\ job[h].at = "idle"
    /\ ~account.exists
    /\ GoOn(h, "invite")
    /\ UNCHANGED <<people, mfa, token, sessions>>

(* A pending invitation is unique, an expired one included. *)
InviteInsert(h, i) ==
    /\ job[h].at = "invite"
    /\ invitation[i] = "absent"
    /\ \A other \in Invitations : invitation[other] \notin {"open", "expired"}
    /\ invitation' = [invitation EXCEPT ![i] = "open"]
    /\ Done(h)
    /\ UNCHANGED <<account, mfa, token, sessions>>

Revoke(i) ==
    /\ invitation[i] \in {"open", "expired"}
    /\ invitation' = [invitation EXCEPT ![i] = "revoked"]
    /\ UNCHANGED <<account, mfa, token, sessions, job>>

(* Mutant of Accept: a user that is there is taken over, not refused. *)
AcceptOver(i) ==
    /\ invitation[i] = "open"
    /\ invitation' = [invitation EXCEPT ![i] = "accepted"]
    /\ account' = [account EXCEPT !.exists = TRUE]
    /\ UNCHANGED <<mfa, token, sessions, job>>

(* users.email is unique: with a user there the transaction rolls back. *)
Accept(i) ==
    /\ invitation[i] = "open"
    /\ ~account.exists
    /\ invitation' = [invitation EXCEPT ![i] = "accepted"]
    /\ account' = [account EXCEPT !.exists = TRUE]
    /\ UNCHANGED <<mfa, token, sessions, job>>

(***************************************************************************)
(* Login                                                                   *)
(***************************************************************************)

(* The row is read; then bcrypt is awaited. *)
LoginRead(h, valid) ==
    /\ job[h].at = "idle"
    /\ account.exists /\ account.locked # "yes"
    /\ GoOn(h, IF ~valid THEN "wrong" ELSE IF account.mfa THEN "rightMfa" ELSE "right")
    /\ UNCHANGED <<people, mfa, token, sessions>>

(* Failures, as far as they are counted. *)
OneMoreFailure(fails) == IF fails < MaxFails THEN fails + 1 ELSE fails

(* The failure is counted on the row of now, which may be locked by then.  *)
LoginFail(h) ==
    /\ job[h].at = "wrong"
    /\ account' = [account EXCEPT
                      !.fails = OneMoreFailure(@),
                      !.locked = IF account.fails + 1 >= FailLimit THEN "yes" ELSE @]
    /\ Done(h)
    /\ UNCHANGED <<invitation, mfa, token, sessions>>

Unlocked == [account EXCEPT !.fails = 0, !.locked = "no"]

(* What was read decides: with MFA the session waits for a code and the    *)
(* failures are kept, without it they are forgotten and so is the lock.    *)
LoginPass(h, old) ==
    /\ \/ /\ job[h].at = "rightMfa"
          /\ Regenerate(h, old, "savePending")
          /\ UNCHANGED account
       \/ /\ job[h].at = "right"
          /\ Regenerate(h, old, "saveAuth")
          /\ account' = Unlocked
    /\ UNCHANGED <<invitation, mfa, token>>

LockOver ==
    /\ account.locked = "yes"
    /\ account' = [account EXCEPT !.locked = "over"]
    /\ UNCHANGED <<invitation, mfa, token, sessions, job>>

(***************************************************************************)
(* MFA                                                                     *)
(***************************************************************************)

Window == {c \in Counters : c - 1 <= clock /\ clock <= c + 1}

(* Mutant of Fresh: the last counter is not compared. *)
FreshAlways(code) ==
    \/ code = Recovery /\ cred.recovery
    \/ code \in Window

(* A counter of the window after the last one used, or a recovery code     *)
(* that is still there.                                                    *)
Fresh(code) ==
    \/ code = Recovery /\ cred.recovery
    \/ code \in Window /\ code > cred.last

(* verifyMfaLogin: an enabled account and its credential are locked, the   *)
(* code is used up.                                                        *)
Accepted(code) ==
    /\ account.mfa /\ cred # None
    /\ Fresh(code)
    /\ cred' = IF code = Recovery THEN [cred EXCEPT !.recovery = FALSE]
               ELSE [cred EXCEPT !.last = code]
    /\ spent' = spent \cup {code}
    /\ repeated' = (repeated \/ code \in spent)
    /\ UNCHANGED <<clock, enrolment>>

VerifyBegin(h, s) ==
    /\ job[h].at = "idle"
    /\ session[s] = "pending"
    /\ job' = [job EXCEPT ![h] = [at |-> "verify", sid |-> s]]
    /\ UNCHANGED <<people, mfa, token, sessions>>

Verify(h) ==
    /\ job[h].at = "verify"
    /\ \E code \in Counters \cup {Recovery} : Accepted(code)
    /\ GoOn(h, "verified")
    /\ UNCHANGED <<people, token, sessions>>

VerifyEnd(h) ==
    /\ job[h].at = "verified"
    /\ Regenerate(h, job[h].sid, "saveAuth")
    /\ account' = Unlocked
    /\ UNCHANGED <<invitation, mfa, token>>

(* A request of a logged-in session.  Until the initial password has been  *)
(* changed the MFA handlers and reauth refuse it; a page, logout and the   *)
(* csrf token do not.  Reauth, and a page, change nothing but the session. *)
Request(h, s, place) ==
    /\ job[h].at = "idle"
    /\ session[s] = "auth" /\ account.exists
    /\ place = "change" => account.mustChange
    /\ place \in {"setup", "enable", "disable"} => ~account.mustChange
    /\ job' = [job EXCEPT ![h] = [at |-> place, sid |-> s]]
    /\ UNCHANGED <<people, mfa, token, sessions>>

Enrol ==
    /\ enrolment < MaxEnrolments
    /\ enrolment' = enrolment + 1
    /\ spent' = {}
    /\ UNCHANGED <<clock, repeated>>

Setup(h) ==
    /\ job[h].at = "setup"
    /\ Enrol
    /\ cred' = [enabled |-> FALSE, last |-> 0, recovery |-> FALSE]
    /\ account' = [account EXCEPT !.mfa = FALSE]
    /\ Done(h)
    /\ UNCHANGED <<invitation, token, sessions>>

(* Mutant of Enable: the credential is not looked for. *)
EnableAnyway(h) ==
    /\ job[h].at = "enable"
    /\ Enrol
    /\ cred' = IF cred = None THEN None
               ELSE [enabled |-> TRUE, last |-> 0, recovery |-> TRUE]
    /\ account' = [account EXCEPT !.mfa = TRUE]
    /\ GoOn(h, "saveAuth")
    /\ UNCHANGED <<invitation, token, sessions>>

(* enableMfa does not ask whether the credential is enabled already, and   *)
(* forgets the last counter.                                               *)
Enable(h) ==
    /\ job[h].at = "enable"
    /\ cred # None /\ Enrol
    /\ cred' = [enabled |-> TRUE, last |-> 0, recovery |-> TRUE]
    /\ account' = [account EXCEPT !.mfa = TRUE]
    /\ GoOn(h, "saveAuth")
    /\ UNCHANGED <<invitation, token, sessions>>

(* disableMfa verifies in a transaction of its own ... *)
Disable(h) ==
    /\ job[h].at = "disable"
    /\ \E code \in Counters \cup {Recovery} : Accepted(code)
    /\ GoOn(h, "delete")
    /\ UNCHANGED <<people, token, sessions>>

(* ... and deletes in another. *)
Delete(h) ==
    /\ job[h].at = "delete"
    /\ cred' = None
    /\ account' = [account EXCEPT !.mfa = FALSE]
    /\ GoOn(h, "saveAuth")
    /\ UNCHANGED <<invitation, clock, enrolment, spent, repeated, token, sessions>>

(***************************************************************************)
(* Password                                                                *)
(***************************************************************************)

(* The initial password is changed under the lock of the user ... *)
Change(h) ==
    /\ job[h].at = "change"
    /\ account.mustChange
    /\ account' = [Unlocked EXCEPT !.mustChange = FALSE]
    /\ DropSessions
    /\ GoOn(h, "renew")
    /\ UNCHANGED <<invitation, mfa, token>>

(* ... and the session is renewed after the COMMIT. *)
Renew(h) ==
    /\ job[h].at = "renew"
    /\ Regenerate(h, job[h].sid, "saveAuth")
    /\ UNCHANGED <<people, mfa, token>>

(* One statement uses up the tokens that are there ... *)
ResetRequest(h) ==
    /\ job[h].at = "idle"
    /\ account.exists
    /\ token' = [t \in Tokens |-> IF token[t] = "live" THEN "dead" ELSE token[t]]
    /\ GoOn(h, "issue")
    /\ UNCHANGED <<people, mfa, sessions>>

(* ... and the next inserts a new one. *)
ResetIssue(h, t) ==
    /\ job[h].at = "issue"
    /\ token[t] = "absent"
    /\ token' = [token EXCEPT ![t] = "live"]
    /\ Done(h)
    /\ UNCHANGED <<people, mfa, sessions>>

ResetConfirm(t) ==
    /\ token[t] = "live"
    /\ token' = [token EXCEPT ![t] = "dead"]
    /\ account' = [Unlocked EXCEPT !.mustChange = FALSE]
    /\ DropSessions
    /\ UNCHANGED <<invitation, mfa, job>>

(***************************************************************************)

Logout(s) ==
    /\ session[s] = "auth"
    /\ session' = [session EXCEPT ![s] = "none"]
    /\ UNCHANGED <<people, mfa, token, cut, job>>

(* The request is refused (a wrong code, an account gone into another      *)
(* state, MFA to be enrolled or asked for on the HTML form, a duplicate    *)
(* key) or its process fails: what is not committed is rolled back.        *)
Break(h) ==
    /\ job[h].at # "idle"
    /\ Done(h)
    /\ UNCHANGED <<people, mfa, token, sessions>>

Tick ==
    /\ clock < MaxClock
    /\ clock' = clock + 1
    /\ UNCHANGED <<people, cred, enrolment, spent, repeated, token, sessions, job>>

Expire ==
    /\ \/ \E t \in Tokens :
             /\ token[t] = "live"
             /\ token' = [token EXCEPT ![t] = "dead"]
             /\ UNCHANGED <<invitation, session>>
       \/ \E i \in Invitations :
             /\ invitation[i] = "open"
             /\ invitation' = [invitation EXCEPT ![i] = "expired"]
             /\ UNCHANGED <<token, session>>
       \/ \E s \in Sids :
             /\ session[s] # "none"
             /\ session' = [session EXCEPT ![s] = "none"]
             /\ UNCHANGED <<token, invitation>>
    /\ UNCHANGED <<account, mfa, cut, job>>

AccountsNext ==
    \/ \E h \in Handlers :
          \/ Save(h) \/ Invite(h) \/ LoginFail(h) \/ Verify(h) \/ VerifyEnd(h)
          \/ Setup(h) \/ Enable(h) \/ Disable(h) \/ Delete(h) \/ Change(h) \/ Renew(h)
          \/ ResetRequest(h) \/ Break(h)
          \/ \E valid \in BOOLEAN : LoginRead(h, valid)
          \/ \E old \in Sids \cup {None} : LoginPass(h, old)
          \/ \E i \in Invitations : InviteInsert(h, i)
          \/ \E t \in Tokens : ResetIssue(h, t)
          \/ \E s \in Sids : \/ VerifyBegin(h, s)
                             \/ \E place \in {"setup", "enable", "disable", "change", "saveAuth"} :
                                   Request(h, s, place)
    \/ \E i \in Invitations : Revoke(i) \/ Accept(i)
    \/ \E t \in Tokens : ResetConfirm(t)
    \/ \E s \in Sids : Logout(s)
    \/ LockOver \/ Tick \/ Expire

AccountsSpec == AccountsInit /\ [][AccountsNext]_accountsVars

(***************************************************************************)
(* Properties                                                              *)
(***************************************************************************)

(* A changed password ends the person's sessions: one that no request was  *)
(* using at that moment is never valid again.  (One in use is written back *)
(* by its request, and a login whose row was read before goes on.)         *)
IdleSessionsEnd == \A s \in cut : session[s] = "none"

(* Within one enrolment no TOTP step and no recovery code is accepted      *)
(* twice, by whatever logins and disablings run at once.                   *)
CodesAcceptedOnce == ~repeated

(* Where MFA is demanded there is an enabled credential to meet it:        *)
(* otherwise no code could ever be accepted and the person stays outside.  *)
MfaCanBeMet == account.mfa => cred # None /\ cred.enabled

(* Invitations to one address are accepted once together, and never for a  *)
(* person who is there already, although the look for the user and the     *)
(* insertion of an invitation are separate statements.                     *)
OneAcceptance ==
    /\ Cardinality({i \in Invitations : invitation[i] = "accepted"}) <= 1
    /\ \A i \in Invitations : invitation[i] = "accepted" => account.exists /\ ~account.mustChange

=============================================================================
