------------------------------ MODULE Sessions ------------------------------
(***************************************************************************)
(* Signing in to the portal and staying signed in: one-time codes of three *)
(* purposes, sessions with a sliding idle timeout under the ceiling of     *)
(* their token, the profile and the password of a user.                    *)
(*                                                                         *)
(* A request is one action, for what it reads no other request can make a  *)
(* difference to before it commits, except where it verifies a code: the   *)
(* row is read, a slow hash is compared, and attempt_count is written back *)
(* as a number the request computed.  A request that is refused without    *)
(* having written anything is no step.                                     *)
(***************************************************************************)
EXTENDS Integers, Sequences, FiniteSets

CONSTANTS
    Users,        \* rows of campaign.users
    Emails,       \* what they may be known by
    FirstEmail,   \* whom each is at first
    Reachable,    \* users with a phone on file when the model begins
    Threads,      \* requests the API serves at the same time
    MaxAttempts,  \* otp_max_attempts
    CodeLife,     \* otp_expiry_minutes
    IdleLimit,    \* session_idle_timeout_minutes
    TokenLife,    \* jwt_access_token_expire_minutes
    Nobody,
    Bounds        \* of a run of the checker: how many codes, sessions, wrong
                  \* answers to a code and edits of accounts may go together

ASSUME SessionsAssumption ==
    /\ FirstEmail \in [Users -> Emails]
    /\ \A u, v \in Users : FirstEmail[u] = FirstEmail[v] => u = v
    /\ Reachable \subseteq Users
    /\ Nobody \notin Users
    /\ IsFiniteSet(Threads)
    /\ {MaxAttempts, CodeLife, IdleLimit, TokenLife} \subseteq Nat \ {0}
    /\ Bounds \subseteq [codes : Nat, sessions : Nat, wrong : Nat, edits : Nat]

Purposes == {"LOGIN_2FA", "PASSWORD_CHANGE", "PASSWORD_RESET"}

VARIABLES
    account,   \* users: email, phone, two_factor_enabled, is_active, and the
               \* code the password was chosen with, 0 for one sent by SMS
    codes,     \* otp_codes, with the wrong answers to each and its uses
    sessions,  \* user_sessions with the claims of the token of each, and the
               \* code it was opened with, 0 for a password alone
    request,   \* the code each thread has read and not yet written back
    bound, edits

vars == <<account, codes, sessions, request, bound, edits>>

Idle == [code |-> 0]

Init ==
    /\ account = [u \in Users |->
           [email |-> FirstEmail[u], phone |-> u \in Reachable,
            two_factor |-> u \in Reachable, active |-> TRUE, password |-> 0]]
    /\ codes = <<>>
    /\ sessions = <<>>
    /\ request = [t \in Threads |-> Idle]
    /\ bound \in Bounds
    /\ edits = 0

Edit == edits < bound.edits /\ edits' = edits + 1 /\ UNCHANGED bound

-----------------------------------------------------------------------------
(* Codes. *)

RequestOtp(u, purpose) ==
    /\ account[u].phone
    /\ Len(codes) < bound.codes
    /\ codes' = Append(codes, [user |-> u, purpose |-> purpose, age |-> 0,
                               attempts |-> 0, consumed |-> FALSE,
                               wrong |-> 0, uses |-> 0])

(* Without the filter on the purpose. *)
VerifiableForAnything(c, purpose) ==
    ~codes[c].consumed /\ codes[c].age <= CodeLife /\ codes[c].attempts < MaxAttempts

Verifiable(c, purpose) ==
    /\ codes[c].purpose = purpose
    /\ ~codes[c].consumed
    /\ codes[c].age <= CodeLife
    /\ codes[c].attempts < MaxAttempts

(* The row is read, and the answer compared with the hash. *)
ReadCode(t, purpose, u) ==
    /\ request[t] = Idle
    /\ \E c \in DOMAIN codes, right \in BOOLEAN :
          /\ Verifiable(c, purpose)
          /\ right \/ codes[c].wrong < bound.wrong
          /\ request' = [request EXCEPT ![t] =
                [code |-> c, purpose |-> purpose, user |-> u, right |-> right,
                 attempts |-> codes[c].attempts]]

Counted(t) == [codes EXCEPT ![request[t].code].attempts = request[t].attempts + 1]
CountedWrong(t) == [Counted(t) EXCEPT ![request[t].code].wrong = @ + 1]
Consumed(t) == [Counted(t) EXCEPT ![request[t].code].consumed = TRUE]
Used(t) == [Consumed(t) EXCEPT ![request[t].code].uses = @ + 1]
Owner(t) == codes[request[t].code].user
Answered(t) == request' = [request EXCEPT ![t] = Idle]

(* A wrong answer without the commit before the 401. *)
WrongCodeRolledBack(t) ==
    /\ request[t] # Idle /\ ~request[t].right
    /\ codes' = [codes EXCEPT ![request[t].code].wrong = @ + 1]
    /\ Answered(t)
    /\ UNCHANGED <<account, sessions>>

(* An attempt that fails is committed all the same. *)
WrongCode(t) ==
    /\ request[t] # Idle /\ ~request[t].right
    /\ codes' = CountedWrong(t)
    /\ Answered(t)
    /\ UNCHANGED <<account, sessions>>

(* The row of the user is read anew, unless the request has it loaded. *)
Inactive(t) == Owner(t) # request[t].user /\ ~account[Owner(t)].active

RightCode(t, purpose) ==
    /\ request[t] # Idle /\ request[t].right
    /\ request[t].purpose = purpose
    /\ Answered(t)

AccountGone(t) ==
    /\ \E p \in Purposes : RightCode(t, p)
    /\ Inactive(t)
    /\ codes' = Consumed(t)
    /\ UNCHANGED <<account, sessions>>

-----------------------------------------------------------------------------
(* Sessions. *)

OpenSession(u, code) ==
    /\ Len(sessions) < bound.sessions
    /\ sessions' = Append(sessions, [user |-> u, sub |-> account[u].email,
                                     by |-> code, idle |-> 0, age |-> 0])

(* Without the ceiling of the token. *)
AliveWhileActive(s) == sessions[s].idle <= IdleLimit
Alive(s) == sessions[s].idle <= IdleLimit /\ sessions[s].age <= TokenLife

(* Every request with a token: committed whatever becomes of the rest. *)
TouchSession(s) ==
    /\ s \in DOMAIN sessions
    /\ Alive(s)
    /\ sessions' = [sessions EXCEPT ![s].idle = 0]

(* The user is whoever has the address the token was made out to. *)
CurrentUser(s) == {u \in Users : account[u].active /\ account[u].email = sessions[s].sub}

-----------------------------------------------------------------------------
(* The endpoints. *)

Login(u) ==
    /\ account[u].active
    /\ IF account[u].two_factor /\ account[u].phone
       THEN RequestOtp(u, "LOGIN_2FA") /\ UNCHANGED sessions
       ELSE OpenSession(u, 0) /\ UNCHANGED codes
    /\ UNCHANGED <<account, request>>

VerifyLoginOtp(t) ==
    /\ ReadCode(t, "LOGIN_2FA", Nobody)
    /\ UNCHANGED <<account, codes, sessions>>

LoggedIn(t) ==
    /\ RightCode(t, "LOGIN_2FA")
    /\ ~Inactive(t)
    /\ codes' = Used(t)
    /\ OpenSession(Owner(t), request[t].code)
    /\ UNCHANGED account

(* GET /auth/me, any other request, and those that fail after the touch.   *)
ReadCurrentUser(s) == TouchSession(s) /\ UNCHANGED <<account, codes, request>>

(* Without the unique constraint on the address. *)
UpdateProfileUnchecked(s) ==
    /\ TouchSession(s)
    /\ \E u \in CurrentUser(s), e \in Emails :
          account' = [account EXCEPT ![u].email = e]
    /\ UNCHANGED <<codes, request>>

UpdateProfile(s) ==
    /\ TouchSession(s)
    /\ \E u \in CurrentUser(s) :
          \/ \E e \in Emails :
                /\ \A v \in Users \ {u} : account[v].email # e
                /\ account' = [account EXCEPT ![u].email = e]
          \/ account' = [account EXCEPT ![u].phone = TRUE]
    /\ UNCHANGED <<codes, request>>

UpdateTwoFactor(s) ==
    /\ TouchSession(s)
    /\ \E u \in CurrentUser(s), enabled \in BOOLEAN :
          /\ enabled => account[u].phone
          /\ account' = [account EXCEPT ![u].two_factor = enabled]
    /\ UNCHANGED <<codes, request>>

RequestPasswordChange(s) ==
    /\ TouchSession(s)
    /\ \E u \in CurrentUser(s) : RequestOtp(u, "PASSWORD_CHANGE")
    /\ UNCHANGED <<account, request>>

ConfirmPasswordChange(t, s) ==
    /\ TouchSession(s)
    /\ \E u \in CurrentUser(s) : ReadCode(t, "PASSWORD_CHANGE", u)
    /\ UNCHANGED <<account, codes>>

(* A new password for whoever is signed in, whomever the code was sent to. *)
PasswordChangedUnmatched(t) ==
    /\ RightCode(t, "PASSWORD_CHANGE")
    /\ ~Inactive(t)
    /\ codes' = Used(t)
    /\ account' = [account EXCEPT ![request[t].user].password = request[t].code]
    /\ UNCHANGED sessions

PasswordChanged(t) ==
    /\ RightCode(t, "PASSWORD_CHANGE")
    /\ Owner(t) = request[t].user
    /\ codes' = Used(t)
    /\ account' = [account EXCEPT ![request[t].user].password = request[t].code]
    /\ UNCHANGED sessions

(* A code of another account: the rollback takes the attempt back as well. *)
CodeOfAnother(t) ==
    /\ RightCode(t, "PASSWORD_CHANGE")
    /\ Owner(t) # request[t].user /\ ~Inactive(t)
    /\ UNCHANGED <<account, codes, sessions>>

ForgotPassword(u) ==
    /\ account[u].active
    /\ RequestOtp(u, "PASSWORD_RESET")
    /\ UNCHANGED <<account, sessions, request>>

ResetPassword(t) ==
    /\ ReadCode(t, "PASSWORD_RESET", Nobody)
    /\ UNCHANGED <<account, codes, sessions>>

PasswordReset(t) ==
    /\ RightCode(t, "PASSWORD_RESET")
    /\ ~Inactive(t)
    /\ codes' = Used(t)
    /\ account' = [account EXCEPT ![Owner(t)].password = request[t].code]
    /\ UNCHANGED sessions

(* An administrator, at PUT /users/{id} and /users/{id}/reset-password. *)
UpdateUser(u) ==
    /\ \/ \E b \in BOOLEAN : account' = [account EXCEPT ![u].active = b]
       \/ account' = [account EXCEPT ![u].phone = TRUE]
    /\ UNCHANGED <<codes, sessions, request>>

ResetUserPassword(u) ==
    /\ account[u].phone
    /\ account' = [account EXCEPT ![u].password = 0]
    /\ UNCHANGED <<codes, sessions, request>>

-----------------------------------------------------------------------------
Older(age, limit) == IF age > limit THEN age ELSE age + 1

(* Time passes; beyond its limit an age says no more than that. *)
Tick ==
    /\ codes' = [c \in DOMAIN codes |->
           [codes[c] EXCEPT !.age = Older(@, CodeLife)]]
    /\ sessions' = [s \in DOMAIN sessions |->
           [sessions[s] EXCEPT !.idle = Older(@, IdleLimit), !.age = Older(@, TokenLife)]]
    /\ UNCHANGED <<account, request, bound, edits>>

Finish(t) ==
    WrongCode(t) \/ AccountGone(t) \/ LoggedIn(t) \/ PasswordChanged(t)
        \/ CodeOfAnother(t) \/ PasswordReset(t)

Next ==
    \/ /\ \/ \E u \in Users : Login(u) \/ ForgotPassword(u)
          \/ \E t \in Threads : VerifyLoginOtp(t) \/ ResetPassword(t) \/ Finish(t)
          \/ \E s \in DOMAIN sessions :
                \/ ReadCurrentUser(s)
                \/ RequestPasswordChange(s)
                \/ \E t \in Threads : ConfirmPasswordChange(t, s)
       /\ UNCHANGED <<bound, edits>>
    \/ /\ \/ \E u \in Users : UpdateUser(u) \/ ResetUserPassword(u)
          \/ \E s \in DOMAIN sessions : UpdateProfile(s) \/ UpdateTwoFactor(s)
       /\ Edit
    \/ Tick

Spec == Init /\ [][Next]_vars

(* Of all this only time is sure to go on. *)
FairSpec == Spec /\ WF_vars(Tick)

-----------------------------------------------------------------------------
(* A code counts no more attempts than it admits and is used only after it *)
(* was read; the types of everything else (app/models/auth.py).            *)
TypeOK ==
    /\ account \in [Users -> [email : Emails, phone : BOOLEAN, two_factor : BOOLEAN,
                              active : BOOLEAN, password : 0 .. Len(codes)]]
    /\ codes \in Seq([user : Users, purpose : Purposes, age : 0 .. CodeLife + 1,
                      attempts : 0 .. MaxAttempts, consumed : BOOLEAN,
                      wrong : Nat, uses : Nat])
    /\ sessions \in Seq([user : Users, sub : Emails, by : 0 .. Len(codes),
                         idle : 0 .. IdleLimit + 1, age : 0 .. TokenLife + 1])
    /\ request \in [Threads -> {Idle} \union
           [code : DOMAIN codes, purpose : Purposes, user : Users \union {Nobody},
            right : BOOLEAN, attempts : 0 .. MaxAttempts - 1]]
    /\ \A u, v \in Users : account[u].email = account[v].email => u = v

(* A session that was not opened with a password alone was opened with a   *)
(* login code of its own user, used up; and a user who began with the      *)
(* second factor on has no other kind of session before such a one: only   *)
(* somebody signed in so can have turned it off, whatever addresses have   *)
(* changed hands meanwhile (auth.py: login, verify_login_otp,              *)
(* update_two_factor).                                                     *)
OpenedByCode(s) ==
    LET c == sessions[s].by
    IN  /\ c # 0
        /\ codes[c].user = sessions[s].user
        /\ codes[c].purpose = "LOGIN_2FA"
        /\ codes[c].consumed

SecondFactor ==
    \A s \in DOMAIN sessions :
        \/ OpenedByCode(s)
        \/ /\ sessions[s].by = 0
           /\ \/ sessions[s].user \notin Reachable
              \/ \E r \in 1 .. s - 1 :
                    sessions[r].user = sessions[s].user /\ OpenedByCode(r)

(* A password is one an administrator had sent or one chosen with a code   *)
(* that went to its owner for that purpose and is used up (auth.py:        *)
(* confirm_password_change, reset_password).                               *)
PasswordByOwnCode ==
    \A u \in Users :
        LET c == account[u].password
        IN  c # 0 => /\ codes[c].user = u
                     /\ codes[c].purpose \in {"PASSWORD_CHANGE", "PASSWORD_RESET"}
                     /\ codes[c].consumed

(* What n threads can answer wrongly before m attempts are counted: one of *)
(* them holds the count it read while the others use up what is left, and  *)
(* sets it back.                                                           *)
Answers[p \in Nat \X Nat] ==
    LET n == p[1]
        m == p[2]
    IN  IF n = 0 \/ m = 0 THEN 0 ELSE Answers[<<n - 1, m>>] + 1 + Answers[<<n, m - 1>>]

(* Attempts are limited although overlapping ones overwrite each other's   *)
(* count, to otp_max_attempts when none overlap; and a code works once for *)
(* each request that read it before it was used up (otp_service.py:        *)
(* verify_otp).                                                            *)
UsesBounded == \A c \in DOMAIN codes : codes[c].uses <= Cardinality(Threads)

AttemptsBounded ==
    /\ \A c \in DOMAIN codes : codes[c].wrong <= Answers[<<Cardinality(Threads), MaxAttempts>>]
    /\ UsesBounded

(* However busy its user, a session comes to its end for good (security.py *)
(* and session_service.py: touch_session).                                 *)
EverySessionEnds ==
    \A b \in Bounds : \A s \in 1 .. b.sessions :
        <>[](s \in DOMAIN sessions => ~Alive(s))
=============================================================================
