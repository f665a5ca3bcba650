---------------------------- MODULE AccountCodes ----------------------------
(***************************************************************************)
(* One e-mail address: the codes that are mailed to it                     *)
(* (services/email_verification.py) and the account they open              *)
(* (services/auth_service.py).                                             *)
(*                                                                         *)
(* A send reserves the challenge of its purpose in one transaction, mails  *)
(* outside of any, and records the answer of the mail server in another;   *)
(* several sends of one purpose may be under way.  The generation of a     *)
(* challenge is the send that made it.  A login reads the password hash,   *)
(* verifies it outside of any transaction and issues a session in another. *)
(***************************************************************************)
EXTENDS Integers, FiniteSets

CONSTANTS
    Sends,          \* the requests for a code
    Logins,         \* the requests to log in
    MaxAttempts,    \* MAX_VERIFICATION_ATTEMPTS
    MaxPasswords,   \* bound: passwords the account ever has
    NoSend          \* the empty generation of the placeholder row

ASSUME SendsAssumption == NoSend \notin Sends
ASSUME BoundsAssumption == /\ MaxAttempts \in Nat \ {0}
                           /\ MaxPasswords \in Nat \ {0}

VARIABLES
    (* columns of auth_email_challenges of this address, by purpose *)
    generation, \* the send that made the code
    status,
    attempts,   \* wrong codes
    active,     \* expires_at is in the future
    cooling,    \* last_requested_at is recent
    (* the requests *)
    phase,      \* what each send_code is about to do
    purpose,    \* and the form it was asked for
    mail,       \* what the mail server answered, by send
    inbox,      \* the sends whose mail arrived
    (* auth_identities and auth_sessions *)
    password,   \* the version of the password hash, 0 without an account
    recovery,   \* the version of the recovery hash
    live,       \* the password versions that unrevoked sessions were issued for
    login,      \* the hash each login has read and verified, 0 is none
    wrong,      \* history: wrong codes since the challenge last started anew
    uses        \* history: how often the code of a send opened the account

challengeVars == <<generation, status, attempts, active, cooling>>
mailVars == <<phase, purpose, mail, inbox>>
accountVars == <<password, recovery, live>>
vars == <<challengeVars, mailVars, accountVars, login, wrong, uses>>

Purposes == {"register", "password_reset"}
Statuses == {"failed", "pending", "sent", "consumed"}
Answers == {"accepted", "failed"}
Passwords == 1..MaxPasswords

TypeOK ==
    /\ generation \in [Purposes -> Sends \cup {NoSend}]
    /\ status \in [Purposes -> Statuses]
    /\ attempts \in [Purposes -> 0..MaxAttempts]
    /\ active \in [Purposes -> BOOLEAN]
    /\ cooling \in [Purposes -> BOOLEAN]
    /\ phase \in [Sends -> {"idle", "mailing", "answered", "done"}]
    /\ purpose \in [Sends -> Purposes]
    /\ mail \in [Sends -> Answers \cup {"none"}]
    /\ inbox \subseteq Sends
    /\ password \in 0..MaxPasswords
    /\ recovery \in 0..password
    /\ live \subseteq Passwords
    /\ login \in [Logins -> 0..MaxPasswords]
    /\ wrong \in [Purposes -> Nat]
    /\ uses \in [Sends -> Nat]

Init ==
    /\ generation = [p \in Purposes |-> NoSend]
    /\ status = [p \in Purposes |-> "failed"]
    /\ attempts = [p \in Purposes |-> 0]
    /\ active = [p \in Purposes |-> FALSE]
    /\ cooling = [p \in Purposes |-> FALSE]
    /\ phase = [s \in Sends |-> "idle"]
    /\ purpose = [s \in Sends |-> "register"]
    /\ mail = [s \in Sends |-> "none"]
    /\ inbox = {}
    /\ password = 0
    /\ recovery = 0
    /\ live = {}
    /\ login = [l \in Logins |-> 0]
    /\ wrong = [p \in Purposes |-> 0]
    /\ uses = [s \in Sends |-> 0]

-----------------------------------------------------------------------------
(* Asking for a code                                                       *)

\* Faulty: a new code brings new guesses within the life of the challenge.
AttemptsStartAnew(p) == 0

\* A challenge keeps its wrong attempts, and its end, as long as it lives.
AttemptsKept(p) == IF active[p] THEN attempts[p] ELSE 0

\* The first transaction of send_code.  A request that the quotas refuse
\* changes nothing; it is a request that is not made.
ReserveSend(s, p) ==
    /\ phase[s] = "idle"
    /\ ~(active[p] /\ attempts[p] >= MaxAttempts)
    /\ ~cooling[p]
    /\ generation' = [generation EXCEPT ![p] = s]
    /\ status' = [status EXCEPT ![p] = "pending"]
    /\ attempts' = [attempts EXCEPT ![p] = AttemptsKept(p)]
    /\ active' = [active EXCEPT ![p] = TRUE]
    /\ cooling' = [cooling EXCEPT ![p] = TRUE]
    /\ phase' = [phase EXCEPT ![s] = "mailing"]
    /\ purpose' = [purpose EXCEPT ![s] = p]
    /\ wrong' = [wrong EXCEPT ![p] = IF active[p] THEN @ ELSE 0]
    /\ UNCHANGED <<mail, inbox, accountVars, login, uses>>

\* The mail server takes the mail or not.  A mail may arrive although the
\* transport saw an error.
Deliver(s, answer, arrives) ==
    /\ phase[s] = "mailing"
    /\ answer = "accepted" => arrives
    /\ phase' = [phase EXCEPT ![s] = "answered"]
    /\ mail' = [mail EXCEPT ![s] = answer]
    /\ inbox' = IF arrives THEN inbox \cup {s} ELSE inbox
    /\ UNCHANGED <<challengeVars, purpose, accountVars, login, wrong, uses>>

\* Faulty: the answer of one mail is recorded for whatever code is pending.
AnyPending(s) == status[purpose[s]] = "pending"

\* The answer is recorded if the challenge still waits for this very code.
StillPending(s) ==
    /\ generation[purpose[s]] = s
    /\ status[purpose[s]] = "pending"

FinishDelivery(s) ==
    /\ phase[s] = "answered"
    /\ phase' = [phase EXCEPT ![s] = "done"]
    /\ status' = IF StillPending(s)
                 THEN [status EXCEPT ![purpose[s]] =
                         IF mail[s] = "accepted" THEN "sent" ELSE "failed"]
                 ELSE status
    /\ UNCHANGED <<generation, attempts, active, cooling, purpose, mail, inbox,
                   accountVars, login, wrong, uses>>

\* The process stops before it records the answer, whether or not it mailed.
CrashSend(s) ==
    /\ phase[s] \in {"mailing", "answered"}
    /\ phase' = [phase EXCEPT ![s] = "done"]
    /\ UNCHANGED <<challengeVars, purpose, mail, inbox, accountVars, login, wrong, uses>>

-----------------------------------------------------------------------------
(* Using a code: check_code and consume_code hold the row of the challenge *)
(* in the transaction that opens the account.                              *)

CanTry(p) ==
    /\ active[p]
    /\ attempts[p] < MaxAttempts
    /\ status[p] = "sent"

\* A code that is not the one of the challenge: of an earlier mail, of the
\* other purpose, or a mistyped one.  The failed attempt is committed.
WrongCode(p) ==
    /\ CanTry(p)
    /\ attempts' = [attempts EXCEPT ![p] = @ + 1]
    /\ wrong' = [wrong EXCEPT ![p] = @ + 1]
    /\ UNCHANGED <<generation, status, active, cooling, mailVars, accountVars, login, uses>>

\* Faulty: the challenge stays sent.
LeaveSent(p) == status

Consume(p) == [status EXCEPT ![p] = "consumed"]

RightCode(p) ==
    /\ CanTry(p)
    /\ generation[p] \in inbox
    /\ status' = Consume(p)
    /\ uses' = [uses EXCEPT ![generation[p]] = @ + 1]
    /\ UNCHANGED <<generation, attempts, active, cooling, mailVars, login, wrong>>

\* _register_email_identity: an address that has an account is an integrity
\* error, which rolls everything back.
Register ==
    /\ RightCode("register")
    /\ password = 0
    /\ password' = 1
    /\ recovery' = 1
    /\ live' = {1}

\* A new password hash differs from every earlier one, even of the same
\* password: it is salted.
NewPassword == password + 1

HasAccount == password \in 1..(MaxPasswords - 1)

\* reset_password_with_email_code: the recovery code stays valid.
ResetPassword ==
    /\ RightCode("password_reset")
    /\ HasAccount
    /\ password' = NewPassword
    /\ live' = {NewPassword}
    /\ UNCHANGED recovery

-----------------------------------------------------------------------------
(* The other ways to the account                                           *)

\* recover, with the recovery code, which it replaces.
Recover ==
    /\ HasAccount
    /\ password' = NewPassword
    /\ recovery' = recovery + 1
    /\ live' = {}
    /\ UNCHANGED <<challengeVars, mailVars, login, wrong, uses>>

\* change_password verifies the current password under the row lock.
ChangePassword ==
    /\ HasAccount
    /\ password' = NewPassword
    /\ live' = {}
    /\ UNCHANGED <<challengeVars, mailVars, recovery, login, wrong, uses>>

\* login: the hash is read without a lock and verified in a thread.
LoginVerify(l) ==
    /\ password # 0
    /\ login[l] = 0
    /\ login' = [login EXCEPT ![l] = password]
    /\ UNCHANGED <<challengeVars, mailVars, accountVars, wrong, uses>>

\* Faulty: the verified hash is not compared again.
NoRecheck(l) == TRUE

\* The locked row must still hold the hash that was verified.
SamePassword(l) == password = login[l]

LoginIssue(l) ==
    /\ login[l] # 0
    /\ login' = [login EXCEPT ![l] = 0]
    /\ live' = IF SamePassword(l) THEN live \cup {login[l]} ELSE live
    /\ UNCHANGED <<challengeVars, mailVars, password, recovery, wrong, uses>>

-----------------------------------------------------------------------------
(* Time.  How the cooldown relates to the lifetime is a setting: either    *)
(* may end first.                                                          *)

Expire(p) ==
    /\ active[p]
    /\ active' = [active EXCEPT ![p] = FALSE]
    /\ UNCHANGED <<generation, status, attempts, cooling, mailVars, accountVars,
                   login, wrong, uses>>

CoolDown(p) ==
    /\ cooling[p]
    /\ cooling' = [cooling EXCEPT ![p] = FALSE]
    /\ UNCHANGED <<generation, status, attempts, active, mailVars, accountVars,
                   login, wrong, uses>>

-----------------------------------------------------------------------------
Next ==
    \/ \E s \in Sends :
         \/ \E p \in Purposes : ReserveSend(s, p)
         \/ \E answer \in Answers, arrives \in BOOLEAN :
              Deliver(s, answer, arrives)
         \/ FinishDelivery(s)
         \/ CrashSend(s)
    \/ \E p \in Purposes : WrongCode(p) \/ Expire(p) \/ CoolDown(p)
    \/ Register
    \/ ResetPassword
    \/ Recover
    \/ ChangePassword
    \/ \E l \in Logins : LoginVerify(l) \/ LoginIssue(l)

Spec == Init /\ [][Next]_vars

-----------------------------------------------------------------------------
(* Properties                                                              *)

\* Within the life of a challenge no more than MaxAttempts wrong codes are
\* ever examined, however many new codes are asked for meanwhile
\* (email_verification.py, _reserve_send and check_code).
GuessesBounded == \A p \in Purposes : wrong[p] <= MaxAttempts

\* The status of a challenge tells what the mail server answered for its own
\* code, whatever answers of earlier codes arrive late (_finish_delivery).
StatusTellsDelivery ==
    \A p \in Purposes :
        /\ status[p] \in {"sent", "consumed"} => mail[generation[p]] = "accepted"
        /\ status[p] = "failed" /\ generation[p] # NoSend => mail[generation[p]] = "failed"

\* The code of one mail opens the account at most once, by either form
\* (consume_code).
UsedOnce == \A s \in Sends : uses[s] <= 1

\* A session that is not revoked was issued for the password the account has
\* now, although logins verify it before they lock the row ("Prevent an old
\* password verified concurrently with recovery from issuing a new session",
\* auth_service.py, login).
SessionsAreCurrent == live \subseteq {password}
=============================================================================
