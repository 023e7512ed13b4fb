---------------------------- MODULE AuthSessions ----------------------------
(***************************************************************************)
(* Signing in and staying signed in.  The coordinator keeps the device     *)
(* flow, the session with its rotating tokens, and the device key; the     *)
(* user's home directory keeps the vault.  Tasks of the worker and other   *)
(* commands share the vault: the tasks refresh under one lock, a command   *)
(* takes no lock at all.                                                   *)
(*                                                                         *)
(* Tokens are generations: each refresh rotates access token, refresh      *)
(* token and challenge at once.  Login uses a fresh key pair.  The user    *)
(* signs in or out with one command at a time: two would mix the key of    *)
(* one login with the session of the other.                                *)
(*                                                                         *)
(* Source: routes/auth_routes.rs, routes/api_keys.rs, auth.rs, web_auth.rs,*)
(* db.rs and the CLI's auth.rs, vault.rs, context.rs, share.rs.            *)
(***************************************************************************)
EXTENDS Naturals, FiniteSets

CONSTANTS
  WorkerTask,   \* tasks of the worker, under its refresh lock
  Command,      \* other commands using the same vault
  Poll,         \* polls of a device flow the coordinator handles at a time
  MaxGen,       \* bound on the generations of tokens
  Nobody        \* no owner

Proc == WorkerTask \cup Command
NoToken == 0

VARIABLES
  user,         \* the email account: "none", "unverified", "verified"
  mail_link,    \* the verification link: "none", "sent", "used", "expired"
  flow,         \* the device flow: "none", "pending", "authorized", "denied", "expired"
  bound,        \* email_authorized_at: a browser login has confirmed the flow
  polling,      \* polling[p]: the statement a poll has reached
  issued,       \* history: sessions issued for the present flow
  gen,          \* the generation of tokens the session row holds
  access_over,  \* that generation's access token has expired
  revoked,      \* the session and its device key are revoked
  sid,          \* the number of the session row
  api_key,      \* the inference key: its state and the session that made it
  delivered,    \* the generation of tokens a poll's answer delivers, or NoToken
  vault_session,\* the generation of tokens in the vault, or NoToken
  vault_key,    \* the vault holds the device's private key
  refresh_lock, \* the worker task that holds refresh_lock, or Nobody
  proc,         \* proc[p]: what a task or command is doing, and its token
  signing_in,   \* the statement `auth login' has reached
  lost,         \* history: the answer of a rotation was lost
  logged_out    \* history: a logout has reported success since the last login

server == <<user, mail_link, flow, bound, polling, issued, gen, access_over, revoked,
            sid, api_key, delivered>>
vault == <<vault_session, vault_key>>
client == <<refresh_lock, proc, signing_in>>
history == <<lost, logged_out>>
vars == <<server, vault, client, history>>

-----------------------------------------------------------------------------
(***************************************************************************)
(* The email account                                                       *)
(***************************************************************************)

\* register_handler: account and link are committed once the mail is sent; a
\* mail that cannot be sent takes the account back.
Register ==
  /\ user = "none"
  /\ user' = "unverified" /\ mail_link' = "sent"
  /\ UNCHANGED <<flow, bound, polling, issued, gen, access_over, revoked, sid, api_key,
                 delivered, vault, client, history>>

LinkExpires ==
  /\ mail_link = "sent"
  /\ mail_link' = "expired"
  /\ UNCHANGED <<user, flow, bound, polling, issued, gen, access_over, revoked, sid, api_key,
                 delivered, vault, client, history>>

\* verify_email_handler: a link that was used is answered, and changes nothing.
VerifyEmail ==
  /\ mail_link = "sent"
  /\ mail_link' = "used" /\ user' = "verified"
  /\ UNCHANGED <<flow, bound, polling, issued, gen, access_over, revoked, sid, api_key,
                 delivered, vault, client, history>>

\* login_handler: the password is right.  The flow is confirmed once, and only
\* while it is pending.
ConfirmInBrowser ==
  /\ user = "verified"
  /\ flow = "pending" /\ ~ bound
  /\ bound' = TRUE
  /\ UNCHANGED <<user, mail_link, flow, polling, issued, gen, access_over, revoked,
                 sid, api_key, delivered, vault, client, history>>

-----------------------------------------------------------------------------
(***************************************************************************)
(* The device flow                                                         *)
(***************************************************************************)

LoggingOut ==
  {"logout", "logout_retry", "logout_refresh", "logout_rotated", "clear_session", "clear_key"}

\* auth_device_start, for `auth login' of a home without a session.
DeviceStart ==
  /\ signing_in = "idle" /\ vault_session = NoToken
  /\ \A p \in Poll : polling[p] = "idle"
  /\ \A p \in Proc : proc[p].pc \notin LoggingOut
  /\ flow' = "pending" /\ bound' = FALSE /\ issued' = 0 /\ delivered' = NoToken
  /\ signing_in' = "polling"
  /\ UNCHANGED <<user, mail_link, polling, gen, access_over, revoked, sid, api_key, vault,
                 refresh_lock, proc, history>>

\* auth_device_poll reads the flow without a lock, checks the signature, and
\* notes the time of the poll.
PollReads(p) ==
  /\ polling[p] = "idle" /\ flow = "pending" /\ signing_in = "polling"
  /\ polling' = [polling EXCEPT ![p] = "asked"]
  /\ UNCHANGED <<user, mail_link, flow, bound, issued, gen, access_over, revoked, sid, api_key,
                 delivered, vault, client, history>>

\* The provider says pending, slow down, denied or expired.  The last two are
\* written whatever the flow has become in the meantime.
ProviderRefuses(p) ==
  /\ polling[p] = "asked"
  /\ polling' = [polling EXCEPT ![p] = "idle"]
  /\ \E s \in {flow, "denied", "expired"} : flow' = s
  /\ UNCHANGED <<user, mail_link, bound, issued, gen, access_over, revoked, sid, api_key,
                 delivered, vault, client, history>>

\* The email provider's poll finds the browser's confirmation.
ProviderAuthorizes(p) ==
  /\ polling[p] = "asked"
  /\ flow = "pending" /\ bound
  /\ polling' = [polling EXCEPT ![p] = "authorized"]
  /\ UNCHANGED <<user, mail_link, flow, bound, issued, gen, access_over, revoked, sid, api_key,
                 delivered, vault, client, history>>

\* Mutant of IssueSession: the flow is not read again under its lock.
IssueUnlocked(p) ==
  /\ polling[p] = "authorized"
  /\ polling' = [polling EXCEPT ![p] = "idle"]
  /\ IF gen < MaxGen
       THEN /\ flow' = "authorized" /\ issued' = issued + 1
            /\ gen' = gen + 1 /\ access_over' = FALSE /\ revoked' = FALSE
            /\ sid' = sid + 1
            /\ delivered' = IF signing_in = "polling" THEN gen + 1 ELSE NoToken
       ELSE UNCHANGED <<flow, issued, gen, access_over, revoked, sid, delivered>>
  /\ UNCHANGED <<user, mail_link, bound, api_key, vault, client, history>>

\* The transaction that issues the session locks the flow and looks again.
IssueSession(p) ==
  /\ polling[p] = "authorized"
  /\ polling' = [polling EXCEPT ![p] = "idle"]
  /\ IF flow = "pending" /\ gen < MaxGen
       THEN /\ flow' = "authorized" /\ issued' = issued + 1
            /\ gen' = gen + 1 /\ access_over' = FALSE /\ revoked' = FALSE
            /\ sid' = sid + 1
            /\ delivered' = IF signing_in = "polling" THEN gen + 1 ELSE NoToken
       ELSE UNCHANGED <<flow, issued, gen, access_over, revoked, sid, delivered>>
  /\ UNCHANGED <<user, mail_link, bound, api_key, vault, client, history>>

AccessExpires ==
  /\ gen # NoToken /\ ~ access_over
  /\ access_over' = TRUE
  /\ UNCHANGED <<user, mail_link, flow, bound, polling, issued, gen, revoked, sid, api_key, delivered,
                 vault, client, history>>

-----------------------------------------------------------------------------
(***************************************************************************)
(* `auth login' stores the key first and the session second                *)
(***************************************************************************)
\* Mutant of StoreKey: the session is stored before the key.
StoreSessionFirst ==
  /\ signing_in = "polling" /\ delivered # NoToken
  /\ vault_session' = delivered
  /\ signing_in' = "session"
  /\ UNCHANGED <<server, vault_key, refresh_lock, proc, history>>

StoreKey ==
  /\ signing_in = "polling" /\ delivered # NoToken
  /\ vault_key' = TRUE
  /\ signing_in' = "session"
  /\ UNCHANGED <<server, vault_session, refresh_lock, proc, history>>

\* SystemVault::store: when the session cannot be stored the key is removed.
StoreSession ==
  /\ signing_in = "session"
  /\ signing_in' = "idle" /\ delivered' = NoToken
  /\ \/ /\ vault_session' = delivered /\ logged_out' = FALSE
        /\ UNCHANGED vault_key
     \/ /\ vault_key' = FALSE
        /\ UNCHANGED <<vault_session, logged_out>>
  /\ UNCHANGED <<user, mail_link, flow, bound, polling, issued, gen, access_over, revoked,
                 sid, api_key, refresh_lock, proc, lost>>

\* The login gives up: a refusal, the deadline, or the answer never arrives.
LoginFails ==
  /\ signing_in \in {"polling", "session"}
  /\ signing_in' = "idle" /\ delivered' = NoToken
  /\ UNCHANGED <<user, mail_link, flow, bound, polling, issued, gen, access_over, revoked,
                 sid, api_key, vault, refresh_lock, proc, history>>

-----------------------------------------------------------------------------
(***************************************************************************)
(* Authorized calls.  A call fails with an authentication error, the       *)
(* session is refreshed once and the call repeated once.                   *)
(***************************************************************************)
Idle == [pc |-> "idle", token |-> NoToken]
Step(p, pc, token) == proc' = [proc EXCEPT ![p] = [pc |-> pc, token |-> token]]

\* authenticate (and authenticate_inference for the session behind a key)
Accepted(token) == token = gen /\ gen # NoToken /\ ~ access_over /\ ~ revoked

\* The call is sent with the token in the vault.
Call(p) ==
  /\ proc[p] = Idle /\ vault_session # NoToken
  /\ Step(p, "calling", vault_session)
  /\ UNCHANGED <<server, vault, refresh_lock, signing_in, history>>

\* The answer, a failure of another kind, or an authentication error.
CallAnswered(p) ==
  /\ proc[p].pc \in {"calling", "again"}
  /\ \/ Step(p, "idle", NoToken)
     \/ /\ proc[p].pc = "calling" /\ ~ Accepted(proc[p].token)
        /\ Step(p, "unauthorized", proc[p].token)
  /\ UNCHANGED <<server, vault, refresh_lock, signing_in, history>>

\* Mutant of LoadForRefresh: a command takes the worker's lock.
LockForEveryone(p) ==
  /\ proc[p].pc = "unauthorized" /\ refresh_lock = Nobody
  /\ Step(p, "refreshing", vault_session)
  /\ refresh_lock' = p
  /\ UNCHANGED <<server, vault, signing_in, history>>

\* refresh_worker_session takes the lock and looks into the vault again: a
\* session another task has refreshed is used as it is.  A command goes straight
\* to refresh_session.
LoadForRefresh(p) ==
  /\ proc[p].pc = "unauthorized"
  /\ p \in WorkerTask => refresh_lock = Nobody
  /\ IF vault_session = NoToken \/ (p \in WorkerTask /\ vault_session # proc[p].token)
       THEN /\ IF vault_session = NoToken THEN Step(p, "idle", NoToken)
                                          ELSE Step(p, "again", vault_session)
            /\ UNCHANGED refresh_lock
       ELSE /\ Step(p, "refreshing", vault_session)
            /\ refresh_lock' = IF p \in WorkerTask THEN p ELSE refresh_lock
  /\ UNCHANGED <<server, vault, signing_in, history>>

Unlock(p) == refresh_lock' = IF refresh_lock = p THEN Nobody ELSE refresh_lock

\* Mutant of Rotate: the old token is accepted beside the new one.
RotateAnyToken(p) ==
  /\ proc[p].pc \in {"refreshing", "logout_refresh"}
  /\ IF ~ revoked /\ vault_key /\ gen < MaxGen
       THEN /\ gen' = gen + 1 /\ access_over' = FALSE
            /\ Step(p, IF proc[p].pc = "refreshing" THEN "rotated" ELSE "logout_rotated", gen + 1)
            /\ UNCHANGED refresh_lock
       ELSE /\ Step(p, "idle", NoToken) /\ Unlock(p)
            /\ UNCHANGED <<gen, access_over>>
  /\ UNCHANGED <<user, mail_link, flow, bound, polling, issued, revoked, sid, api_key, delivered, vault,
                 signing_in, history>>

\* auth_refresh: the row is found by the hash of the refresh token and locked,
\* so of two refreshes with one token the second finds nothing.
Rotate(p) ==
  /\ proc[p].pc \in {"refreshing", "logout_refresh"}
  /\ IF proc[p].token = gen /\ ~ revoked /\ vault_key /\ gen < MaxGen
       THEN /\ gen' = gen + 1 /\ access_over' = FALSE
            /\ Step(p, IF proc[p].pc = "refreshing" THEN "rotated" ELSE "logout_rotated", gen + 1)
            /\ UNCHANGED refresh_lock
       ELSE /\ Step(p, "idle", NoToken) /\ Unlock(p)
            /\ UNCHANGED <<gen, access_over>>
  /\ UNCHANGED <<user, mail_link, flow, bound, polling, issued, revoked, sid, api_key, delivered, vault,
                 signing_in, history>>

\* The answer arrives and refresh_credential_bundle stores it.
StoreRefreshed(p) ==
  /\ proc[p].pc \in {"rotated", "logout_rotated"}
  /\ vault_session' = proc[p].token
  /\ Step(p, IF proc[p].pc = "rotated" THEN "again" ELSE "logout_retry", proc[p].token)
  /\ Unlock(p)
  /\ UNCHANGED <<server, vault_key, signing_in, history>>

\* The answer is lost, or the vault refuses it: the new tokens are nowhere.
AnswerLost(p) ==
  /\ proc[p].pc \in {"rotated", "logout_rotated"}
  /\ Step(p, "idle", NoToken) /\ Unlock(p)
  /\ lost' = TRUE
  /\ UNCHANGED <<server, vault, signing_in, logged_out>>

-----------------------------------------------------------------------------
(***************************************************************************)
(* `auth logout'                                                           *)
(***************************************************************************)
Logout(p) ==
  /\ p \in Command /\ proc[p] = Idle /\ signing_in = "idle"
  /\ IF vault_session = NoToken THEN Step(p, "clear_session", NoToken)
                                ELSE Step(p, "logout", vault_session)
  /\ UNCHANGED <<server, vault, refresh_lock, signing_in, history>>

\* auth_logout finds the row by the refresh token alone, revoked or not, and
\* revokes the device's sessions and its key.  A lost answer and every other
\* failure count as an authentication error (map_auth_error), which leads to
\* one refresh.
LogoutAnswered(p) ==
  /\ proc[p].pc \in {"logout", "logout_retry"}
  /\ revoked' \in {revoked, revoked \/ proc[p].token = gen}
  /\ \/ /\ proc[p].token = gen /\ revoked'
        /\ Step(p, "clear_session", NoToken)
     \/ /\ proc[p].pc = "logout" /\ vault_session # NoToken
        /\ Step(p, "logout_refresh", vault_session)
     \/ /\ proc[p].pc = "logout_retry" \/ vault_session = NoToken
        /\ Step(p, "idle", NoToken)
  /\ UNCHANGED <<user, mail_link, flow, bound, polling, issued, gen, access_over, sid, api_key,
                 delivered, vault, refresh_lock, signing_in, history>>

\* Mutant of ClearSession: the key goes first.
ClearKeyFirst(p) ==
  /\ proc[p].pc = "clear_session"
  /\ vault_key' = FALSE
  /\ Step(p, "clear_key", NoToken)
  /\ UNCHANGED <<server, vault_session, refresh_lock, signing_in, history>>

\* SystemVault::clear: the session, then the key.
ClearSession(p) ==
  /\ proc[p].pc = "clear_session"
  /\ vault_session' = NoToken
  /\ Step(p, "clear_key", NoToken)
  /\ UNCHANGED <<server, vault_key, refresh_lock, signing_in, history>>

ClearKey(p) ==
  /\ proc[p].pc = "clear_key"
  /\ vault_key' = FALSE
  /\ logged_out' = TRUE
  /\ Step(p, "idle", NoToken)
  /\ UNCHANGED <<server, vault_session, refresh_lock, signing_in, lost>>

-----------------------------------------------------------------------------
(***************************************************************************)
(* Inference keys                                                          *)
(***************************************************************************)
\* create_api_key authenticates before its transaction begins.
AuthenticateKey(p) ==
  /\ p \in Command /\ proc[p] = Idle /\ Accepted(vault_session) /\ api_key.state = "none"
  /\ Step(p, "creating", sid)
  /\ UNCHANGED <<server, vault, refresh_lock, signing_in, history>>

InsertKey(p) ==
  /\ proc[p].pc = "creating"
  /\ api_key' = IF api_key.state = "none" THEN [state |-> "live", session |-> proc[p].token]
                                           ELSE api_key
  /\ Step(p, "idle", NoToken)
  /\ UNCHANGED <<user, mail_link, flow, bound, polling, issued, gen, access_over, revoked, sid,
                 delivered, vault, refresh_lock, signing_in, history>>

\* revoke_api_key
RevokeKey ==
  /\ Accepted(vault_session) /\ api_key.state = "live"
  /\ api_key' = [api_key EXCEPT !.state = "revoked"]
  /\ UNCHANGED <<user, mail_link, flow, bound, polling, issued, gen, access_over, revoked, sid,
                 delivered, vault, client, history>>

\* Mutant of KeyUsable: the session behind the key is not joined.
KeyUsableAlone == api_key.state = "live"

\* authenticate_inference: key, session and device key must all be live.
KeyUsable == api_key.state = "live" /\ api_key.session = sid /\ ~ revoked

-----------------------------------------------------------------------------
Init ==
  /\ user = "none" /\ mail_link = "none"
  /\ flow = "none" /\ bound = FALSE /\ polling = [p \in Poll |-> "idle"] /\ issued = 0
  /\ gen = NoToken /\ access_over = FALSE /\ revoked = FALSE /\ delivered = NoToken
  /\ sid = 0 /\ api_key = [state |-> "none", session |-> 0]
  /\ vault_session = NoToken /\ vault_key = FALSE
  /\ refresh_lock = Nobody /\ proc = [p \in Proc |-> Idle] /\ signing_in = "idle"
  /\ lost = FALSE /\ logged_out = FALSE

Working(p) ==
  \/ CallAnswered(p) \/ LoadForRefresh(p) \/ Rotate(p)
  \/ StoreRefreshed(p) \/ AnswerLost(p)
  \/ LogoutAnswered(p) \/ ClearSession(p) \/ ClearKey(p) \/ InsertKey(p)

Next ==
  \/ Register \/ LinkExpires \/ VerifyEmail \/ ConfirmInBrowser
  \/ DeviceStart \/ StoreKey \/ StoreSession \/ LoginFails \/ AccessExpires \/ RevokeKey
  \/ \E p \in Poll : PollReads(p) \/ ProviderRefuses(p) \/ ProviderAuthorizes(p) \/ IssueSession(p)
  \/ \E p \in Proc : Call(p) \/ Logout(p) \/ AuthenticateKey(p) \/ Working(p)

Spec == Init /\ [][Next]_vars

-----------------------------------------------------------------------------
TypeOK ==
  /\ user \in {"none", "unverified", "verified"}
  /\ mail_link \in {"none", "sent", "used", "expired"}
  /\ flow \in {"none", "pending", "authorized", "denied", "expired"}
  /\ polling \in [Poll -> {"idle", "asked", "authorized"}]
  /\ {gen, delivered, vault_session, sid} \subseteq 0 .. MaxGen
  /\ refresh_lock \in WorkerTask \cup {Nobody}
  /\ signing_in \in {"idle", "polling", "session"}
  /\ {bound, access_over, revoked, vault_key, lost, logged_out} \subseteq BOOLEAN

\* However tasks and commands race to refresh, the vault holds the tokens the
\* session has, or somebody is about to store them: the loser of a race never
\* leaves a rotated token behind.  Only a lost answer can.
VaultCurrent ==
  vault_session # NoToken /\ ~ lost =>
    \/ vault_session = gen
    \/ \E p \in Proc : proc[p] \in [pc : {"rotated", "logout_rotated"}, token : {gen}]

\* A session in the vault has its device key beside it, at every step of
\* storing and clearing: without the key it could neither be refreshed nor
\* given up.
KeyWithSession == vault_session # NoToken => vault_key

\* After a logout has reported success no refresh that was under way puts a
\* session back, and no key made by the session is accepted, not even one that
\* was inserted after the logout.
LoggedOutStaysOut == logged_out => vault_session = NoToken /\ ~ KeyUsable

\* Polls that race for one flow issue one session.
OneSessionPerFlow == issued <= 1

\* Tokens in the vault are never replaced by older ones.
VaultForward == [][(vault_session' # NoToken) => (vault_session' >= vault_session)]_vars

\* Credentials that a failed logout leaves in the vault can be used to try
\* again: their refresh token is the session's, or the newer one is on its way.
KeptForRetry ==
  vault_session # NoToken =>
    \/ vault_session = gen
    \/ \E p \in Proc : proc[p] \in [pc : {"rotated", "logout_rotated"}, token : {gen}]
=============================================================================
