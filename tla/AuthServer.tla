------------------------------- MODULE AuthServer -------------------------------
(***************************************************************************)
(* The sessions of backend/src/auth: one row per user with the password,   *)
(* the session version and the digest of the only valid refresh token.     *)
(* Every handler reads the row, works on it for a while (bcrypt, signing)  *)
(* and then writes with a conditional update: two actions, between which   *)
(* anything can happen.                                                    *)
(*                                                                         *)
(* A request is in the slot of the tab that waits for its answer, or in    *)
(* slot Late when nobody does.  An access token is [user, ver]; a refresh  *)
(* token has a serial number beside (jti).  A request with a wrong         *)
(* password or a forged token changes nothing and is left out: a password  *)
(* is right, and known by the version of the row it was compared with.     *)
(***************************************************************************)
EXTENDS Naturals, FiniteSets

CONSTANTS
  Users, Tabs,
  Late,        \* slot of a request whose sender has given up
  None,        \* no cookie, no user
  MaxVersion,  \* bound: session versions
  MaxIssued    \* bound: refresh tokens issued

ASSUME AuthAssumption ==
  /\ Late \notin Tabs
  /\ None \notin Users \cup Tabs \cup [user : Users, ver : Nat]
  /\ MaxVersion \in Nat /\ MaxIssued \in Nat \ {0}

Slots == Tabs \cup {Late}

VARIABLES
  account,  \* account[u]: version, serial of the refresh token or 0 and, as
            \* history, the version under which its password was checked
  issued,   \* refresh tokens issued so far
  req       \* req[c]: the request in slot c

server == <<account, issued, req>>

NoRequest == [pc |-> "none"]
At(c, pc, kinds) == req[c].pc = pc /\ req[c].kind \in kinds

NoCookies == [access |-> None, refresh |-> None]
CookiesFor(u, id) ==
  [access  |-> [user |-> u, ver |-> account[u].version],
   refresh |-> [user |-> u, ver |-> account[u].version, id |-> id]]

(* JwtStrategy.validate *)
Authenticated(r) == r.jar.access # None /\ account[r.jar.access.user].version = r.jar.access.ver

(* The conditions on a refresh token, before the rotation and in its WHERE. *)
LiveRefresh(k) == k # None /\ account[k.user].version = k.ver /\ account[k.user].refresh = k.id

Anybody(r) == TRUE  \* mutant: X-Session-User is ignored

(* JwtAuthGuard: X-Session-User, where it is sent, names the cookie's user. *)
Accepts(r) == r.actor \in {None, r.jar.access.user}

Becomes(c, r) == req' = [req EXCEPT ![c] = r]

Keep == [kept |-> TRUE]  \* an answer that sets no cookies

(* Nobody hears the answer in slot Late. *)
Answer(c, status, u, cookies) ==
  Becomes(c, IF c = Late THEN NoRequest
             ELSE [pc |-> "answered", kind |-> req[c].kind, status |-> status,
                   user |-> u, asked |-> req[c].asked, cookies |-> cookies])
Refuse(c, status) == Answer(c, status, None, Keep)

Work(c, u) == Becomes(c, [req[c] EXCEPT !.pc = "work", !.user = u, !.ver = account[u].version])

Unchanged(r) == account[r.user].version = r.ver  \* tokenVersion in a WHERE

-----------------------------------------------------------------------------
(* GET /auth/me, and any other request for the user of the cookies *)
ServeCall(c) ==
  /\ At(c, "sent", {"call", "me"})
  /\ LET r == req[c] IN
     IF ~ Authenticated(r) THEN Refuse(c, 401)
     ELSE IF ~ Accepts(r) THEN Refuse(c, 409)
     ELSE Answer(c, 200, r.jar.access.user, Keep)
  /\ UNCHANGED <<account, issued>>

(* refresh: the token is looked at, and later replaced if it is still valid *)
ReadRefresh(c) ==
  /\ At(c, "sent", {"refresh"})
  /\ LET k == req[c].jar.refresh IN
     IF LiveRefresh(k) THEN Work(c, k.user) ELSE Refuse(c, 401)
  /\ UNCHANGED <<account, issued>>

RotateRefresh(c) ==
  /\ At(c, "work", {"refresh"})
  /\ LET k == req[c].jar.refresh IN
     IF LiveRefresh(k)
     THEN /\ issued < MaxIssued
          /\ issued' = issued + 1
          /\ account' = [account EXCEPT ![k.user].refresh = issued + 1]
          /\ Answer(c, 200, k.user, CookiesFor(k.user, issued + 1))
     ELSE Refuse(c, 401) /\ UNCHANGED <<account, issued>>

(* login: bcrypt.compare with the row that was read ... *)
ReadLogin(c) ==
  /\ At(c, "sent", {"login"})
  /\ Work(c, req[c].arg)
  /\ UNCHANGED <<account, issued>>

SameUser(r) == TRUE  \* mutant: the version is not in the WHERE

(* ... and saveRefreshToken *)
MaySave(r) == Unchanged(r)

SaveLogin(c) ==
  /\ At(c, "work", {"login"})
  /\ LET r == req[c] IN
     IF MaySave(r)
     THEN /\ issued < MaxIssued
          /\ issued' = issued + 1
          /\ account' = [account EXCEPT ![r.user].refresh = issued + 1,
                                        ![r.user].checked = r.ver]
          /\ Answer(c, 200, r.user, CookiesFor(r.user, issued + 1))
     ELSE Refuse(c, 401) /\ UNCHANGED <<account, issued>>

(* A new version, with a new password or without: every token dies. *)
Revoke(u) ==
  /\ account[u].version < MaxVersion
  /\ account' = [account EXCEPT ![u].version = @ + 1, ![u].refresh = 0]

(* logoutSession: the access token proves who it is, else the refresh token *)
ReadLogout(c) ==
  /\ At(c, "sent", {"logout"})
  /\ LET r == req[c] IN
     IF Authenticated(r) THEN Work(c, r.jar.access.user)
     ELSE IF LiveRefresh(r.jar.refresh) THEN Work(c, r.jar.refresh.user)
     ELSE Answer(c, 200, None, NoCookies)
  /\ UNCHANGED <<account, issued>>

CommitLogout(c) ==
  /\ At(c, "work", {"logout"})
  /\ LET r == req[c] IN
     IF Unchanged(r) THEN Revoke(r.user) ELSE UNCHANGED account
  /\ Answer(c, 200, None, NoCookies)
  /\ UNCHANGED issued

(* changePassword: the current password is compared, the new one hashed ... *)
ReadChange(c) ==
  /\ At(c, "sent", {"change"})
  /\ LET r == req[c] IN
     IF ~ Authenticated(r) THEN Refuse(c, 401)
     ELSE IF ~ Accepts(r) THEN Refuse(c, 409)
     ELSE Work(c, r.jar.access.user)
  /\ UNCHANGED <<account, issued>>

(* ... and written if neither password nor version changed meanwhile. *)
CommitChange(c) ==
  /\ At(c, "work", {"change"})
  /\ LET r == req[c] IN
     IF Unchanged(r)
     THEN Revoke(r.user) /\ Answer(c, 200, None, NoCookies)
     ELSE Refuse(c, 401) /\ UNCHANGED account
  /\ UNCHANGED issued

(* Elsewhere: resetPassword with the link of an email, the administrator's *)
(* reset, or (with the password unchanged) a change of role or a logout.   *)
RevokeElsewhere(u) == Revoke(u) /\ UNCHANGED <<issued, req>>

ServerNext ==
  \/ \E c \in Slots :
       \/ ServeCall(c) \/ ReadRefresh(c) \/ RotateRefresh(c) \/ ReadLogin(c) \/ SaveLogin(c)
       \/ ReadLogout(c) \/ CommitLogout(c) \/ ReadChange(c) \/ CommitChange(c)
  \/ \E u \in Users : RevokeElsewhere(u)

-----------------------------------------------------------------------------
(* Whoever holds a session has proved the password the account has now: a  *)
(* sign-in that was comparing the password when it was changed or reset,   *)
(* or the session revoked, gets nothing, and no refresh keeps it alive.    *)
LiveSessionsProvedThePassword ==
  \A u \in Users : account[u].refresh # 0 => account[u].checked = account[u].version
=============================================================================
