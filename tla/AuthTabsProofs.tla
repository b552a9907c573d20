----------------------------- MODULE AuthTabsProofs -----------------------------
(***************************************************************************)
(* Proofs about AuthTabs and AuthServer, for any users, tabs and bounds.   *)
(*                                                                         *)
(* On the server, a refresh token that is dead stays dead, because every   *)
(* new one has a serial number of its own (DeadStaysDead).  In the         *)
(* browser, the tab that is asking who it is, refreshing or changing the   *)
(* session holds the lock (HolderInv), so that the request it sent carries *)
(* the refresh token that is in the jar.  A tab that shows a user names    *)
(* this user in its requests (SlotInv, TabInv).                            *)
(***************************************************************************)
EXTENDS AuthTabs, TLAPS

Somebody == Users \cup {None}
AccessTokens == [user : Users, ver : Nat]
RefreshTokens(n) == [user : Users, ver : Nat, id : 1 .. n]
Jars(n) == [access : AccessTokens \cup {None}, refresh : RefreshTokens(n) \cup {None}]

\* Both tokens of one sign-in or refresh.
Pair(j) ==
  /\ j.access # None
  /\ j.access.user = j.refresh.user /\ j.access.ver = j.refresh.ver

Kinds == {"call", "me", "refresh", "login", "logout", "change"}
Accounts == [version : Nat, checked : Nat, refresh : Nat]
Pending(n) ==
  [pc : {"sent", "work"}, kind : Kinds, arg : Somebody, actor : Somebody, asked : Somebody,
   jar : Jars(n), user : Somebody, ver : Nat]
Answers(n) ==
  [pc : {"answered"}, kind : Kinds, status : {200, 401, 409}, user : Somebody, asked : Somebody,
   cookies : Jars(n) \cup {Keep}]
Requests(n) == {NoRequest} \cup Pending(n) \cup Answers(n)

Pcs == {"call", "recover", "check", "refresh", "recheck", "enter", "mutate"}
CallActs ==
  [op : {"call", "me"}, arg : {None}, pc : Pcs, actor : Somebody, asked : Somebody,
   retried : BOOLEAN, stale : BOOLEAN]
MutationActs ==
  [op : {"login", "logout", "change"}, arg : Somebody, pc : Pcs, asked : {None},
   stale : BOOLEAN, actor : Somebody]
TabStates ==
  [user : Somebody, principal : Somebody, boot : BOOLEAN,
   act : {NoAct} \cup CallActs \cup MutationActs]

ServerTypes ==
  /\ issued \in Nat
  /\ account \in [Users -> Accounts]
  /\ \A u \in Users : account[u].refresh <= issued

AuthTypes ==
  /\ ServerTypes
  /\ req \in [Slots -> Requests(issued)]
  /\ jar \in Jars(issued)
  /\ lock \in Tabs \cup {None}
  /\ tab \in [Tabs -> TabStates]

\* A request in slot c, whoever waits for it.
Slot(c) ==
  LET r == req[c] IN
  /\ r.pc = "work" => r.user \in Users
  /\ r.pc = "sent" /\ r.kind = "login" => r.arg \in Users
  /\ r.pc = "sent" /\ r.kind = "call" => r.actor = r.asked /\ r.actor \in Users
  /\ r.pc = "answered" =>
       /\ r.kind = "call" /\ r.status = 200 => r.user = r.asked
       /\ r.kind = "refresh" /\ r.status = 200 => r.cookies \in Jars(issued) /\ Pair(r.cookies)
       /\ r.kind \in {"logout", "change"} => r.cookies \in {Keep, NoCookies}
SlotInv == \A c \in Slots : Slot(c)

\* What a tab shows, and on whose behalf it acts.
Shows(s) ==
  /\ s.user # None => s.user = s.principal
  /\ s.act.op = "call" => s.act.actor = s.act.asked /\ s.act.actor \in Users
  /\ s.act.op = "login" => s.act.arg \in Users
  /\ s.act.op \in {"call", "me"} => s.act.pc # "enter"
TabInv == \A t \in Tabs : Shows(tab[t])

\* A tab inside the lock: the request it waits for carries the refresh token
\* of the jar, and what it was told of that token is true.
Holds(t) ==
  LET r == req[t] IN
  /\ Doing(t, {"check", "refresh", "recheck", "mutate"}) => lock = t
  /\ Doing(t, {"mutate"}) =>
       r.pc # "none" /\ r.kind = tab[t].act.op /\ r.kind \in {"login", "logout", "change"}
  /\ Doing(t, {"refresh"}) =>
       /\ r.pc # "none" /\ r.kind = "refresh"
       /\ r.pc \in {"sent", "work"} => r.jar.refresh = jar.refresh
       /\ r.pc = "answered" /\ r.status = 200 => jar.refresh # None
       /\ r.pc = "answered" /\ r.status = 401 => ~ LiveRefresh(jar.refresh)
  /\ Doing(t, {"recheck"}) =>
       /\ r.pc # "none" /\ r.kind = "me"
       /\ r.pc \in {"sent", "work"} => r.jar.refresh = jar.refresh /\ Pair(r.jar)
       /\ r.pc = "answered" /\ r.status = 401 => ~ LiveRefresh(jar.refresh)
HolderInv == \A t \in Tabs : Holds(t)

AuthInv == AuthTypes /\ LiveSessionsProvedThePassword /\ SlotInv /\ TabInv /\ HolderInv

-----------------------------------------------------------------------------
(* Types                                                                   *)

(* A token of this many serial numbers is one of more.                     *)
LEMMA MoreTokens ==
  ASSUME NEW n \in Nat, NEW m \in Nat, n <= m
  PROVE  Jars(n) \subseteq Jars(m) /\ Requests(n) \subseteq Requests(m)
  <1>1. RefreshTokens(n) \subseteq RefreshTokens(m)
    BY DEF RefreshTokens
  <1>2. Jars(n) \subseteq Jars(m)
    BY <1>1 DEF Jars
  <1>3. Pending(n) \subseteq Pending(m)
    BY <1>2 DEF Pending
  <1>4. Answers(n) \subseteq Answers(m)
    BY <1>2 DEF Answers
  <1> QED BY <1>2, <1>3, <1>4 DEF Requests

(* The cookies of an answer are a pair of tokens.                          *)
LEMMA CookieFacts ==
  ASSUME ServerTypes, NEW u \in Users, NEW n \in Nat, NEW id \in 1 .. n
  PROVE  CookiesFor(u, id) \in Jars(n) /\ Pair(CookiesFor(u, id))
  <1>1. account[u].version \in Nat
    BY DEF ServerTypes, Accounts
  <1>2. /\ [user |-> u, ver |-> account[u].version] \in AccessTokens
        /\ [user |-> u, ver |-> account[u].version, id |-> id] \in RefreshTokens(n)
    BY <1>1 DEF AccessTokens, RefreshTokens
  <1> QED BY <1>2, AuthAssumption DEF CookiesFor, Jars, AccessTokens, Pair

(* What the answer to a request is, and what becomes of it in slot Late.   *)
LEMMA AnswerFacts ==
  ASSUME AuthTypes, NEW c \in Slots, req[c].pc \in {"sent", "work"}, NEW m \in Nat, issued <= m,
         NEW status \in {200, 401, 409}, NEW u \in Somebody, NEW cookies \in Jars(m) \cup {Keep},
         Answer(c, status, u, cookies)
  PROVE  /\ req' \in [Slots -> Requests(m)]
         /\ \A x \in Slots \ {c} : req'[x] = req[x]
         /\ c = Late => req'[c] = NoRequest
         /\ c # Late => /\ req'[c].pc = "answered" /\ req'[c].kind = req[c].kind
                        /\ req'[c].status = status /\ req'[c].user = u
                        /\ req'[c].asked = req[c].asked /\ req'[c].cookies = cookies
  <1>1. req[c] \in Pending(issued)
    BY DEF AuthTypes, Requests, NoRequest, Answers
  <1> DEFINE a == [pc |-> "answered", kind |-> req[c].kind, status |-> status, user |-> u,
                   asked |-> req[c].asked, cookies |-> cookies]
  <1>2. a \in Answers(m)
    BY <1>1 DEF Pending, Answers
  <1>3. a \in Requests(m) /\ NoRequest \in Requests(m)
    BY <1>2 DEF Requests
  <1>4. req \in [Slots -> Requests(m)]
    BY MoreTokens DEF AuthTypes, ServerTypes
  <1>5. req' = [req EXCEPT ![c] = IF c = Late THEN NoRequest ELSE a]
    BY DEF Answer, Becomes
  <1> QED BY <1>3, <1>4, <1>5

(* What a request becomes while it is worked on.                           *)
LEMMA WorkFacts ==
  ASSUME AuthTypes, NEW c \in Slots, req[c].pc = "sent", NEW u \in Users, Work(c, u)
  PROVE  /\ req' \in [Slots -> Requests(issued)]
         /\ \A x \in Slots \ {c} : req'[x] = req[x]
         /\ req'[c].pc = "work" /\ req'[c].kind = req[c].kind /\ req'[c].jar = req[c].jar
         /\ req'[c].user = u
  <1>1. req[c] \in Pending(issued)
    BY DEF AuthTypes, Requests, NoRequest, Answers
  <1>2. account[u].version \in Nat
    BY DEF AuthTypes, ServerTypes, Accounts
  <1> DEFINE w == [req[c] EXCEPT !.pc = "work", !.user = u, !.ver = account[u].version]
  <1>3. w \in Pending(issued) /\ w.pc = "work" /\ w.kind = req[c].kind /\ w.jar = req[c].jar
        /\ w.user = u
    BY <1>1, <1>2 DEF Pending, Somebody
  <1>4. w \in Requests(issued)
    BY <1>3 DEF Requests
  <1>5. req' = [req EXCEPT ![c] = w]
    BY DEF Work, Becomes
  <1> QED BY <1>3, <1>4, <1>5 DEF AuthTypes

-----------------------------------------------------------------------------
(* The server                                                              *)

\* What any step may do to the accounts: it keeps them well typed, and makes
\* no refresh token valid that was issued before and is dead.
AccountMove ==
  /\ issued' \in Nat /\ issued <= issued'
  /\ account' \in [Users -> Accounts]
  /\ \A u \in Users : account'[u].refresh <= issued'
  /\ LiveSessionsProvedThePassword'
  /\ \A k \in RefreshTokens(issued) :
       account'[k.user].version = k.ver /\ account'[k.user].refresh = k.id =>
         account[k.user].version = k.ver /\ account[k.user].refresh = k.id

\* What a step of the server does to the request it serves.
RequestMove(c) ==
  LET r == req[c] IN
  /\ req' \in [Slots -> Requests(issued')]
  /\ \A x \in Slots \ {c} : req'[x] = req[x]
  /\ r.pc \in {"sent", "work"}
  /\ c = Late => req'[c].pc # "answered"
  /\ c # Late =>
       /\ req'[c].pc # "none" /\ req'[c].kind = r.kind
       /\ req'[c].pc \in {"sent", "work"} => req'[c].jar = r.jar
       /\ req'[c].pc = "answered" /\ r.kind = "refresh" =>
            /\ req'[c].status = 200 => r.jar.refresh # None
            /\ req'[c].status = 401 => ~ LiveRefresh(r.jar.refresh) /\ UNCHANGED account
       /\ req'[c].pc = "answered" /\ req'[c].status = 401 /\ r.kind = "me" =>
            ~ Authenticated(r) /\ UNCHANGED account

(* Revoking a session leaves nothing alive.                                *)
LEMMA RevokeMoves ==
  ASSUME ServerTypes, LiveSessionsProvedThePassword, NEW u \in Users, Revoke(u), UNCHANGED issued
  PROVE  AccountMove
  <1>1. /\ account' = [account EXCEPT ![u] = [account[u] EXCEPT !.version = @ + 1, !.refresh = 0]]
        /\ account[u] \in Accounts
    BY DEF Revoke, ServerTypes, Accounts
  <1>2. account'[u] = [version |-> account[u].version + 1, checked |-> account[u].checked,
                       refresh |-> 0]
    BY <1>1 DEF ServerTypes, Accounts
  <1>3. \A v \in Users \ {u} : account'[v] = account[v]
    BY <1>1 DEF ServerTypes
  <1>4. account' \in [Users -> Accounts]
    BY <1>1, <1>2 DEF ServerTypes, Accounts
  <1>5. \A k \in RefreshTokens(issued) : account'[k.user].refresh = k.id => k.user # u
    BY <1>2 DEF RefreshTokens, ServerTypes
  <1>6. \A k \in RefreshTokens(issued) : k.user \in Users
    BY DEF RefreshTokens
  <1> QED
    BY <1>2, <1>3, <1>4, <1>5, <1>6 DEF AccountMove, ServerTypes, LiveSessionsProvedThePassword

(* A new refresh token is none of the old ones; it goes to somebody whose  *)
(* password was checked under the version of the row.                      *)
LEMMA IssueMoves ==
  ASSUME ServerTypes, LiveSessionsProvedThePassword, NEW u \in Users, issued' = issued + 1,
         NEW n \in Nat, n = account[u].version,
         account' = [account EXCEPT ![u] = [@ EXCEPT !.refresh = issued + 1, !.checked = n]]
  PROVE  AccountMove
  <1>1. account'[u] = [version |-> n, checked |-> n, refresh |-> issued + 1]
    BY DEF ServerTypes, Accounts
  <1>2. \A v \in Users \ {u} : account'[v] = account[v]
    BY DEF ServerTypes
  <1>3. account' \in [Users -> Accounts]
    BY <1>1 DEF ServerTypes, Accounts
  <1>4. \A k \in RefreshTokens(issued) :
          k.user \in Users /\ (account'[k.user].refresh = k.id => k.user # u)
    BY <1>1 DEF RefreshTokens, ServerTypes
  <1>5. \A v \in Users : account'[v].refresh <= issued'
    BY <1>1, <1>2 DEF ServerTypes, Accounts
  <1> QED
    BY <1>1, <1>2, <1>3, <1>4, <1>5 DEF AccountMove, ServerTypes, LiveSessionsProvedThePassword

(* Nothing happens to the accounts.                                        *)
LEMMA AccountRests ==
  ASSUME ServerTypes, LiveSessionsProvedThePassword, UNCHANGED <<account, issued>>
  PROVE  AccountMove
  BY DEF ServerTypes, AccountMove, LiveSessionsProvedThePassword

(* A request somebody sent carries a jar of the tokens issued so far.      *)
LEMMA PendingFacts ==
  ASSUME AuthTypes, NEW c \in Slots, req[c].pc \in {"sent", "work"}
  PROVE  req[c] \in Pending(issued)
  BY DEF AuthTypes, Requests, NoRequest, Answers

(* Which answers are in order.                                             *)
LEMMA AnswerMoves ==
  ASSUME AuthTypes, NEW c \in Slots, req[c].pc \in {"sent", "work"},
         issued' \in Nat, issued <= issued',
         NEW status \in {200, 401, 409}, NEW u \in Somebody,
         NEW cookies \in Jars(issued') \cup {Keep}, Answer(c, status, u, cookies),
         req[c].kind = "call" /\ status = 200 => u = req[c].asked,
         req[c].kind = "refresh" /\ status = 200 =>
           cookies \in Jars(issued') /\ Pair(cookies) /\ req[c].jar.refresh # None,
         req[c].kind = "refresh" /\ status = 401 =>
           ~ LiveRefresh(req[c].jar.refresh) /\ UNCHANGED account,
         req[c].kind = "me" /\ status = 401 => ~ Authenticated(req[c]) /\ UNCHANGED account,
         req[c].kind \in {"logout", "change"} => cookies \in {Keep, NoCookies}
  PROVE  RequestMove(c) /\ Slot(c)'
  <1>1. /\ req' \in [Slots -> Requests(issued')]
        /\ \A x \in Slots \ {c} : req'[x] = req[x]
        /\ c = Late => req'[c] = NoRequest
        /\ c # Late => /\ req'[c].pc = "answered" /\ req'[c].kind = req[c].kind
                       /\ req'[c].status = status /\ req'[c].user = u
                       /\ req'[c].asked = req[c].asked /\ req'[c].cookies = cookies
    BY AnswerFacts
  <1>2. RequestMove(c)
    BY <1>1 DEF RequestMove, NoRequest
  <1>3. Slot(c)'
    BY <1>1 DEF Slot, NoRequest, Pair
  <1> QED BY <1>2, <1>3

(* A refusal is always in order, if it is true.                            *)
LEMMA RefusalMoves ==
  ASSUME AuthTypes, NEW c \in Slots, req[c].pc \in {"sent", "work"}, UNCHANGED <<account, issued>>,
         NEW status \in {401, 409}, Refuse(c, status),
         req[c].kind = "refresh" /\ status = 401 => ~ LiveRefresh(req[c].jar.refresh),
         req[c].kind = "me" /\ status = 401 => ~ Authenticated(req[c])
  PROVE  RequestMove(c) /\ Slot(c)'
  <1>1. issued' \in Nat /\ issued <= issued'
    BY DEF AuthTypes, ServerTypes
  <1>2. Answer(c, status, None, Keep) /\ None \in Somebody /\ status # 200
    BY DEF Refuse, Somebody
  <1> QED BY <1>1, <1>2, AnswerMoves

(* A handler that goes on to its conditional write.                        *)
LEMMA WorkMoves ==
  ASSUME AuthTypes, NEW c \in Slots, req[c].pc = "sent", UNCHANGED <<account, issued>>,
         NEW u \in Users, Work(c, u)
  PROVE  RequestMove(c) /\ Slot(c)'
  <1>1. /\ req' \in [Slots -> Requests(issued)]
        /\ \A x \in Slots \ {c} : req'[x] = req[x]
        /\ req'[c].pc = "work" /\ req'[c].kind = req[c].kind /\ req'[c].jar = req[c].jar
        /\ req'[c].user = u
    BY WorkFacts
  <1>2. RequestMove(c)
    BY <1>1 DEF RequestMove
  <1>3. Slot(c)'
    BY <1>1 DEF Slot
  <1> QED BY <1>2, <1>3

(* Requests that only read.                                                *)
LEMMA ServeCallMoves ==
  ASSUME AuthTypes, LiveSessionsProvedThePassword, NEW c \in Slots, Slot(c), ServeCall(c)
  PROVE  AccountMove /\ RequestMove(c) /\ Slot(c)'
  <1>1. /\ req[c].pc = "sent" /\ req[c].kind \in {"call", "me"} /\ req[c] \in Pending(issued)
        /\ UNCHANGED <<account, issued>>
    BY PendingFacts DEF ServeCall, At
  <1>2. AccountMove
    BY <1>1, AccountRests DEF AuthTypes
  <1>3. CASE ~ Authenticated(req[c]) \/ ~ Accepts(req[c])
    <2>1. \/ Refuse(c, 401) /\ ~ Authenticated(req[c])
          \/ Refuse(c, 409)
      BY <1>3 DEF ServeCall
    <2> QED BY <1>1, <1>2, <2>1, RefusalMoves
  <1>4. CASE Authenticated(req[c]) /\ Accepts(req[c])
    <2>1. req[c].jar.access.user \in Users
      BY <1>1, <1>4 DEF Pending, Jars, AccessTokens, Authenticated
    <2>2. req[c].kind = "call" => req[c].jar.access.user = req[c].asked
      BY <1>1, <1>4, AuthAssumption DEF Accepts, Slot
    <2>3. Answer(c, 200, req[c].jar.access.user, Keep)
      BY <1>4 DEF ServeCall
    <2>4. issued' \in Nat /\ issued <= issued' /\ req[c].jar.access.user \in Somebody
      BY <1>1, <2>1 DEF AuthTypes, ServerTypes, Somebody
    <2> QED BY <1>1, <1>2, <2>2, <2>3, <2>4, AnswerMoves
  <1> QED BY <1>3, <1>4

(* The token is looked at, and replaced if it is still the one.            *)
LEMMA RefreshMoves ==
  ASSUME AuthTypes, LiveSessionsProvedThePassword, NEW c \in Slots, Slot(c),
         ReadRefresh(c) \/ RotateRefresh(c)
  PROVE  AccountMove /\ RequestMove(c) /\ Slot(c)'
  <1> DEFINE k == req[c].jar.refresh
  <1>1. /\ req[c].pc \in {"sent", "work"} /\ req[c].kind = "refresh" /\ req[c] \in Pending(issued)
        /\ issued \in Nat /\ ServerTypes
    BY PendingFacts DEF ReadRefresh, RotateRefresh, At, AuthTypes, ServerTypes
  <1>2. LiveRefresh(k) => k \in RefreshTokens(issued)
    BY <1>1 DEF LiveRefresh, Pending, Jars
  <1>3. CASE ~ LiveRefresh(k)
    <2>1. Refuse(c, 401) /\ UNCHANGED <<account, issued>>
      BY <1>3 DEF ReadRefresh, RotateRefresh
    <2> QED BY <1>1, <1>3, <2>1, RefusalMoves, AccountRests
  <1>4. CASE ReadRefresh(c) /\ LiveRefresh(k)
    <2>1. /\ req[c].pc = "sent" /\ k.user \in Users /\ Work(c, k.user)
          /\ UNCHANGED <<account, issued>>
      BY <1>2, <1>4 DEF ReadRefresh, At, RefreshTokens
    <2> QED BY <1>1, <2>1, WorkMoves, AccountRests
  <1>5. CASE RotateRefresh(c) /\ LiveRefresh(k)
    <2>1. /\ k # None /\ k.user \in Users
          /\ account[k.user].refresh # 0
          /\ account[k.user] \in Accounts
      BY <1>1, <1>2, <1>5 DEF LiveRefresh, RefreshTokens, ServerTypes
    <2>2. account[k.user].checked = account[k.user].version /\ account[k.user].version \in Nat
      BY <2>1 DEF LiveSessionsProvedThePassword, Accounts
    <2>3. /\ issued' = issued + 1
          /\ account' = [account EXCEPT ![k.user] = [@ EXCEPT !.refresh = issued + 1]]
          /\ Answer(c, 200, k.user, CookiesFor(k.user, issued + 1))
      BY <1>5 DEF RotateRefresh
    <2>4. [account[k.user] EXCEPT !.refresh = issued + 1]
            = [account[k.user] EXCEPT !.refresh = issued + 1, !.checked = account[k.user].version]
      BY <2>1, <2>2 DEF Accounts
    <2>5. AccountMove
      BY <1>1, <2>1, <2>2, <2>3, <2>4, IssueMoves
    <2>6. /\ CookiesFor(k.user, issued + 1) \in Jars(issued + 1)
          /\ Pair(CookiesFor(k.user, issued + 1))
      BY <1>1, <2>1, CookieFacts
    <2>7. /\ issued' \in Nat /\ issued <= issued' /\ k.user \in Somebody
          /\ CookiesFor(k.user, issued + 1) \in Jars(issued')
      BY <1>1, <2>1, <2>3, <2>6 DEF Somebody
    <2>8. RequestMove(c) /\ Slot(c)'
      BY <1>1, <2>1, <2>3, <2>6, <2>7, AnswerMoves
    <2> QED BY <2>5, <2>8
  <1> QED BY <1>3, <1>4, <1>5

(* The password is compared, and the tokens issued if the row is the same. *)
LEMMA LoginMoves ==
  ASSUME AuthTypes, LiveSessionsProvedThePassword, NEW c \in Slots, Slot(c),
         ReadLogin(c) \/ SaveLogin(c)
  PROVE  AccountMove /\ RequestMove(c) /\ Slot(c)'
  <1> DEFINE u == req[c].user
  <1>1. /\ req[c].pc \in {"sent", "work"} /\ req[c].kind = "login" /\ req[c] \in Pending(issued)
        /\ issued \in Nat /\ ServerTypes
    BY PendingFacts DEF ReadLogin, SaveLogin, At, AuthTypes, ServerTypes
  <1>2. CASE ReadLogin(c)
    <2>1. /\ req[c].pc = "sent" /\ req[c].arg \in Users /\ Work(c, req[c].arg)
          /\ UNCHANGED <<account, issued>>
      BY <1>1, <1>2 DEF ReadLogin, At, Slot
    <2> QED BY <1>1, <2>1, WorkMoves, AccountRests
  <1>3. CASE SaveLogin(c) /\ ~ MaySave(req[c])
    <2>1. Refuse(c, 401) /\ UNCHANGED <<account, issued>>
      BY <1>3 DEF SaveLogin
    <2> QED BY <1>1, <2>1, RefusalMoves, AccountRests
  <1>4. CASE SaveLogin(c) /\ MaySave(req[c])
    <2>1. u \in Users /\ req[c].ver = account[u].version /\ account[u] \in Accounts
      BY <1>1, <1>4 DEF SaveLogin, At, Slot, MaySave, Unchanged, ServerTypes
    <2>2. req[c].ver \in Nat
      BY <2>1 DEF Accounts
    <2>3. /\ issued' = issued + 1
          /\ account' = [account EXCEPT ![u].refresh = issued + 1, ![u].checked = req[c].ver]
          /\ Answer(c, 200, u, CookiesFor(u, issued + 1))
      BY <1>4 DEF SaveLogin
    <2>4. account' = [account EXCEPT ![u] = [@ EXCEPT !.refresh = issued + 1, !.checked = req[c].ver]]
      BY <1>1, <2>1, <2>3 DEF ServerTypes, Accounts
    <2>5. AccountMove
      BY <1>1, <2>1, <2>2, <2>3, <2>4, IssueMoves
    <2>6. CookiesFor(u, issued + 1) \in Jars(issued + 1)
      BY <1>1, <2>1, CookieFacts
    <2>7. /\ issued' \in Nat /\ issued <= issued' /\ u \in Somebody
          /\ CookiesFor(u, issued + 1) \in Jars(issued')
      BY <1>1, <2>1, <2>3, <2>6 DEF Somebody
    <2>8. RequestMove(c) /\ Slot(c)'
      BY <1>1, <2>3, <2>7, AnswerMoves
    <2> QED BY <2>5, <2>8
  <1> QED BY <1>2, <1>3, <1>4

(* Logout and a change of password answer with empty cookies, or refuse.   *)
LEMMA RevocationMoves ==
  ASSUME AuthTypes, LiveSessionsProvedThePassword, NEW c \in Slots, Slot(c),
         ReadLogout(c) \/ CommitLogout(c) \/ ReadChange(c) \/ CommitChange(c)
  PROVE  AccountMove /\ RequestMove(c) /\ Slot(c)'
  <1> DEFINE r == req[c]
  <1>1. /\ r.pc \in {"sent", "work"} /\ r.kind \in {"logout", "change"} /\ r \in Pending(issued)
        /\ issued \in Nat /\ ServerTypes /\ issued' = issued /\ issued <= issued
    BY PendingFacts DEF ReadLogout, CommitLogout, ReadChange, CommitChange, At, AuthTypes, ServerTypes
  <1>2. /\ Authenticated(r) => r.jar.access.user \in Users
        /\ LiveRefresh(r.jar.refresh) => r.jar.refresh.user \in Users
    BY <1>1 DEF Authenticated, LiveRefresh, Pending, Jars, AccessTokens, RefreshTokens
  <1>3. NoCookies \in Jars(issued) /\ None \in Somebody
    BY DEF NoCookies, Jars, Somebody
  <1>4. ASSUME Answer(c, 200, None, NoCookies) PROVE RequestMove(c) /\ Slot(c)'
    BY <1>1, <1>3, <1>4, AnswerMoves
  <1>5. ASSUME Revoke(r.user), r.user \in Users PROVE AccountMove
    BY <1>1, <1>5, RevokeMoves
  <1>6. CASE ReadLogout(c)
    <2>1. \/ \E u \in Users : Work(c, u) /\ r.pc = "sent"
          \/ Answer(c, 200, None, NoCookies)
      BY <1>2, <1>6 DEF ReadLogout, At
    <2>2. UNCHANGED <<account, issued>>
      BY <1>6 DEF ReadLogout
    <2> QED BY <1>1, <1>4, <2>1, <2>2, WorkMoves, AccountRests
  <1>7. CASE ReadChange(c)
    <2>1. \/ \E u \in Users : Work(c, u) /\ r.pc = "sent"
          \/ Refuse(c, 401) \/ Refuse(c, 409)
      BY <1>2, <1>7 DEF ReadChange, At
    <2>2. UNCHANGED <<account, issued>>
      BY <1>7 DEF ReadChange
    <2> QED BY <1>1, <2>1, <2>2, WorkMoves, RefusalMoves, AccountRests
  <1>8. CASE CommitLogout(c)
    <2>1. r.user \in Users
      BY <1>8 DEF CommitLogout, At, Slot
    <2>2. AccountMove
      BY <1>1, <1>5, <1>8, <2>1, AccountRests DEF CommitLogout
    <2> QED BY <1>4, <1>8, <2>2 DEF CommitLogout
  <1>9. CASE CommitChange(c)
    <2>1. r.user \in Users
      BY <1>9 DEF CommitChange, At, Slot
    <2>2. CASE Unchanged(r)
      BY <1>4, <1>5, <1>9, <2>1, <2>2 DEF CommitChange
    <2>3. CASE ~ Unchanged(r)
      <3>1. Refuse(c, 401) /\ UNCHANGED <<account, issued>>
        BY <1>9, <2>3 DEF CommitChange
      <3> QED BY <1>1, <3>1, RefusalMoves, AccountRests
    <2> QED BY <2>2, <2>3
  <1> QED BY <1>6, <1>7, <1>8, <1>9

(* A token of the jar that is dead stays dead.                             *)
LEMMA DeadStaysDead ==
  ASSUME AuthTypes, AccountMove, NEW k \in RefreshTokens(issued) \cup {None}, k = jar.refresh,
         UNCHANGED jar, ~ LiveRefresh(jar.refresh)
  PROVE  ~ LiveRefresh(jar.refresh)'
  BY DEF AccountMove, LiveRefresh

(* Every step of the server keeps the invariant.                           *)
LEMMA ServerKeeps ==
  ASSUME AuthInv, ServerNext, UNCHANGED <<jar, lock, news, tab, acts>>
  PROVE  AuthInv'
  <1> USE DEF AuthInv
  <1>0. issued \in Nat
    BY DEF AuthTypes, ServerTypes
  <1>1. ASSUME NEW c \in Slots, AccountMove, RequestMove(c), Slot(c)'
        PROVE  AuthInv'
    <2>1. issued' \in Nat /\ issued <= issued'
      BY <1>1 DEF AccountMove
    <2>2. AuthTypes'
      BY <1>0, <1>1, <2>1, MoreTokens DEF AuthTypes, AccountMove, RequestMove, ServerTypes
    <2>3. SlotInv'
      <3> SUFFICES ASSUME NEW x \in Slots PROVE Slot(x)'
        BY DEF SlotInv
      <3>1. CASE x = c
        BY <1>1, <3>1
      <3>2. CASE x # c
        <4>1. req'[x] = req[x] /\ Slot(x)
          BY <1>1, <3>2 DEF RequestMove, SlotInv
        <4>2. Jars(issued) \subseteq Jars(issued')
          BY <1>0, <2>1, MoreTokens
        <4> QED BY <4>1, <4>2 DEF Slot, Pair
      <3> QED BY <3>1, <3>2
    <2>4. TabInv'
      BY DEF TabInv, Shows
    <2>5. HolderInv'
      <3> SUFFICES ASSUME NEW t \in Tabs PROVE Holds(t)'
        BY DEF HolderInv
      <3>1. Holds(t) /\ jar.refresh \in RefreshTokens(issued) \cup {None}
        BY DEF HolderInv, AuthTypes, Jars
      <3>2. ~ LiveRefresh(jar.refresh) => ~ LiveRefresh(jar.refresh)'
        BY <1>1, <3>1, DeadStaysDead
      <3>3. \A pcs : Doing(t, pcs)' = Doing(t, pcs)
        BY DEF Doing
      <3>4. CASE t # c
        <4>1. req'[t] = req[t]
          BY <1>1, <3>4 DEF RequestMove, Slots
        <4> QED BY <3>1, <3>2, <3>3, <4>1 DEF Holds, Pair
      <3>5. CASE t = c
        <4> DEFINE r == req[t]
        <4>1. /\ r.pc \in {"sent", "work"} /\ req'[t].pc # "none" /\ req'[t].kind = r.kind
              /\ req'[t].pc \in {"sent", "work"} => req'[t].jar = r.jar
              /\ req'[t].pc = "answered" /\ r.kind = "refresh" =>
                   /\ req'[t].status = 200 => r.jar.refresh # None
                   /\ req'[t].status = 401 => ~ LiveRefresh(r.jar.refresh) /\ UNCHANGED account
              /\ req'[t].pc = "answered" /\ req'[t].status = 401 /\ r.kind = "me" =>
                   ~ Authenticated(r) /\ UNCHANGED account
          BY <1>1, <3>5, AuthAssumption DEF RequestMove
        <4>2. UNCHANGED account /\ ~ LiveRefresh(jar.refresh) => ~ LiveRefresh(jar.refresh)'
          BY DEF LiveRefresh
        <4>3. Pair(r.jar) /\ ~ Authenticated(r) => ~ LiveRefresh(r.jar.refresh)
          BY DEF Pair, Authenticated, LiveRefresh
        <4>4. Doing(t, {"refresh"}) => r.kind = "refresh" /\ r.jar.refresh = jar.refresh
          BY <3>1, <4>1 DEF Holds
        <4>5. Doing(t, {"recheck"}) => r.kind = "me" /\ r.jar.refresh = jar.refresh /\ Pair(r.jar)
          BY <3>1, <4>1 DEF Holds
        <4>6. Doing(t, {"refresh"}) =>
                /\ req'[t].pc # "none" /\ req'[t].kind = "refresh"
                /\ req'[t].pc \in {"sent", "work"} => req'[t].jar.refresh = jar'.refresh
                /\ req'[t].pc = "answered" /\ req'[t].status = 200 => jar'.refresh # None
                /\ req'[t].pc = "answered" /\ req'[t].status = 401 => ~ LiveRefresh(jar.refresh)'
          BY <4>1, <4>2, <4>4
        <4>7. Doing(t, {"recheck"}) =>
                /\ req'[t].pc # "none" /\ req'[t].kind = "me"
                /\ req'[t].pc \in {"sent", "work"} =>
                     req'[t].jar.refresh = jar'.refresh /\ Pair(req'[t].jar)
                /\ req'[t].pc = "answered" /\ req'[t].status = 401 => ~ LiveRefresh(jar.refresh)'
          BY <4>1, <4>2, <4>3, <4>5
        <4> QED BY <3>1, <3>3, <4>1, <4>6, <4>7 DEF Holds, Pair
      <3> QED BY <3>4, <3>5
    <2> QED BY <1>1, <2>2, <2>3, <2>4, <2>5 DEF AccountMove
  <1>2. ASSUME NEW u \in Users, RevokeElsewhere(u) PROVE AuthInv'
    <2>1. AccountMove /\ UNCHANGED req /\ issued' = issued
      BY <1>2, RevokeMoves DEF RevokeElsewhere, AuthTypes
    <2>2. AuthTypes'
      BY <2>1 DEF AuthTypes, AccountMove, ServerTypes
    <2>3. SlotInv' /\ TabInv'
      BY <2>1 DEF SlotInv, Slot, Pair, TabInv, Shows
    <2>4. HolderInv'
      <3> SUFFICES ASSUME NEW t \in Tabs PROVE Holds(t)'
        BY DEF HolderInv
      <3>1. Holds(t) /\ jar.refresh \in RefreshTokens(issued) \cup {None}
        BY DEF HolderInv, AuthTypes, Jars
      <3>2. ~ LiveRefresh(jar.refresh) => ~ LiveRefresh(jar.refresh)'
        BY <2>1, <3>1, DeadStaysDead
      <3>3. \A pcs : Doing(t, pcs)' = Doing(t, pcs)
        BY DEF Doing
      <3> QED BY <2>1, <3>1, <3>2, <3>3 DEF Holds, Pair
    <2> QED BY <2>1, <2>2, <2>3, <2>4 DEF AccountMove
  <1>3. ASSUME NEW c \in Slots,
               \/ ServeCall(c) \/ ReadRefresh(c) \/ RotateRefresh(c) \/ ReadLogin(c)
               \/ SaveLogin(c) \/ ReadLogout(c) \/ CommitLogout(c) \/ ReadChange(c)
               \/ CommitChange(c)
        PROVE  AuthInv'
    <2>1. Slot(c)
      BY DEF SlotInv
    <2>2. AccountMove /\ RequestMove(c) /\ Slot(c)'
      BY <1>3, <2>1, ServeCallMoves, RefreshMoves, LoginMoves, RevocationMoves
    <2> QED BY <1>1, <2>2
  <1> QED BY <1>2, <1>3 DEF ServerNext

-----------------------------------------------------------------------------
(* The tabs                                                                *)

\* What a step of tab t leaves alone: the accounts, the other tabs and their
\* requests, and, while another tab is inside the lock, the lock and the
\* refresh token of the jar.
TabMove(t) ==
  /\ UNCHANGED <<account, issued>>
  /\ \A x \in Tabs \ {t} : tab'[x] = tab[x] /\ req'[x] = req[x]
  /\ lock \notin {t, None} => lock' = lock /\ jar'.refresh = jar.refresh
  /\ req' \in [Slots -> Requests(issued)]
  /\ jar' \in Jars(issued)
  /\ lock' \in Tabs \cup {None}
  /\ Slot(t)' /\ Slot(Late)'

(* A step of a tab keeps the invariant if it keeps that tab's part of it.  *)
LEMMA TabKeeps ==
  ASSUME AuthInv, NEW t \in Tabs, TabMove(t), tab' \in [Tabs -> TabStates], Shows(tab'[t]),
         Holds(t)'
  PROVE  AuthInv'
  <1> USE AuthAssumption DEF AuthInv
  <1>1. AuthTypes'
    BY DEF AuthTypes, TabMove, ServerTypes
  <1>2. LiveSessionsProvedThePassword'
    BY DEF LiveSessionsProvedThePassword, TabMove
  <1>3. SlotInv'
    <2> SUFFICES ASSUME NEW c \in Slots PROVE Slot(c)'
      BY DEF SlotInv
    <2>1. CASE c \in {t, Late}
      BY <2>1 DEF TabMove
    <2>2. CASE c \notin {t, Late}
      BY <2>2 DEF SlotInv, Slot, Pair, TabMove, Slots
    <2> QED BY <2>1, <2>2
  <1>4. TabInv'
    <2> SUFFICES ASSUME NEW x \in Tabs PROVE Shows(tab'[x])
      BY DEF TabInv, Shows
    <2>1. CASE x # t
      BY <2>1 DEF TabInv, TabMove
    <2> QED BY <2>1
  <1>5. HolderInv'
    <2> SUFFICES ASSUME NEW x \in Tabs PROVE Holds(x)'
      BY DEF HolderInv
    <2>1. CASE x # t
      <3>1. tab'[x] = tab[x] /\ req'[x] = req[x] /\ Holds(x) /\ UNCHANGED account
        BY <2>1 DEF TabMove, HolderInv
      <3>2. CASE Doing(x, {"check", "refresh", "recheck", "mutate"})
        <4>1. lock = x /\ lock' = x /\ jar'.refresh = jar.refresh
          BY <2>1, <3>1, <3>2 DEF Holds, TabMove
        <4>2. LiveRefresh(jar.refresh)' = LiveRefresh(jar.refresh)
          BY <3>1, <4>1 DEF LiveRefresh
        <4> QED BY <3>1, <4>1, <4>2 DEF Holds, Doing, Pair
      <3>3. CASE ~ Doing(x, {"check", "refresh", "recheck", "mutate"})
        BY <3>1, <3>3 DEF Holds, Doing
      <3> QED BY <3>2, <3>3
    <2> QED BY <2>1
  <1> QED BY <1>1, <1>2, <1>3, <1>4, <1>5

(* The states a tab shows are in order.                                    *)
LEMMA StateFacts ==
  ASSUME AuthTypes, TabInv, NEW t \in Tabs
  PROVE  /\ tab[t] \in TabStates /\ Shows(tab[t])
         /\ \A p \in Somebody :
              Rebootstrap(t, p) \in TabStates /\ Shows(Rebootstrap(t, p))
         /\ \A u \in Somebody : SignedIn(u) \in TabStates /\ Shows(SignedIn(u))
         /\ [tab[t] EXCEPT !.user = None] \in TabStates
         /\ Shows([tab[t] EXCEPT !.user = None])
         /\ NewTab \in TabStates /\ Shows(NewTab)
  <1>1. tab[t] \in TabStates /\ Shows(tab[t])
    BY DEF AuthTypes, TabInv
  <1>2. ASSUME NEW p \in Somebody
        PROVE  Rebootstrap(t, p) \in TabStates /\ Shows(Rebootstrap(t, p))
    BY <1>1 DEF Rebootstrap, TabStates, Shows, Somebody
  <1>3. ASSUME NEW u \in Somebody PROVE SignedIn(u) \in TabStates /\ Shows(SignedIn(u))
    BY DEF SignedIn, TabStates, Shows, NoAct
  <1>4. /\ [tab[t] EXCEPT !.user = None] \in TabStates
        /\ Shows([tab[t] EXCEPT !.user = None])
    BY <1>1 DEF TabStates, Shows, Somebody
  <1>5. NewTab \in TabStates /\ Shows(NewTab)
    BY DEF NewTab, TabStates, Shows, Somebody, NoAct
  <1> QED BY <1>1, <1>2, <1>3, <1>4, <1>5

(* A tab that has finished waits for nothing.                              *)
LEMMA EndKeeps ==
  ASSUME AuthInv, NEW t \in Tabs, TabMove(t), NEW s \in TabStates, Shows(s), Ends(t, s)
  PROVE  AuthInv'
  <1> DEFINE e == [s EXCEPT !.act = NoAct]
  <1>1. e \in TabStates /\ Shows(e) /\ e.act = NoAct
    BY DEF TabStates, Shows, NoAct
  <1>2. tab' = [tab EXCEPT ![t] = e] /\ tab \in [Tabs -> TabStates]
    BY DEF Ends, Becoming, AuthInv, AuthTypes
  <1>3. tab' \in [Tabs -> TabStates] /\ tab'[t] = e
    BY <1>1, <1>2
  <1>4. Holds(t)'
    BY <1>1, <1>3 DEF Holds, Doing
  <1> QED BY <1>1, <1>3, <1>4, TabKeeps

(* A tab goes on with what it does.                                        *)
LEMMA GoesOn ==
  ASSUME AuthInv, NEW t \in Tabs, TabMove(t), NEW s \in TabStates, Shows(s), Becoming(t, s),
         tab'[t] = s => Holds(t)'
  PROVE  AuthInv'
  <1>1. tab' = [tab EXCEPT ![t] = s] /\ tab \in [Tabs -> TabStates]
    BY DEF Becoming, AuthInv, AuthTypes
  <1>2. tab' \in [Tabs -> TabStates] /\ tab'[t] = s
    BY <1>1
  <1> QED BY <1>2, TabKeeps

(* Who does something, and the same act one step further.                  *)
LEMMA ActFacts ==
  ASSUME AuthTypes, TabInv, NEW t \in Tabs, tab[t].act # NoAct,
         NEW pc \in Pcs \ {"enter"}
  PROVE  LET s == [tab[t] EXCEPT !.act = [tab[t].act EXCEPT !.pc = pc]] IN
         /\ s \in TabStates /\ Shows(s) /\ s.act.pc = pc
         /\ s.act.op = tab[t].act.op
         /\ tab[t].act.asked \in Somebody /\ tab[t].act.actor \in Somebody
         /\ tab[t].act.arg \in Somebody
  <1> DEFINE a == tab[t].act
             b == [a EXCEPT !.pc = pc]
             s == [tab[t] EXCEPT !.act = b]
  <1>1. tab[t] \in TabStates /\ Shows(tab[t])
    BY StateFacts
  <1>2. a \in CallActs \/ a \in MutationActs
    BY <1>1 DEF TabStates
  <1>3. /\ b \in CallActs \cup MutationActs
        /\ b.pc = pc /\ b.op = a.op /\ b.actor = a.actor /\ b.asked = a.asked /\ b.arg = a.arg
        /\ a.asked \in Somebody /\ a.actor \in Somebody /\ a.arg \in Somebody
    <2>1. CASE a \in CallActs
      BY <2>1 DEF CallActs, Somebody
    <2>2. CASE a \in MutationActs
      BY <2>2 DEF MutationActs, Somebody
    <2> QED BY <1>2, <2>1, <2>2
  <1>4. s \in TabStates /\ s.act = b /\ s.user = tab[t].user /\ s.principal = tab[t].principal
    BY <1>1, <1>3 DEF TabStates
  <1>5. Shows(s)
    BY <1>1, <1>3, <1>4 DEF Shows
  <1> QED BY <1>3, <1>4, <1>5

\* What a step of tab t leaves of the requests in order.
SlotMove(t) ==
  /\ req' \in [Slots -> Requests(issued)]
  /\ \A x \in Tabs \ {t} : req'[x] = req[x]
  /\ Slot(t)' /\ Slot(Late)'

(* No request, or the answer is read.                                      *)
LEMMA QuietFacts ==
  ASSUME AuthInv, NEW t \in Tabs, issued' = issued, UNCHANGED req \/ Receive(t)
  PROVE  SlotMove(t)
  <1> USE AuthAssumption DEF AuthInv
  <1>1. req \in [Slots -> Requests(issued)] /\ NoRequest \in Requests(issued)
    BY DEF AuthTypes, Requests
  <1>2. /\ req' \in [Slots -> Requests(issued)]
        /\ \A x \in Slots \ {t} : req'[x] = req[x]
        /\ req'[t] \in {req[t], NoRequest}
    BY <1>1 DEF Receive, Becomes, Slots
  <1>3. Slot(t) /\ Slot(Late)
    BY DEF SlotInv, Slots
  <1>4. Slot(Late)'
    BY <1>2, <1>3 DEF Slot, Pair, Slots
  <1>5. Slot(t)'
    <2>1. CASE req'[t] = req[t]
      BY <1>3, <2>1 DEF Slot, Pair
    <2>2. CASE req'[t] = NoRequest
      BY <2>2 DEF Slot, NoRequest
    <2> QED BY <1>2, <2>1, <2>2
  <1> QED BY <1>2, <1>4, <1>5 DEF SlotMove, Slots

(* A request is sent, with the jar of the moment.                          *)
LEMMA SendFacts ==
  ASSUME AuthInv, NEW t \in Tabs, issued' = issued, NEW kind \in Kinds, NEW arg \in Somebody,
         NEW actor \in Somebody, NEW asked \in Somebody, NEW j \in Jars(issued),
         Becomes(t, [Request(kind, arg, actor, asked) EXCEPT !.jar = j]),
         kind = "login" => arg \in Users,
         kind = "call" => actor = asked /\ actor \in Users
  PROVE  SlotMove(t) /\ req'[t].pc = "sent" /\ req'[t].kind = kind /\ req'[t].jar = j
  <1> USE AuthAssumption DEF AuthInv
  <1> DEFINE r == [pc |-> "sent", kind |-> kind, arg |-> arg, actor |-> actor, asked |-> asked,
                   jar |-> j, user |-> None, ver |-> 0]
  <1>1. r \in Pending(issued)
    BY DEF Pending, Somebody
  <1>2. r \in Requests(issued)
    BY <1>1 DEF Requests
  <1>0. [Request(kind, arg, actor, asked) EXCEPT !.jar = j] = r
    BY DEF Request
  <1>3. req' = [req EXCEPT ![t] = r] /\ req \in [Slots -> Requests(issued)]
    BY <1>0 DEF Becomes, AuthTypes
  <1>4. /\ req' \in [Slots -> Requests(issued)]
        /\ \A x \in Slots \ {t} : req'[x] = req[x]
        /\ req'[t] = r
    BY <1>2, <1>3 DEF Slots
  <1>5. Slot(Late)'
    BY <1>4 DEF SlotInv, Slot, Pair, Slots
  <1>6. Slot(t)'
    BY <1>4 DEF Slot
  <1> QED BY <1>4, <1>5, <1>6 DEF SlotMove, Slots

(* A request is sent, with the jar as it is.                               *)
LEMMA PlainSend ==
  ASSUME AuthInv, NEW kind, NEW arg, NEW actor, NEW asked
  PROVE  Request(kind, arg, actor, asked) = [Request(kind, arg, actor, asked) EXCEPT !.jar = jar]
  BY DEF Request

(* A step of a tab, from its parts.                                        *)
LEMMA MoveFacts ==
  ASSUME AuthInv, NEW t \in Tabs, NEW s, Becoming(t, s), SlotMove(t), UNCHANGED <<account, issued>>,
         \/ UNCHANGED <<jar, lock>>
         \/ /\ lock \in {t, None} /\ lock' \in Tabs \cup {None}
            /\ jar' \in Jars(issued)
  PROVE  TabMove(t)
  BY DEF AuthInv, AuthTypes, SlotMove, Becoming, TabMove

(* Holds, where no request of the lock's holder is under way.              *)
LEMMA Outside ==
  ASSUME NEW t \in Tabs, tab'[t].act.pc \in {"call", "recover", "enter"}
  PROVE  Holds(t)'
  BY DEF Holds, Doing

(* A request of the page, or the question who the user is.                 *)
LEMMA StartCallKeeps ==
  ASSUME AuthInv, NEW t \in Tabs, NEW op \in {"call", "me"}, StartCall(t, op)
  PROVE  AuthInv'
  <1> DEFINE a == [op |-> op, arg |-> None, pc |-> "call", actor |-> tab[t].principal,
                   asked |-> tab[t].user, retried |-> FALSE, stale |-> FALSE]
             s == [tab[t] EXCEPT !.boot = FALSE, !.act = a]
  <1>1. tab[t] \in TabStates /\ Shows(tab[t])
    BY StateFacts DEF AuthInv
  <1>2. op = "call" => tab[t].user \in Users /\ tab[t].principal = tab[t].user
    BY <1>1 DEF StartCall, TabStates, Somebody, Shows
  <1>3. a \in CallActs
    BY <1>1 DEF CallActs, TabStates, Pcs
  <1>4. s \in TabStates /\ Shows(s) /\ s.act = a
    BY <1>1, <1>2, <1>3 DEF TabStates, Shows
  <1>5. Becoming(t, s) /\ UNCHANGED <<account, issued, jar, lock>>
    BY DEF StartCall
  <1>6. /\ op \in Kinds /\ None \in Somebody /\ tab[t].principal \in Somebody
        /\ tab[t].user \in Somebody /\ jar \in Jars(issued)
    BY <1>1 DEF Kinds, Somebody, TabStates, AuthInv, AuthTypes
  <1>7. Becomes(t, [Request(op, None, tab[t].principal, tab[t].user) EXCEPT !.jar = jar])
    BY PlainSend DEF StartCall
  <1>8. SlotMove(t)
    BY <1>2, <1>5, <1>6, <1>7, SendFacts
  <1>9. TabMove(t)
    BY <1>5, <1>8, MoveFacts
  <1>10. s.act.pc = "call"
    BY <1>4
  <1> HIDE DEF s
  <1> QED BY <1>4, <1>5, <1>9, <1>10, GoesOn, Outside

(* The answer to a request: the tab is done with it, or goes to recover.   *)
LEMMA ReplyCallKeeps ==
  ASSUME AuthInv, NEW t \in Tabs, ReplyCall(t)
  PROVE  AuthInv'
  <1> DEFINE a == tab[t].act
             u == req[t].user
  <1>1. UNCHANGED <<account, issued, jar, lock>> /\ Receive(t)
    BY DEF ReplyCall
  <1>2. SlotMove(t)
    BY <1>1, QuietFacts
  <1>3. /\ tab[t] \in TabStates /\ Shows(tab[t])
        /\ \A p \in Somebody : Rebootstrap(t, p) \in TabStates /\ Shows(Rebootstrap(t, p))
        /\ \A v \in Somebody : SignedIn(v) \in TabStates /\ Shows(SignedIn(v))
        /\ [tab[t] EXCEPT !.user = None] \in TabStates
        /\ Shows([tab[t] EXCEPT !.user = None])
    BY StateFacts DEF AuthInv
  <1>4. None \in Somebody /\ u \in Somebody /\ a # NoAct
    BY DEF Somebody, AuthInv, AuthTypes, Slots, Requests, Pending, Answers, ReplyCall, Doing,
         NoRequest
  <1>5. CASE \E s \in TabStates : Shows(s) /\ Ends(t, s)
    <2>1. PICK s \in TabStates : Shows(s) /\ Ends(t, s)
      BY <1>5
    <2>2. TabMove(t)
      BY <1>1, <1>2, <2>1, MoveFacts DEF Ends
    <2> QED BY <2>1, <2>2, EndKeeps
  <1>6. CASE Step(t, "recover")
    <2> DEFINE s == [tab[t] EXCEPT !.act = [tab[t].act EXCEPT !.pc = "recover"]]
    <2>1. s \in TabStates /\ Shows(s) /\ s.act.pc = "recover"
      BY <1>4, ActFacts DEF Pcs, AuthInv
    <2>2. Becoming(t, s)
      BY <1>6 DEF Step
    <2> HIDE DEF s
    <2>3. TabMove(t)
      BY <1>1, <1>2, <2>2, MoveFacts
    <2> QED BY <2>1, <2>2, <2>3, GoesOn, Outside
  <1>7. (\E s \in TabStates : Shows(s) /\ Ends(t, s)) \/ Step(t, "recover")
    BY <1>3, <1>4 DEF ReplyCall
  <1> QED BY <1>5, <1>6, <1>7

(* A tab is done, and may leave the lock and change the jar if it held it. *)
LEMMA EndStep ==
  ASSUME AuthInv, NEW t \in Tabs, NEW s \in TabStates, Shows(s), Ends(t, s), SlotMove(t),
         UNCHANGED <<account, issued>>,
         \/ UNCHANGED <<jar, lock>>
         \/ /\ lock \in {t, None} /\ lock' \in Tabs \cup {None}
            /\ jar' \in Jars(issued)
  PROVE  AuthInv'
  <1>1. TabMove(t)
    BY MoveFacts DEF Ends
  <1> QED BY <1>1, EndKeeps

(* A tab goes on to another pc.                                            *)
LEMMA AdvanceStep ==
  ASSUME AuthInv, NEW t \in Tabs, NEW s \in TabStates, Shows(s), Becoming(t, s), SlotMove(t),
         UNCHANGED <<account, issued>>,
         \/ UNCHANGED <<jar, lock>>
         \/ /\ lock \in {t, None} /\ lock' \in Tabs \cup {None}
            /\ jar' \in Jars(issued),
         tab'[t] = s => Holds(t)'
  PROVE  AuthInv'
  <1>1. TabMove(t)
    BY MoveFacts
  <1> QED BY <1>1, GoesOn

(* A tab that begins to look who it is, inside the lock.                   *)
LEMMA InCheck ==
  ASSUME NEW t \in Tabs, tab'[t].act.pc = "check", lock' = t
  PROVE  Holds(t)'
  BY DEF Holds, Doing

(* A tab enters the lock to look who it is.                                *)
LEMMA CheckKeeps ==
  ASSUME AuthInv, NEW t \in Tabs, tab[t].act # NoAct, lock = None, Step(t, "check"),
         Send(t, "me", None, None), lock' = t, UNCHANGED <<account, issued, jar>>
  PROVE  AuthInv'
  <1> DEFINE s == [tab[t] EXCEPT !.act = [tab[t].act EXCEPT !.pc = "check"]]
  <1>1. s \in TabStates /\ Shows(s) /\ s.act.pc = "check" /\ tab[t].act.asked \in Somebody
    BY ActFacts DEF Pcs, AuthInv
  <1>2. Becoming(t, s)
    BY DEF Step
  <1>3. jar \in Jars(issued) /\ None \in Somebody /\ "me" \in Kinds
    BY DEF AuthInv, AuthTypes, Somebody, Kinds
  <1>4. Becomes(t, [Request("me", None, None, tab[t].act.asked) EXCEPT !.jar = jar])
    BY PlainSend DEF Send
  <1>5. SlotMove(t)
    BY <1>1, <1>3, <1>4, SendFacts
  <1> HIDE DEF s
  <1> QED BY <1>1, <1>2, <1>3, <1>5, AdvanceStep, InCheck

(* recover.                                                                *)
LEMMA EnterRecoverKeeps ==
  ASSUME AuthInv, NEW t \in Tabs, EnterRecover(t)
  PROVE  AuthInv'
  <1>1. /\ tab[t].act # NoAct /\ lock = None /\ UNCHANGED <<account, issued, jar>>
        /\ tab[t] \in TabStates /\ Shows(tab[t])
    BY StateFacts DEF EnterRecover, Doing, LockFree, AuthInv
  <1>2. CASE tab[t].act.stale
    <2>1. Ends(t, tab[t]) /\ UNCHANGED <<req, lock>>
      BY <1>2 DEF EnterRecover
    <2> QED BY <1>1, <2>1, QuietFacts, EndStep
  <1>3. CASE ~ tab[t].act.stale
    BY <1>1, <1>3, CheckKeeps DEF EnterRecover
  <1> QED BY <1>2, <1>3

(* A mutation is sent, inside the lock.                                    *)
LEMMA MutateKeeps ==
  ASSUME AuthInv, NEW t \in Tabs, NEW b, b \in {tab[t], [tab[t] EXCEPT !.principal = req[t].user]},
         b \in TabStates, Shows(b), b.act = tab[t].act, tab[t].act # NoAct,
         tab[t].act.op \notin {"call", "me"}, lock \in {t, None}, lock' = t,
         Becoming(t, [b EXCEPT !.act = [b.act EXCEPT !.pc = "mutate"]]),
         Send(t, tab[t].act.op, tab[t].act.arg, tab[t].act.actor), UNCHANGED <<account, issued, jar>>
  PROVE  AuthInv'
  <1> DEFINE a == tab[t].act
             d == [a EXCEPT !.pc = "mutate"]
             s == [b EXCEPT !.act = d]
  <1>1. a \in MutationActs
    BY DEF TabStates, CallActs
  <1>2. /\ d \in MutationActs /\ d.pc = "mutate" /\ d.op = a.op /\ d.arg = a.arg
        /\ a.op \in {"login", "logout", "change"} /\ a.asked \in Somebody
        /\ a.actor \in Somebody /\ a.arg \in Somebody
    BY <1>1 DEF MutationActs, Pcs, Somebody
  <1>3. s \in TabStates /\ s.act = d /\ Shows(s)
    BY <1>2 DEF TabStates, Shows
  <1>4. jar \in Jars(issued) /\ a.op \in Kinds /\ (a.op = "login" => a.arg \in Users)
    BY <1>2 DEF AuthInv, AuthTypes, Kinds, Shows
  <1>5. Becomes(t, [Request(a.op, a.arg, a.actor, a.asked) EXCEPT !.jar = jar])
    BY PlainSend DEF Send
  <1>6. SlotMove(t) /\ req'[t].pc = "sent" /\ req'[t].kind = a.op
    BY <1>2, <1>4, <1>5, SendFacts
  <1>7. tab'[t] = s => Holds(t)'
    BY <1>2, <1>3, <1>6 DEF Holds, Doing
  <1>8. Becoming(t, s)
    OBVIOUS
  <1> HIDE DEF s
  <1> QED BY <1>3, <1>4, <1>6, <1>7, <1>8, AdvanceStep

(* The tab knows who the user of the cookies is.                           *)
LEMMA VerifiedKeeps ==
  ASSUME AuthInv, NEW t \in Tabs, tab[t].act # NoAct, lock = t, req[t].user \in Somebody,
         Verified(t, req[t].user), UNCHANGED <<account, issued, jar>>
  PROVE  AuthInv'
  <1> DEFINE u == req[t].user
             a == tab[t].act
             b == [tab[t] EXCEPT !.principal = u]
  <1>1. /\ tab[t] \in TabStates /\ Shows(tab[t])
        /\ Rebootstrap(t, u) \in TabStates /\ Shows(Rebootstrap(t, u))
        /\ jar \in Jars(issued)
    BY StateFacts DEF AuthInv, AuthTypes
  <1>2. ~ Foreign(t, u) => b \in TabStates /\ Shows(b) /\ b.act = a
    BY <1>1 DEF Foreign, TabStates, Shows
  <1>3. CASE /\ Receive(t) /\ lock' = None
             /\ \/ Foreign(t, u) /\ Ends(t, Rebootstrap(t, u))
                \/ ~ Foreign(t, u) /\ Ends(t, b)
    BY <1>1, <1>2, <1>3, QuietFacts, EndStep
  <1>4. CASE /\ ~ Foreign(t, u) /\ ~ a.stale /\ a.op \in {"call", "me"}
             /\ Becoming(t, [b EXCEPT !.act = [a EXCEPT !.pc = "call", !.retried = TRUE]])
             /\ Send(t, a.op, None, IF a.actor = None THEN u ELSE a.actor)
             /\ lock' = None
    <2> DEFINE d == [a EXCEPT !.pc = "call", !.retried = TRUE]
               s == [b EXCEPT !.act = d]
               actor == IF a.actor = None THEN u ELSE a.actor
    <2>1. a \in CallActs
      BY <1>1, <1>4 DEF TabStates, MutationActs
    <2>2. /\ d \in CallActs /\ d.pc = "call" /\ d.op = a.op /\ d.actor = a.actor
          /\ d.asked = a.asked /\ a.asked \in Somebody /\ a.actor \in Somebody
      BY <2>1 DEF CallActs, Pcs
    <2>3. s \in TabStates /\ s.act = d /\ Shows(s)
      BY <1>1, <1>2, <1>4, <2>2 DEF TabStates, Shows
    <2>4. /\ actor \in Somebody /\ a.op \in Kinds /\ None \in Somebody
          /\ a.op = "call" => actor = a.asked /\ actor \in Users
      BY <1>1, <1>4, <2>2, AuthAssumption DEF Somebody, Kinds, Shows
    <2>5. Becomes(t, [Request(a.op, None, actor, a.asked) EXCEPT !.jar = jar])
      BY <1>4, PlainSend DEF Send
    <2>6. SlotMove(t)
      BY <1>1, <1>4, <2>2, <2>4, <2>5, SendFacts
    <2>7. s.act.pc = "call" /\ Becoming(t, s) /\ lock' = None
      BY <1>4, <2>2, <2>3
    <2> HIDE DEF s
    <2> QED BY <1>1, <2>3, <2>6, <2>7, AdvanceStep, Outside
  <1>5. CASE /\ ~ Foreign(t, u) /\ a.op \notin {"call", "me"}
             /\ Becoming(t, [b EXCEPT !.act = [a EXCEPT !.pc = "mutate"]])
             /\ Send(t, a.op, a.arg, a.actor)
             /\ UNCHANGED lock
    BY <1>2, <1>5, MutateKeeps
  <1> QED BY <1>3, <1>4, <1>5 DEF Verified

(* What an answer says.                                                    *)
LEMMA AnsweredFacts ==
  ASSUME AuthInv, NEW t \in Tabs, req[t].pc = "answered"
  PROVE  /\ req[t] \in Answers(issued) /\ req[t].user \in Somebody
         /\ req[t].status \in {200, 401, 409} /\ req[t].cookies \in Jars(issued) \cup {Keep}
         /\ Slot(t) /\ Holds(t)
  <1>1. req[t] \in Answers(issued)
    BY DEF AuthInv, AuthTypes, Slots, Requests, Pending, NoRequest
  <1>2. Slot(t) /\ Holds(t)
    BY DEF AuthInv, SlotInv, HolderInv, Slots
  <1> QED BY <1>1, <1>2 DEF Answers

(* The answer to the question who the user is, asked inside the lock.      *)
LEMMA ReplyCheckKeeps ==
  ASSUME AuthInv, NEW t \in Tabs, ReplyCheck(t)
  PROVE  AuthInv'
  <1>1. /\ tab[t].act # NoAct /\ lock = t /\ UNCHANGED <<account, issued, jar>>
        /\ req[t].user \in Somebody
        /\ tab[t] \in TabStates /\ Shows(tab[t])
        /\ [tab[t] EXCEPT !.user = None] \in TabStates /\ Shows([tab[t] EXCEPT !.user = None])
    <2>1. Holds(t) /\ req[t].user \in Somebody
      BY AnsweredFacts DEF ReplyCheck
    <2>2. lock = t
      BY <2>1 DEF ReplyCheck, Holds, Doing
    <2> QED BY <2>1, <2>2, StateFacts DEF ReplyCheck, Doing, AuthInv
  <1>2. CASE Verified(t, req[t].user)
    BY <1>1, <1>2, VerifiedKeeps
  <1>3. CASE Step(t, "refresh") /\ Send(t, "refresh", None, None) /\ UNCHANGED lock
    <2> DEFINE s == [tab[t] EXCEPT !.act = [tab[t].act EXCEPT !.pc = "refresh"]]
    <2>1. s \in TabStates /\ Shows(s) /\ s.act.pc = "refresh" /\ tab[t].act.asked \in Somebody
      BY <1>1, ActFacts DEF Pcs, AuthInv
    <2>2. Becoming(t, s)
      BY <1>3 DEF Step
    <2>3. jar \in Jars(issued) /\ None \in Somebody /\ "refresh" \in Kinds
      BY DEF AuthInv, AuthTypes, Somebody, Kinds
    <2>4. Becomes(t, [Request("refresh", None, None, tab[t].act.asked) EXCEPT !.jar = jar])
      BY <1>3, PlainSend DEF Send
    <2>5. /\ SlotMove(t) /\ req'[t].pc = "sent" /\ req'[t].kind = "refresh"
          /\ req'[t].jar = jar
      BY <1>1, <2>1, <2>3, <2>4, SendFacts
    <2> HIDE DEF s
    <2>6. tab'[t] = s => Holds(t)'
      BY <1>1, <1>3, <2>1, <2>5 DEF Holds, Doing
    <2> QED BY <1>1, <1>3, <2>1, <2>2, <2>5, <2>6, AdvanceStep
  <1>4. CASE Expired(t)
    <2>1. PICK s \in {tab[t], [tab[t] EXCEPT !.user = None]} : Ends(t, s)
      BY <1>4 DEF Expired
    <2>2. Receive(t) /\ lock' = None /\ jar \in Jars(issued)
      BY <1>4 DEF Expired, AuthInv, AuthTypes
    <2> QED BY <1>1, <2>1, <2>2, QuietFacts, EndStep
  <1> QED BY <1>2, <1>3, <1>4 DEF ReplyCheck

(* The answer to a refresh.                                                *)
LEMMA ReplyRefreshKeeps ==
  ASSUME AuthInv, NEW t \in Tabs, ReplyRefresh(t)
  PROVE  AuthInv'
  <1> DEFINE r == req[t]
  <1>1. /\ tab[t].act # NoAct /\ lock = t /\ UNCHANGED <<account, issued>>
        /\ r.pc = "answered" /\ r.kind = "refresh" /\ Slot(t)
        /\ tab[t] \in TabStates /\ Shows(tab[t])
        /\ [tab[t] EXCEPT !.user = None] \in TabStates /\ Shows([tab[t] EXCEPT !.user = None])
    <2>1. Holds(t) /\ Slot(t)
      BY AnsweredFacts DEF ReplyRefresh
    <2>2. lock = t /\ r.kind = "refresh"
      BY <2>1 DEF ReplyRefresh, Holds, Doing
    <2> QED BY <2>1, <2>2, StateFacts DEF ReplyRefresh, Doing, AuthInv
  <1>2. CASE r.status = 200
    <2> DEFINE s == [tab[t] EXCEPT !.act = [tab[t].act EXCEPT !.pc = "recheck"]]
    <2>1. s \in TabStates /\ Shows(s) /\ s.act.pc = "recheck" /\ tab[t].act.asked \in Somebody
      BY <1>1, ActFacts DEF Pcs, AuthInv
    <2>2. jar' \in Jars(issued) /\ Pair(jar') /\ Becoming(t, s) /\ UNCHANGED lock
      BY <1>1, <1>2 DEF ReplyRefresh, Step, Slot
    <2>3. None \in Somebody /\ "me" \in Kinds
      BY DEF Somebody, Kinds
    <2>4. Becomes(t, [Request("me", None, None, tab[t].act.asked) EXCEPT !.jar = jar'])
      BY <1>2 DEF ReplyRefresh
    <2>5. /\ SlotMove(t) /\ req'[t].pc = "sent" /\ req'[t].kind = "me"
          /\ req'[t].jar = jar'
      BY <1>1, <2>1, <2>2, <2>3, <2>4, SendFacts
    <2> HIDE DEF s
    <2>6. Pair(req[t].jar)'
      BY <2>2, <2>5 DEF Pair
    <2>7. tab'[t] = s => Holds(t)'
      BY <1>1, <2>1, <2>2, <2>5, <2>6 DEF Holds, Doing
    <2> QED BY <1>1, <2>1, <2>2, <2>5, <2>7, AdvanceStep DEF AuthInv, AuthTypes
  <1>3. CASE r.status # 200
    <2>1. PICK s \in {tab[t], [tab[t] EXCEPT !.user = None]} : Ends(t, s)
      BY <1>3 DEF ReplyRefresh, Expired
    <2>2. Receive(t) /\ lock' = None /\ jar' = jar /\ jar \in Jars(issued)
      BY <1>3 DEF ReplyRefresh, Expired, AuthInv, AuthTypes
    <2> QED BY <1>1, <2>1, <2>2, QuietFacts, EndStep
  <1> QED BY <1>2, <1>3

(* A mutation is begun.                                                    *)
LEMMA StartMutationKeeps ==
  ASSUME AuthInv, NEW t \in Tabs, NEW m \in Mutations, StartMutation(t, m.op, m.arg)
  PROVE  AuthInv'
  <1> DEFINE a == [op |-> m.op, arg |-> m.arg, pc |-> "enter", asked |-> None, stale |-> FALSE,
                   actor |-> IF m.op = "change" THEN tab[t].principal ELSE None]
             s == [tab[t] EXCEPT !.act = a]
  <1>1. tab[t] \in TabStates /\ Shows(tab[t])
    BY StateFacts DEF AuthInv
  <1>2. /\ m.op \in {"login", "logout", "change"} /\ m.arg \in Somebody
        /\ m.op = "login" => m.arg \in Users
    BY DEF Mutations, Somebody
  <1>3. a \in MutationActs
    BY <1>1, <1>2 DEF MutationActs, TabStates, Pcs, Somebody
  <1>4. s \in TabStates /\ Shows(s) /\ s.act.pc = "enter"
    BY <1>1, <1>2, <1>3 DEF TabStates, Shows
  <1>5. Becoming(t, s) /\ UNCHANGED <<account, issued, req, jar, lock>>
    BY DEF StartMutation, server
  <1>6. SlotMove(t)
    BY <1>5, QuietFacts
  <1> HIDE DEF s
  <1> QED BY <1>4, <1>5, <1>6, AdvanceStep, Outside

(* A mutation enters the lock.                                             *)
LEMMA EnterMutationKeeps ==
  ASSUME AuthInv, NEW t \in Tabs, EnterMutation(t)
  PROVE  AuthInv'
  <1> DEFINE a == tab[t].act
  <1>1. /\ a # NoAct /\ lock = None /\ UNCHANGED <<account, issued, jar>>
        /\ tab[t] \in TabStates /\ Shows(tab[t])
    BY StateFacts DEF EnterMutation, Doing, AuthInv
  <1>2. CASE Ends(t, tab[t]) /\ UNCHANGED <<req, lock>>
    BY <1>1, <1>2, QuietFacts, EndStep
  <1>3. CASE Step(t, "check") /\ Send(t, "me", None, None) /\ lock' = t
    BY <1>1, <1>3, CheckKeeps
  <1>4. CASE Step(t, "mutate") /\ Send(t, a.op, a.arg, a.actor) /\ lock' = t
    <2>1. a.op \notin {"call", "me"}
      BY <1>1 DEF EnterMutation, Doing, Shows
    <2> QED BY <1>1, <1>4, <2>1, MutateKeeps DEF Step
  <1> QED BY <1>2, <1>3, <1>4 DEF EnterMutation

(* The answer to a mutation.                                               *)
LEMMA ReplyMutationKeeps ==
  ASSUME AuthInv, NEW t \in Tabs, ReplyMutation(t)
  PROVE  AuthInv'
  <1> DEFINE r == req[t]
  <1>1. /\ lock = t /\ lock' = None /\ UNCHANGED <<account, issued>> /\ Receive(t)
        /\ r.user \in Somebody /\ r.cookies \in Jars(issued) \cup {Keep}
    BY AnsweredFacts DEF ReplyMutation, Holds, Doing
  <1>2. jar' \in Jars(issued) /\ SlotMove(t)
    BY <1>1, QuietFacts DEF ReplyMutation, AuthInv, AuthTypes
  <1>3. /\ tab[t] \in TabStates /\ Shows(tab[t])
        /\ Rebootstrap(t, None) \in TabStates /\ Shows(Rebootstrap(t, None))
        /\ SignedIn(r.user) \in TabStates /\ Shows(SignedIn(r.user))
    BY <1>1, StateFacts DEF AuthInv, Somebody
  <1>4. CASE \E s \in {tab[t], Rebootstrap(t, None)} : Ends(t, s)
    BY <1>1, <1>2, <1>3, <1>4, EndStep
  <1>5. CASE Becoming(t, [SignedIn(r.user) EXCEPT !.boot = tab[t].boot])
    <2> DEFINE s == [SignedIn(r.user) EXCEPT !.boot = tab[t].boot]
    <2>1. s \in TabStates /\ Shows(s) /\ s.act = NoAct
      BY <1>3 DEF SignedIn, TabStates, Shows, NoAct
    <2>2. Becoming(t, s)
      BY <1>5
    <2> HIDE DEF s
    <2>3. tab'[t] = s => Holds(t)'
      BY <2>1 DEF Holds, Doing
    <2> QED BY <1>1, <1>2, <2>1, <2>2, <2>3, AdvanceStep
  <1> QED BY <1>4, <1>5 DEF ReplyMutation

(* News of another tab.                                                    *)
LEMMA HearNewsKeeps ==
  ASSUME AuthInv, NEW t \in Tabs, HearNews(t)
  PROVE  AuthInv'
  <1> DEFINE a == tab[t].act
             b == Rebootstrap(t, tab[t].principal)
             d == IF a = NoAct THEN a ELSE [a EXCEPT !.stale = TRUE]
             s == [b EXCEPT !.act = d]
  <1>1. /\ UNCHANGED <<account, issued, req, jar, lock>>
        /\ tab[t] \in TabStates /\ b \in TabStates /\ Shows(b) /\ b.act = a
    BY StateFacts DEF HearNews, server, AuthInv, TabStates, Rebootstrap
  <1>2. a \in {NoAct} \cup CallActs \cup MutationActs
    BY <1>1 DEF TabStates
  <1>3. /\ d \in {NoAct} \cup CallActs \cup MutationActs
        /\ d.op = a.op /\ (a = NoAct => d = NoAct)
        /\ (a # NoAct => d.pc = a.pc /\ d.actor = a.actor /\ d.asked = a.asked /\ d.arg = a.arg)
    <2>1. CASE a = NoAct
      BY <2>1
    <2>2. CASE a # NoAct /\ a \in CallActs
      BY <2>2 DEF CallActs
    <2>3. CASE a # NoAct /\ a \in MutationActs
      BY <2>3 DEF MutationActs
    <2> QED BY <1>2, <2>1, <2>2, <2>3
  <1>4. s \in TabStates /\ s.act = d /\ s.user = b.user /\ s.principal = b.principal
    BY <1>1, <1>3 DEF TabStates
  <1>5. Shows(s)
    <2>1. Shows(b) /\ Shows(tab[t])
      BY <1>1, StateFacts DEF AuthInv
    <2>2. CASE a = NoAct
      BY <1>1, <1>3, <1>4, <2>1, <2>2 DEF Shows
    <2>3. CASE a # NoAct
      BY <1>1, <1>3, <1>4, <2>1, <2>3 DEF Shows
    <2> QED BY <2>2, <2>3
  <1>6. Becoming(t, s)
    <2>1. a = NoAct => s = b
      BY <1>1 DEF TabStates
    <2> QED BY <1>1, <2>1 DEF HearNews
  <1>7. SlotMove(t)
    BY <1>1, QuietFacts
  <1>8. tab'[t] = s => Holds(t)'
    <2> SUFFICES ASSUME tab'[t] = s PROVE Holds(t)'
      OBVIOUS
    <2>1. Holds(t)
      BY DEF AuthInv, HolderInv
    <2>2. ASSUME NEW pcs, Doing(t, pcs)' PROVE Doing(t, pcs) /\ tab'[t].act.op = tab[t].act.op
      BY <1>3, <1>4, <2>2 DEF Doing
    <2>3. LiveRefresh(jar.refresh)' = LiveRefresh(jar.refresh)
      BY <1>1 DEF LiveRefresh
    <2> HIDE DEF s
    <2> QED BY <1>1, <2>1, <2>2, <2>3 DEF Holds, Pair
  <1> HIDE DEF s
  <1> QED BY <1>1, <1>4, <1>5, <1>6, <1>7, <1>8, AdvanceStep

(* A tab gives up, or is closed, with a request under way.                 *)
LEMMA GiveUpKeeps ==
  ASSUME AuthInv, NEW t \in Tabs, NEW reload \in BOOLEAN, GiveUp(t, reload)
  PROVE  AuthInv'
  <1> USE AuthAssumption
  <1>1. /\ UNCHANGED <<account, issued, jar>>
        /\ tab[t] \in TabStates /\ Shows(tab[t]) /\ NewTab \in TabStates /\ Shows(NewTab)
        /\ \/ lock = t /\ lock' = None
           \/ lock' = lock
        /\ jar \in Jars(issued)
    BY StateFacts DEF GiveUp, AuthInv, AuthTypes
  <1>2. SlotMove(t)
    <2>1. CASE Receive(t)
      BY <1>1, <2>1, QuietFacts
    <2>2. CASE /\ req[t].pc \in {"sent", "work"}
               /\ req' = [req EXCEPT ![t] = NoRequest, ![Late] = req[t]]
      <3>1. req \in [Slots -> Requests(issued)] /\ NoRequest \in Requests(issued) /\ Slot(t)
        BY DEF AuthInv, AuthTypes, SlotInv, Slots, Requests
      <3>2. /\ req' \in [Slots -> Requests(issued)]
            /\ \A x \in Tabs \ {t} : req'[x] = req[x]
            /\ req'[t] = NoRequest /\ req'[Late] = req[t]
        BY <2>2, <3>1 DEF Slots
      <3>3. Slot(t)' /\ Slot(Late)'
        BY <1>1, <2>2, <3>1, <3>2 DEF Slot, NoRequest
      <3> QED BY <3>2, <3>3 DEF SlotMove
    <2> QED BY <2>1, <2>2 DEF GiveUp, Receive, Becomes
  <1>3. CASE reload
    <2>1. Becoming(t, NewTab)
      BY <1>3 DEF GiveUp
    <2>2. tab'[t] = NewTab => Holds(t)'
      BY DEF Holds, Doing, NewTab
    <2> QED BY <1>1, <1>2, <2>1, <2>2, AdvanceStep
  <1>4. CASE ~ reload
    <2>1. Ends(t, tab[t])
      BY <1>4 DEF GiveUp
    <2> QED BY <1>1, <1>2, <2>1, EndStep
  <1> QED BY <1>3, <1>4

(* An access token runs out; the refresh token stays.                      *)
LEMMA AccessExpiresKeeps ==
  ASSUME AuthInv, AccessExpires
  PROVE  AuthInv'
  <1> USE DEF AuthInv
  <1>1. UNCHANGED <<account, issued, req, lock, tab>> /\ jar' = [jar EXCEPT !.access = None]
    BY DEF AccessExpires, server
  <1>2. jar' \in Jars(issued) /\ jar'.refresh = jar.refresh
    BY <1>1 DEF AuthTypes, Jars
  <1>3. AuthTypes'
    BY <1>1, <1>2 DEF AuthTypes, ServerTypes
  <1>4. LiveSessionsProvedThePassword' /\ SlotInv' /\ TabInv'
    BY <1>1 DEF LiveSessionsProvedThePassword, SlotInv, Slot, Pair, TabInv, Shows
  <1>5. HolderInv'
    <2> SUFFICES ASSUME NEW t \in Tabs PROVE Holds(t)'
      BY DEF HolderInv
    <2>1. Holds(t) /\ LiveRefresh(jar.refresh)' = LiveRefresh(jar.refresh)
      BY <1>1, <1>2 DEF HolderInv, LiveRefresh
    <2> QED BY <1>1, <1>2, <2>1 DEF Holds, Doing, Pair
  <1> QED BY <1>3, <1>4, <1>5

-----------------------------------------------------------------------------
(* The invariant holds in every reachable state.                           *)
LEMMA AuthInvariant == AuthSpec => []AuthInv
  <1>1. AuthInit => AuthInv
    <2> SUFFICES ASSUME AuthInit PROVE AuthInv
      OBVIOUS
    <2>1. PICK u \in Users :
            /\ account = [v \in Users |-> [version |-> 0, checked |-> 0,
                                           refresh |-> IF v = u THEN 1 ELSE 0]]
            /\ jar = CookiesFor(u, 1)
            /\ tab = [t \in Tabs |-> SignedIn(u)]
      BY DEF AuthInit
    <2>2. issued = 1 /\ req = [c \in Slots |-> NoRequest] /\ lock = None
      BY DEF AuthInit
    <2>3. ServerTypes
      BY <2>1, <2>2 DEF ServerTypes, Accounts
    <2>4. jar \in Jars(issued)
      BY <2>1, <2>2, <2>3, CookieFacts
    <2>5. SignedIn(u) \in TabStates /\ Shows(SignedIn(u)) /\ SignedIn(u).act = NoAct
      BY <2>1 DEF SignedIn, TabStates, Shows, NoAct, Somebody
    <2>6. tab \in [Tabs -> TabStates] /\ \A t \in Tabs : tab[t] = SignedIn(u)
      BY <2>1, <2>5
    <2>7. req \in [Slots -> Requests(issued)] /\ \A c \in Slots : req[c] = NoRequest
      BY <2>2 DEF Requests
    <2>8. AuthTypes
      BY <2>2, <2>3, <2>4, <2>6, <2>7 DEF AuthTypes
    <2>9. LiveSessionsProvedThePassword
      BY <2>1 DEF LiveSessionsProvedThePassword
    <2>10. SlotInv
      BY <2>7 DEF SlotInv, Slot, NoRequest
    <2>11. TabInv /\ HolderInv
      BY <2>5, <2>6 DEF TabInv, HolderInv, Holds, Doing
    <2> QED BY <2>8, <2>9, <2>10, <2>11 DEF AuthInv
  <1>2. AuthInv /\ [AuthNext]_authVars => AuthInv'
    <2> SUFFICES ASSUME AuthInv, [AuthNext]_authVars PROVE AuthInv'
      OBVIOUS
    <2>1. CASE ServerNext /\ UNCHANGED <<jar, lock, news, tab, acts>>
      BY <2>1, ServerKeeps
    <2>2. ASSUME NEW t \in Tabs, TabNext(t) PROVE AuthInv'
      BY <2>2, StartCallKeeps, ReplyCallKeeps, EnterRecoverKeeps, ReplyCheckKeeps,
         ReplyRefreshKeeps, StartMutationKeeps, EnterMutationKeeps, ReplyMutationKeeps,
         HearNewsKeeps, GiveUpKeeps DEF TabNext
    <2>3. CASE AccessExpires
      BY <2>3, AccessExpiresKeeps
    <2>4. CASE UNCHANGED authVars
      <3>1. UNCHANGED <<account, issued, req, jar, lock, tab>>
        BY <2>4 DEF authVars, server
      <3>2. AuthTypes'
        BY <3>1 DEF AuthInv, AuthTypes, ServerTypes
      <3>3. LiveSessionsProvedThePassword' /\ SlotInv' /\ TabInv'
        BY <3>1 DEF AuthInv, LiveSessionsProvedThePassword, SlotInv, Slot, Pair, TabInv, Shows
      <3>4. HolderInv'
        BY <3>1 DEF AuthInv, HolderInv, Holds, Doing, Pair, LiveRefresh
      <3> QED BY <3>2, <3>3, <3>4 DEF AuthInv
    <2> QED BY <2>1, <2>2, <2>3, <2>4 DEF AuthNext
  <1> QED BY <1>1, <1>2, PTL DEF AuthSpec

(* LiveSessionsProvedThePassword: saveRefreshToken has the version of the  *)
(* row the password was compared with in its WHERE, and refresh the old    *)
(* token, so that neither outlives a change, a reset or a revocation.      *)
THEOREM SessionsProved == AuthSpec => []LiveSessionsProvedThePassword
  <1>1. AuthInv => LiveSessionsProvedThePassword
    BY DEF AuthInv
  <1> QED BY <1>1, AuthInvariant, PTL

(* RequestsRunAsTheirUser: a page names its user in X-Session-User, and    *)
(* JwtAuthGuard compares that with the cookies, also when the request is   *)
(* repeated after a refresh.                                               *)
THEOREM RequestsMatch == AuthSpec => []RequestsRunAsTheirUser
  <1>1. AuthInv => RequestsRunAsTheirUser
    BY DEF AuthInv, SlotInv, Slot, Slots, RequestsRunAsTheirUser
  <1> QED BY <1>1, AuthInvariant, PTL

(* SignedOutOnlyWhenOver: recover looks again inside the Web Lock before   *)
(* and after it refreshes, so that the loser of a race is not told that    *)
(* the session is over.                                                    *)
THEOREM SignedOutOnlyThen == AuthSpec => []SignedOutOnlyWhenOver
  <1>1. AuthInv => SignedOutOnlyWhenOver
    <2> SUFFICES ASSUME AuthInv, NEW t \in Tabs, req[t].pc = "answered", req[t].status = 401,
                        Doing(t, {"refresh", "recheck"})
                 PROVE  ~ LiveRefresh(jar.refresh)
      BY DEF SignedOutOnlyWhenOver
    <2>1. Holds(t)
      BY DEF AuthInv, HolderInv
    <2> QED BY <2>1 DEF Holds, Doing
  <1> QED BY <1>1, AuthInvariant, PTL

(* LateRefreshCannotUndoLogout: a refresh whose answer arrives is the one  *)
(* of the tab inside the lock, and nobody else clears the cookies.         *)
THEOREM LogoutStands == AuthSpec => LateRefreshCannotUndoLogout
  <1> DEFINE Undone == jar = NoCookies /\ jar' # NoCookies =>
               \E t \in Tabs : tab[t].act.op = "login" /\ req[t].pc = "answered"
  <1>1. AuthInv /\ [AuthNext]_authVars => [Undone]_authVars
    <2> SUFFICES ASSUME AuthInv, AuthNext, jar = NoCookies, jar' # NoCookies
                 PROVE  \E t \in Tabs : tab[t].act.op = "login" /\ req[t].pc = "answered"
      OBVIOUS
    <2>0. jar.access = None /\ jar.refresh = None
      BY DEF NoCookies
    <2>1. PICK t \in Tabs : ReplyRefresh(t) \/ ReplyMutation(t)
      BY <2>0 DEF AuthNext, TabNext, AccessExpires, StartCall, ReplyCall, EnterRecover, ReplyCheck,
           StartMutation, EnterMutation, HearNews, GiveUp
    <2>2. req[t].pc = "answered" /\ Slot(t) /\ Holds(t)
      BY <2>1, AnsweredFacts DEF ReplyRefresh, ReplyMutation
    <2>3. CASE ReplyRefresh(t)
      BY <2>0, <2>2, <2>3 DEF ReplyRefresh, Holds, Doing
    <2>4. CASE ReplyMutation(t)
      <3>1. req[t].kind = tab[t].act.op /\ req[t].kind \in {"login", "logout", "change"}
        BY <2>2, <2>4 DEF ReplyMutation, Holds, Doing
      <3>2. req[t].cookies \notin {Keep, NoCookies}
        BY <2>4 DEF ReplyMutation
      <3> QED BY <2>2, <3>1, <3>2 DEF Slot
    <2> QED BY <2>1, <2>3, <2>4
  <1> QED BY <1>1, AuthInvariant, PTL DEF AuthSpec, LateRefreshCannotUndoLogout
=============================================================================
