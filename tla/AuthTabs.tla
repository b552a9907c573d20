-------------------------------- MODULE AuthTabs --------------------------------
(***************************************************************************)
(* The tabs of one browser (frontend/src/lib/session-coordinator.ts,       *)
(* api.ts, store/auth.store.ts).  They share the cookies, which change     *)
(* when an answer arrives, and a Web Lock; they tell each other of a       *)
(* changed account over a channel, late or never.                          *)
(*                                                                         *)
(* A tab does one thing at a time.  act.stale says that its identity       *)
(* counter moved since act began: assertIdentity fails.                    *)
(***************************************************************************)
EXTENDS AuthServer

CONSTANT MaxActs  \* bound: requests and mutations the users start

VARIABLES
  acts,  \* how many they have started
  jar,   \* the browser's cookies
  lock,  \* the tab that holds 'proctolearn-auth-session'
  news,  \* tabs with an unread 'changed' message
  tab    \* tab[t]: user shown, principal, bootstrap due, current action

authVars == <<server, jar, lock, news, tab, acts>>

NoAct == [op |-> "none"]
NewTab == [user |-> None, principal |-> None, boot |-> TRUE, act |-> NoAct]
SignedIn(u) == [user |-> u, principal |-> u, boot |-> FALSE, act |-> NoAct]

AuthInit ==
  /\ \E u \in Users :
       /\ account = [v \in Users |-> [version |-> 0, checked |-> 0,
                                      refresh |-> IF v = u THEN 1 ELSE 0]]
       /\ jar = CookiesFor(u, 1)
       /\ tab = [t \in Tabs |-> SignedIn(u)]
  /\ issued = 1
  /\ req = [c \in Slots |-> NoRequest]
  /\ lock = None
  /\ news = {}
  /\ acts = 0

Doing(t, pcs) == tab[t].act # NoAct /\ tab[t].act.pc \in pcs
Becoming(t, s) == tab' = [tab EXCEPT ![t] = s]
Step(t, pc) == Becoming(t, [tab[t] EXCEPT !.act = [tab[t].act EXCEPT !.pc = pc]])
Ends(t, s) == Becoming(t, [s EXCEPT !.act = NoAct])

Request(kind, arg, actor, asked) ==
  [pc |-> "sent", kind |-> kind, arg |-> arg, actor |-> actor, asked |-> asked,
   jar |-> jar, user |-> None, ver |-> 0]
Send(t, kind, arg, actor) == Becomes(t, Request(kind, arg, actor, tab[t].act.asked))
Receive(t) == Becomes(t, NoRequest)

(* notifyAuth('changed'): forget the user, ask again who it is. *)
Rebootstrap(t, principal) ==
  [tab[t] EXCEPT !.user = None, !.principal = principal, !.boot = TRUE]

(* observePrincipal: another user than the one we knew *)
Foreign(t, u) == tab[t].principal \notin {None, u}

-----------------------------------------------------------------------------
(* A request of the page, or the bootstrap fetchMe *)

Starts == acts < MaxActs /\ acts' = acts + 1

StartCall(t, op) ==
  /\ tab[t].act = NoAct
  /\ IF op = "me" THEN tab[t].boot /\ UNCHANGED acts
     ELSE ~ tab[t].boot /\ tab[t].user # None /\ Starts
  /\ LET asked == tab[t].user
         actor == tab[t].principal IN
     /\ Becoming(t, [tab[t] EXCEPT !.boot = FALSE,
          !.act = [op |-> op, arg |-> None, pc |-> "call", actor |-> actor, asked |-> asked,
                   retried |-> FALSE, stale |-> FALSE]])
     /\ Becomes(t, Request(op, None, actor, asked))
  /\ UNCHANGED <<account, issued, jar, lock, news>>

ReplyCall(t) ==
  LET r == req[t]  a == tab[t].act IN
  /\ Doing(t, {"call"}) /\ r.pc = "answered"
  /\ \/ a.stale /\ Ends(t, tab[t])
     \/ ~ a.stale /\ r.status = 409 /\ Ends(t, Rebootstrap(t, None))
     \/ /\ ~ a.stale /\ r.status = 401
        /\ IF a.retried
           THEN Ends(t, IF a.op = "me" THEN [tab[t] EXCEPT !.user = None] ELSE tab[t])
           ELSE Step(t, "recover")
     \/ /\ ~ a.stale /\ r.status = 200
        /\ Ends(t, IF a.op = "call" THEN tab[t]
                   ELSE IF Foreign(t, r.user) THEN Rebootstrap(t, r.user) ELSE SignedIn(r.user))
  /\ Receive(t)
  /\ UNCHANGED <<account, issued, jar, lock, news, acts>>

AlwaysFree == TRUE  \* mutant: no Web Lock

LockFree == lock = None

(* recover: inside the lock, first look whether another tab has refreshed *)
EnterRecover(t) ==
  /\ Doing(t, {"recover"})
  /\ LockFree
  /\ IF tab[t].act.stale
     THEN Ends(t, tab[t]) /\ UNCHANGED <<req, lock>>
     ELSE Step(t, "check") /\ Send(t, "me", None, None) /\ lock' = t
  /\ UNCHANGED <<account, issued, jar, news, acts>>

(* After verifyInsideLock: the request is repeated with its own headers,   *)
(* or the mutation is sent.                                                *)
Verified(t, u) ==
  LET a == tab[t].act
      s == [tab[t] EXCEPT !.principal = u] IN
  \/ Foreign(t, u) /\ Ends(t, Rebootstrap(t, u)) /\ Receive(t) /\ lock' = None
  \/ ~ Foreign(t, u) /\ a.stale /\ Ends(t, s) /\ Receive(t) /\ lock' = None
  \/ /\ ~ Foreign(t, u) /\ ~ a.stale /\ a.op \in {"call", "me"}
     /\ Becoming(t, [s EXCEPT !.act = [a EXCEPT !.pc = "call", !.retried = TRUE]])
     /\ Send(t, a.op, None, IF a.actor = None THEN u ELSE a.actor)
     /\ lock' = None
  \/ /\ ~ Foreign(t, u) /\ ~ a.stale /\ a.op \notin {"call", "me"}
     /\ Becoming(t, [s EXCEPT !.act = [a EXCEPT !.pc = "mutate"]])
     /\ Send(t, a.op, a.arg, a.actor)
     /\ UNCHANGED lock

(* The session is over: event 'expired', for a request; an error, for a mutation. *)
Expired(t) ==
  /\ Ends(t, IF tab[t].act.op \in {"call", "me"} THEN [tab[t] EXCEPT !.user = None] ELSE tab[t])
  /\ Receive(t)
  /\ lock' = None

ReplyCheck(t) ==
  /\ Doing(t, {"check", "recheck"}) /\ req[t].pc = "answered"
  /\ \/ req[t].status = 200 /\ Verified(t, req[t].user)
     \/ /\ req[t].status # 200 /\ Doing(t, {"check"})
        /\ Step(t, "refresh") /\ Send(t, "refresh", None, None) /\ UNCHANGED lock
     \/ req[t].status # 200 /\ Doing(t, {"recheck"}) /\ Expired(t)
  /\ UNCHANGED <<account, issued, jar, news, acts>>

ReplyRefresh(t) ==
  /\ Doing(t, {"refresh"}) /\ req[t].pc = "answered"
  /\ IF req[t].status = 200
     THEN /\ jar' = req[t].cookies
          /\ Step(t, "recheck")
          /\ Becomes(t, [Request("me", None, None, tab[t].act.asked) EXCEPT !.jar = jar'])
          /\ UNCHANGED lock
     ELSE Expired(t) /\ UNCHANGED jar
  /\ UNCHANGED <<account, issued, news, acts>>

-----------------------------------------------------------------------------
(* authMutation: login, logout, change of password *)

StartMutation(t, op, arg) ==
  /\ tab[t].act = NoAct /\ ~ tab[t].boot
  /\ Starts
  /\ IF op = "login" THEN tab[t].user = None ELSE tab[t].user # None
  /\ Becoming(t, [tab[t] EXCEPT
       !.act = [op |-> op, arg |-> arg, pc |-> "enter", asked |-> None, stale |-> FALSE,
                actor |-> IF op = "change" THEN tab[t].principal ELSE None]])
  /\ UNCHANGED <<server, jar, lock, news>>

EnterMutation(t) ==
  LET a == tab[t].act IN
  /\ Doing(t, {"enter"})
  /\ lock = None
  /\ \/ a.stale /\ Ends(t, tab[t]) /\ UNCHANGED <<req, lock>>
     \/ /\ ~ a.stale /\ a.op = "change"
        /\ Step(t, "check") /\ Send(t, "me", None, None) /\ lock' = t
     \/ /\ ~ a.stale /\ a.op # "change"
        /\ Step(t, "mutate") /\ Send(t, a.op, a.arg, a.actor) /\ lock' = t
  /\ UNCHANGED <<account, issued, jar, news, acts>>

ReplyMutation(t) ==
  LET r == req[t]  a == tab[t].act IN
  /\ Doing(t, {"mutate"}) /\ r.pc = "answered"
  /\ jar' = IF r.cookies = Keep THEN jar ELSE r.cookies
  /\ \/ /\ r.status = 200 /\ ~ a.stale
        /\ Becoming(t, [SignedIn(r.user) EXCEPT !.boot = tab[t].boot])
        /\ news' = news \cup (Tabs \ {t})
     \/ r.status = 200 /\ a.stale /\ Ends(t, tab[t]) /\ UNCHANGED news
     \/ /\ r.status # 200
        /\ Ends(t, IF r.status = 409 THEN Rebootstrap(t, None) ELSE tab[t])
        /\ UNCHANGED news
  /\ Receive(t)
  /\ lock' = None
  /\ UNCHANGED <<account, issued, acts>>

-----------------------------------------------------------------------------
(* A background tab may be asleep, and miss the message for long.          *)
HearNews(t) ==
  /\ t \in news
  /\ news' = news \ {t}
  /\ LET s == Rebootstrap(t, tab[t].principal) IN
     Becoming(t, IF s.act = NoAct THEN s
                 ELSE [s EXCEPT !.act = [tab[t].act EXCEPT !.stale = TRUE]])
  /\ UNCHANGED <<server, jar, lock, acts>>

(* A timeout, a lost connection, or (reload) a closed tab: the request or  *)
(* its answer is lost, or the request still reaches the server.            *)
GiveUp(t, reload) ==
  /\ req[t] # NoRequest
  /\ \/ req' = [req EXCEPT ![t] = NoRequest]
     \/ /\ req[t].pc \in {"sent", "work"} /\ req[Late] = NoRequest
        /\ req' = [req EXCEPT ![t] = NoRequest, ![Late] = req[t]]
  /\ IF reload THEN Becoming(t, NewTab) ELSE Ends(t, tab[t])
  /\ lock' = IF lock = t THEN None ELSE lock
  /\ UNCHANGED <<account, issued, jar, news, acts>>

AccessExpires ==
  /\ jar.access # None
  /\ jar' = [jar EXCEPT !.access = None]
  /\ UNCHANGED <<server, lock, news, tab, acts>>

Mutations == [op : {"logout", "change"}, arg : {None}] \cup [op : {"login"}, arg : Users]

TabNext(t) ==
  \/ \E op \in {"call", "me"} : StartCall(t, op)
  \/ ReplyCall(t) \/ EnterRecover(t) \/ ReplyCheck(t) \/ ReplyRefresh(t)
  \/ \E m \in Mutations : StartMutation(t, m.op, m.arg)
  \/ EnterMutation(t) \/ ReplyMutation(t)
  \/ HearNews(t)
  \/ \E reload \in BOOLEAN : GiveUp(t, reload)

AuthNext ==
  \/ ServerNext /\ UNCHANGED <<jar, lock, news, tab, acts>>
  \/ \E t \in Tabs : TabNext(t)
  \/ AccessExpires

AuthSpec == AuthInit /\ [][AuthNext]_authVars

-----------------------------------------------------------------------------
(* Properties *)

(* A request is carried out as the user who was looking at the page that   *)
(* sent it, whatever another tab did to the shared cookies meanwhile and   *)
(* however late this tab hears of it.                                      *)
RequestsRunAsTheirUser ==
  \A t \in Tabs :
    req[t].pc = "answered" /\ req[t].kind = "call" /\ req[t].status = 200
      => req[t].user = req[t].asked

(* Tabs do not sign each other out: a tab is told that the session is over *)
(* only if the browser's refresh token is dead by then.                    *)
SignedOutOnlyWhenOver ==
  \A t \in Tabs :
    /\ req[t].pc = "answered" /\ req[t].status = 401
    /\ Doing(t, {"refresh", "recheck"})
    => ~ LiveRefresh(jar.refresh)

(* A late refresh cannot undo a logout: cookies that were cleared are set  *)
(* again only by somebody who signs in.                                    *)
LateRefreshCannotUndoLogout ==
  [][jar = NoCookies /\ jar' # NoCookies =>
       \E t \in Tabs : tab[t].act.op = "login" /\ req[t].pc = "answered"]_authVars
=============================================================================
