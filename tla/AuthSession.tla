---------------------------- MODULE AuthSession ----------------------------
(***************************************************************************)
(* The dashboard's login session in one browser: the tabs                  *)
(* (web/src/lib/auth-session.ts, auth-session-sync.ts, http-client.ts,     *)
(* routes/__root.tsx), the refresh cookie and the Web Lock they share, and *)
(* the server's side of a session (service/auth_session.go,                *)
(* model/user_session.go).                                                 *)
(*                                                                         *)
(* A handler of the server is one step: its row is changed by a single     *)
(* compare-and-swap.  A request, its handling and the arrival of the       *)
(* answer are three steps, and a Set-Cookie takes effect when the answer   *)
(* arrives, in whatever order answers do.                                  *)
(*                                                                         *)
(* Refresh tokens of a session form a chain, each derived from the one     *)
(* before, so a token is known by its age: 0 is the current one, 1 the     *)
(* previous one, which the server still knows, 2 anything older.           *)
(***************************************************************************)
EXTENDS Naturals, Sequences

CONSTANTS
  Tab, NoTab,
  Session, NoSession,  \* sids, each issued once
  HasLocks,            \* whether the browser has navigator.locks
  RaceDelays,          \* Len(refreshRaceDelays)
  Slot,                \* bound: a place for each abandoned request
  MaxSteps             \* bound on logins, logouts, rotations, revocations,
                       \* reloads, failures and late requests, together

ASSUME AuthSessionAssumption ==
  /\ NoTab \notin Tab /\ NoSession \notin Session
  /\ HasLocks \in BOOLEAN
  /\ RaceDelays \in Nat /\ MaxSteps \in Nat

VARIABLES
  holder,   \* the tab that holds the lock "new-api:auth-refresh"
  cookie,   \* the refresh cookie of the browser
  tab,      \* useAuthStore of each tab
  refresh,  \* refreshPromise of each tab
  op,       \* the request a tab's user is waiting for
  inbox,    \* session events of other tabs, not yet handled
  status,   \* user_sessions.status
  late,     \* tokens of refresh requests that the server has not handled and
            \* no page waits for
  steps,
  left,     \* left[t]: sessions whose end the page in tab t was told of
  lost,     \* sessions with a rotation that the browser was never told of, or
            \* that overtook a request which a page had given up
  reused    \* sessions revoked for refresh_reuse

serverVars == <<status, late, lost, reused>>
vars == <<holder, cookie, tab, refresh, op, inbox, steps, left, serverVars>>

Sid   == Session \cup {NoSession}
Token == [sid : Sid, age : 0..2]
NoToken == [sid |-> NoSession, age |-> 0]

(* token: the access token of the store; outdated: the session's version   *)
(* moved on.                                                               *)
Access == {"none", "good", "expired", "outdated"}
Store  == [sid : Sid, token : Access, boot : {"idle", "checking", "complete"}]
Anonymous(boot) == [sid |-> NoSession, token |-> "none", boot |-> boot]

(* current: authEpoch has not moved since the refresh began.  tok: the     *)
(* cookie of the request, then what the answer sets it to.  expect: the    *)
(* X-Auth-Session header.  ans: "ok" carries a bundle for tok.sid.         *)
Answer  == {"none", "ok", "denied", "mismatch", "race", "invalid", "error"}
Refresh == [pc : {"none", "lock", "sent", "answered", "delay"},
            current : BOOLEAN, retry : BOOLEAN, race : 0..RaceDelays,
            tok : Token, expect : Sid, ans : Answer, access : Access]
NoRefresh == [pc |-> "none", current |-> TRUE, retry |-> TRUE, race |-> 0,
              tok |-> NoToken, expect |-> NoSession, ans |-> "none",
              access |-> "none"]

(* A login, a logout, a request that was answered 401, waits for a refresh *)
(* and is sent again (replay), or a request whose answer rotates the       *)
(* access token.  sid, access, tok: the session it was sent for, its       *)
(* bearer and its cookie.  clears: the answer clears the cookie.           *)
OpPc == {"none", "signedIn", "logout", "logoutWait", "loggedOut",
         "logoutMismatch", "apiWait", "replay", "replayRejected",
         "redirect", "rotated"}
Op   == [pc : OpPc, sid : Sid, access : Access, tok : Token,
         retry : BOOLEAN, clears : BOOLEAN]
NoOp == [pc |-> "none", sid |-> NoSession, access |-> "none",
         tok |-> NoToken, retry |-> TRUE, clears |-> FALSE]

Event == [kind : {"authenticated", "signed_out"}, sid : Session]

TypeOK ==
  /\ holder \in Tab \cup {NoTab}
  /\ cookie \in Token
  /\ tab \in [Tab -> Store]
  /\ refresh \in [Tab -> Refresh]
  /\ op \in [Tab -> Op]
  /\ inbox \in [Tab -> Seq(Event)]
  /\ status \in [Session -> {"none", "active", "revoked"}]
  /\ late \in [Slot -> Token]
  /\ lost \subseteq Session /\ reused \subseteq Session
  /\ left \in [Tab -> SUBSET Session]
  /\ steps \in 0..MaxSteps

Init ==
  /\ holder = NoTab
  /\ cookie = NoToken
  /\ tab = [t \in Tab |-> Anonymous("idle")]
  /\ refresh = [t \in Tab |-> NoRefresh]
  /\ op = [t \in Tab |-> NoOp]
  /\ inbox = [t \in Tab |-> <<>>]
  /\ status = [s \in Session |-> "none"]
  /\ late = [i \in Slot |-> NoToken]
  /\ lost = {} /\ reused = {}
  /\ left = [t \in Tab |-> {}]
  /\ steps = 0

-----------------------------------------------------------------------------
Counted == steps < MaxSteps /\ steps' = steps + 1

(* The store and the channel.                                              *)

publishAuthSessionEvent(t, kind, sid) ==
  [u \in Tab |-> IF u = t THEN inbox[u]
                 ELSE Append(inbox[u], [kind |-> kind, sid |-> sid])]

setBundle(t, sid, access) ==
  [tab EXCEPT ![t] = [sid |-> sid, token |-> access, boot |-> "complete"]]

\* Seeded fault: a refresh in flight survives a newer operation.
Superseded_Ignored(t) == refresh

(* authEpoch += 1.                                                         *)
Superseded(t) == [refresh EXCEPT ![t].current = (refresh[t].pc = "none")]

Ended(S) == {s \in S \ {NoSession} : status[s] = "revoked"}

(* clearAuthentication(sync, "complete").                                  *)
clearAuthentication(t, sync) ==
  /\ tab' = [tab EXCEPT ![t] = Anonymous("complete")]
  /\ inbox' = IF sync /\ tab[t].sid # NoSession
              THEN publishAuthSessionEvent(t, "signed_out", tab[t].sid) ELSE inbox

(* refreshAuthentication joins the refresh that is under way.              *)
refreshAuthentication(t) ==
  IF refresh[t].pc = "none"
  THEN [refresh EXCEPT ![t] = [NoRefresh EXCEPT !.pc = "lock"]]
  ELSE refresh

-----------------------------------------------------------------------------
(* Who asks for a refresh.                                                 *)

(* Every navigation.                                                       *)
bootstrapAuthentication(t) ==
  /\ \/ /\ tab[t].sid # NoSession /\ tab[t].token # "expired"
        /\ tab[t].boot # "complete"
        /\ tab' = [tab EXCEPT ![t].boot = "complete"]
        /\ UNCHANGED refresh
     \/ /\ tab[t].sid = NoSession \/ tab[t].token = "expired"
        /\ tab[t].boot # "complete" \/ tab[t].sid # NoSession
        /\ tab' = [tab EXCEPT ![t].boot = "checking"]
        /\ refresh' = refreshAuthentication(t)
  /\ UNCHANGED <<holder, cookie, op, inbox, steps, left, serverVars>>

(* A stream is about to start and the access token has less than a minute. *)
getFreshAuthHeaders(t) ==
  /\ tab[t].sid # NoSession
  /\ refresh[t].pc = "none"
  /\ refresh' = refreshAuthentication(t)
  /\ UNCHANGED <<holder, cookie, tab, op, inbox, steps, left, serverVars>>

Accepted(sid, access) ==
  sid # NoSession /\ access = "good" /\ status[sid] = "active"

(* ValidateLoginSession refuses a request of a signed-in tab, which asks   *)
(* for a refresh.  (A 401 that is older than the token of the store does   *)
(* the same, and getFreshAuthHeaders may at any time.)                     *)
ApiReceives401(t) ==
  /\ op[t].pc = "none"
  /\ tab[t].sid # NoSession
  /\ ~Accepted(tab[t].sid, tab[t].token)
  /\ refresh' = refreshAuthentication(t)
  /\ op' = [op EXCEPT ![t] = [NoOp EXCEPT !.pc = "apiWait"]]
  /\ UNCHANGED <<holder, cookie, tab, inbox, steps, left, serverVars>>

-----------------------------------------------------------------------------
(* createRefreshRunner.                                                    *)

Sent(r, expect) ==
  [r EXCEPT !.pc = "sent", !.tok = cookie, !.expect = expect, !.ans = "none"]

(* What the callers of refreshAuthentication do with its outcome, before   *)
(* anything else runs in the tab.  store and jar are the store and the     *)
(* cookie as the refresh left them.                                        *)
Resumed(t, outcome, store, jar) ==
  LET again(pc) == [NoOp EXCEPT !.pc = pc, !.sid = store.sid,
                                !.access = store.token]
      logout == [again("logout") EXCEPT !.tok = jar, !.retry = FALSE]
      next == CASE op[t].pc = "apiWait" ->
                     CASE outcome = "authenticated" -> again("replay")
                       [] outcome = "transient"     -> NoOp
                       [] OTHER -> [NoOp EXCEPT !.pc = "redirect"]
                [] op[t].pc = "logoutWait" ->
                     CASE outcome = "authenticated" -> logout
                       [] outcome = "anonymous" -> [NoOp EXCEPT !.pc = "loggedOut"]
                       [] OTHER -> NoOp
                [] OTHER -> op[t]
  IN  [op EXCEPT ![t] = next]

\* Seeded fault: the lock is not given back.
Settled_KeepsLock(t, outcome, store, jar) ==
  /\ refresh' = [refresh EXCEPT ![t] = NoRefresh]
  /\ op' = Resumed(t, outcome, store, jar)
  /\ UNCHANGED holder

(* The promise settles: refreshPromise = null and the lock is free.        *)
Settled(t, outcome, store, jar) ==
  /\ refresh' = [refresh EXCEPT ![t] = NoRefresh]
  /\ holder' = IF holder = t THEN NoTab ELSE holder
  /\ op' = Resumed(t, outcome, store, jar)

\* Seeded fault: the lock is shared.
LockFree_Shared == TRUE

LockFree == HasLocks => holder = NoTab

(* The lock is granted and the runner sends its request, unless it was     *)
(* superseded while it waited.                                             *)
performRefreshWithBrowserLock(t) ==
  /\ refresh[t].pc = "lock"
  /\ LockFree
  /\ IF refresh[t].current
     THEN /\ refresh' = [refresh EXCEPT ![t] = Sent(refresh[t], tab[t].sid)]
          /\ holder' = IF HasLocks THEN t ELSE holder
          /\ UNCHANGED op
     ELSE Settled(t, "transient", tab[t], cookie)
  /\ UNCHANGED <<cookie, tab, inbox, steps, left, serverVars>>

RaceRetry(t) ==
  /\ refresh[t].pc = "delay"
  /\ IF refresh[t].current
     THEN /\ refresh' = [refresh EXCEPT ![t] = Sent(refresh[t], tab[t].sid)]
          /\ UNCHANGED <<holder, op>>
     ELSE Settled(t, "transient", tab[t], cookie)
  /\ UNCHANGED <<cookie, tab, inbox, steps, left, serverVars>>

\* Seeded fault: one delay too many.
MoreDelays_OneTooMany(race) == race <= RaceDelays

(* refreshRaceDelays[raceAttempt] is defined.                              *)
MoreDelays(race) == race < RaceDelays

(* Set-Cookie of the answer: a new token, the empty one, or none at all.   *)
StoredCookie(t) ==
  IF refresh[t].ans \in {"ok", "denied"} THEN refresh[t].tok ELSE cookie

(* The answer arrives.                                                     *)
RefreshAnswered(t) ==
  LET r == refresh[t]
      sid == tab[t].sid
      clear(sync) == clearAuthentication(t, sync)
  IN  /\ r.pc = "answered"
      /\ cookie' = StoredCookie(t)
      /\ \/ /\ ~r.current
            /\ Settled(t, "transient", tab[t], cookie')
            /\ UNCHANGED <<tab, inbox, left>>
         \/ /\ r.current /\ r.ans = "ok"
            /\ tab' = setBundle(t, r.tok.sid, r.access)
            /\ Settled(t, "authenticated", tab'[t], cookie')
            /\ UNCHANGED <<inbox, left>>
         \/ /\ r.current /\ r.ans = "denied"
            /\ clear(TRUE)
            /\ Settled(t, "anonymous", tab'[t], cookie')
            /\ left' = [left EXCEPT ![t] = @ \cup Ended({sid})]
         \/ /\ r.current /\ r.ans = "mismatch" /\ r.retry
            /\ tab' = [tab EXCEPT ![t] = Anonymous("idle")]
            /\ refresh' = [refresh EXCEPT ![t] =
                             [Sent(r, NoSession) EXCEPT !.retry = FALSE, !.race = 0]]
            /\ UNCHANGED <<holder, op, inbox, left>>
         \/ /\ r.current /\ r.ans = "race" /\ MoreDelays(r.race)
            /\ refresh' = [refresh EXCEPT ![t].pc = "delay", ![t].race = @ + 1,
                                             ![t].ans = "none"]
            /\ UNCHANGED <<holder, op, tab, inbox, left>>
         \/ /\ r.current
            /\ \/ r.ans = "invalid"
               \/ r.ans = "mismatch" /\ ~r.retry
               \/ r.ans = "race" /\ ~MoreDelays(r.race)
            /\ clear(FALSE)
            /\ Settled(t, "out_of_sync", tab'[t], cookie')
            /\ UNCHANGED left
         \/ /\ r.current /\ r.ans = "error"
            /\ tab' = [tab EXCEPT ![t].boot = "idle"]
            /\ Settled(t, "transient", tab'[t], cookie')
            /\ UNCHANGED <<inbox, left>>
      /\ UNCHANGED <<steps, serverVars>>
-----------------------------------------------------------------------------
(* RefreshAuth and RefreshLoginSession.  Rotating a session makes every    *)
(* token of it one generation older, wherever it is.                       *)
Older(tok, s) == IF tok.sid = s /\ tok.age < 2 THEN [tok EXCEPT !.age = @ + 1] ELSE tok

Reply(t, ans, tok) ==
  [refresh[t] EXCEPT !.pc = "answered", !.ans = ans, !.tok = tok,
                     !.expect = NoSession,
                     !.access = IF ans = "ok" THEN "good" ELSE "none"]

RefreshDenied(t) ==
  LET tok == refresh[t].tok
  IN  /\ refresh[t].pc = "sent"
      /\ \/ tok.sid = NoSession
         \/ /\ tok.sid # NoSession /\ refresh[t].expect \in {NoSession, tok.sid}
            /\ status[tok.sid] # "active" \/ tok.age = 2
      /\ refresh' = [refresh EXCEPT ![t] = Reply(t, "denied", NoToken)]
      /\ UNCHANGED <<holder, cookie, tab, op, inbox, steps, left, serverVars>>

RefreshMismatch(t) ==
  LET tok == refresh[t].tok
  IN  /\ refresh[t].pc = "sent"
      /\ tok.sid # NoSession /\ refresh[t].expect \notin {NoSession, tok.sid}
      /\ refresh' = [refresh EXCEPT ![t] = Reply(t, "mismatch", NoToken)]
      /\ UNCHANGED <<holder, cookie, tab, op, inbox, steps, left, serverVars>>

Known(t, age) ==
  LET tok == refresh[t].tok
  IN  /\ refresh[t].pc = "sent"
      /\ tok.sid # NoSession /\ refresh[t].expect \in {NoSession, tok.sid}
      /\ status[tok.sid] = "active" /\ tok.age = age

Aged(s) ==
  /\ op' = [u \in Tab |-> [op[u] EXCEPT !.tok = Older(op[u].tok, s)]]
  /\ cookie' = Older(cookie, s)

(* The swap of the refresh hash.                                           *)
RotateUserSessionRefresh(t) ==
  LET s == refresh[t].tok.sid
  IN  /\ Known(t, 0)
      /\ refresh' = [u \in Tab |->
            IF u = t THEN Reply(t, "ok", refresh[t].tok)
            ELSE [refresh[u] EXCEPT !.tok = Older(refresh[u].tok, s)]]
      /\ Aged(s)
      /\ late' = [i \in Slot |-> Older(late[i], s)]
      /\ lost' = IF \E i \in Slot : late[i].sid = s THEN lost \cup {s} ELSE lost
      /\ UNCHANGED <<holder, tab, inbox, status, steps, left, reused>>

(* The previous token inside its window: its successor is derived again.   *)
RefreshReplayed(t) ==
  /\ Known(t, 1)
  /\ refresh' = [refresh EXCEPT ![t] = Reply(t, "ok", [refresh[t].tok EXCEPT !.age = 0])]
  /\ UNCHANGED <<holder, cookie, tab, op, inbox, steps, left, serverVars>>

(* The previous token after its window.                                    *)
RefreshReused(t) ==
  LET s == refresh[t].tok.sid
  IN  /\ Known(t, 1)
      /\ status' = [status EXCEPT ![s] = "revoked"]
      /\ reused' = reused \cup {s}
      /\ refresh' = [refresh EXCEPT ![t] = Reply(t, "denied", NoToken)]
      /\ UNCHANGED <<holder, cookie, tab, op, inbox, steps, left, late, lost>>

RefreshLoginSession(t) ==
  \/ RefreshDenied(t) \/ RefreshMismatch(t) \/ RotateUserSessionRefresh(t)
  \/ RefreshReplayed(t) \/ RefreshReused(t)

(* A page gave up a request that the server has not handled.  Cancelling   *)
(* it, or a timeout on its way, need not stop the server from getting it.  *)
(* (One for a session that ended, or for another one than its cookie's,    *)
(* changes nothing.  None is kept that MaxSteps would not let arrive.)     *)
Abandoned(t) ==
  LET tok == refresh[t].tok
      sent == /\ refresh[t].pc = "sent" /\ tok.sid # NoSession
              /\ refresh[t].expect \in {NoSession, tok.sid}
              /\ status[tok.sid] = "active" /\ steps' < MaxSteps
  IN  \/ UNCHANGED late
      \/ \E i \in Slot : /\ sent /\ late[i] = NoToken
                         /\ late' = [late EXCEPT ![i] = tok]

(* RefreshLoginSession for such a request, whose answer nobody reads.  It  *)
(* is refused, replayed or dropped with its connection; or it rotates; or  *)
(* its token is the previous one, after the window.                        *)
AbandonedIgnored(i) ==
  /\ late[i].sid # NoSession
  /\ late' = [late EXCEPT ![i] = NoToken]
  /\ UNCHANGED <<holder, cookie, tab, refresh, op, inbox, status, steps, left,
                 lost, reused>>

AbandonedRotates(i) ==
  LET s == late[i].sid
  IN  /\ Counted
      /\ s # NoSession /\ status[s] = "active" /\ late[i].age = 0
      /\ late' = [j \in Slot |-> IF j = i THEN NoToken ELSE Older(late[j], s)]
      /\ refresh' = [u \in Tab |-> [refresh[u] EXCEPT !.tok = Older(refresh[u].tok, s)]]
      /\ Aged(s)
      /\ lost' = lost \cup {s}
      /\ UNCHANGED <<holder, tab, inbox, status, left, reused>>

AbandonedReused(i) ==
  LET s == late[i].sid
  IN  /\ Counted
      /\ s # NoSession /\ status[s] = "active" /\ late[i].age = 1
      /\ late' = [late EXCEPT ![i] = NoToken]
      /\ status' = [status EXCEPT ![s] = "revoked"]
      /\ reused' = reused \cup {s}
      /\ UNCHANGED <<holder, cookie, tab, refresh, op, inbox, left, lost>>

AbandonedStep(i) ==
  AbandonedIgnored(i) \/ AbandonedRotates(i) \/ AbandonedReused(i)

-----------------------------------------------------------------------------
(* Sign in: createLoginSession, and handleLoginSuccess when it answers.    *)
(* The request depends on nothing the others change, so it is sent and     *)
(* handled in one step.                                                    *)
createLoginSession(t, s) ==
  /\ Counted
  /\ op[t].pc = "none"
  /\ tab[t].sid = NoSession /\ tab[t].boot # "checking"
  /\ status[s] = "none"
  /\ status' = [status EXCEPT ![s] = "active"]
  /\ op' = [op EXCEPT ![t] = [NoOp EXCEPT !.pc = "signedIn", !.sid = s,
                                          !.access = "good"]]
  /\ UNCHANGED <<holder, cookie, tab, refresh, inbox, left, late, lost, reused>>

handleLoginSuccess(t) ==
  LET s == op[t].sid
  IN  /\ op[t].pc = "signedIn"
      /\ cookie' = [sid |-> s, age |-> 0]
      /\ tab' = setBundle(t, s, op[t].access)
      /\ refresh' = Superseded(t)
      /\ inbox' = publishAuthSessionEvent(t, "authenticated", s)
      /\ op' = [op EXCEPT ![t] = NoOp]
      /\ UNCHANGED <<holder, steps, left, serverVars>>

-----------------------------------------------------------------------------
(* Sign out: executeLogout, AuthLogout, handleSignOut.                     *)
Logout(t) ==
  /\ Counted
  /\ op[t].pc = "none"
  /\ tab[t].sid # NoSession
  /\ op' = [op EXCEPT ![t] = [NoOp EXCEPT !.pc = "logout", !.sid = tab[t].sid,
                                          !.access = tab[t].token, !.tok = cookie]]
  /\ UNCHANGED <<holder, cookie, tab, refresh, inbox, left, serverVars>>

Revoked(S) == [s \in Session |-> IF s \in S /\ status[s] = "active"
                                 THEN "revoked" ELSE status[s]]

(* The bearer names the session if it can be parsed, else the cookie does, *)
(* if the server still knows it.                                           *)
AuthLogout(t) ==
  LET o == op[t]
      bearer == o.access # "expired"
      named(inWindow) == /\ o.tok.sid = o.sid
                         /\ o.tok.age = 0 \/ (o.tok.age = 1 /\ inWindow)
  IN  /\ o.pc = "logout"
      /\ \/ /\ o.tok.sid \notin {NoSession, o.sid}
            /\ op' = [op EXCEPT ![t] = [NoOp EXCEPT !.pc = "logoutMismatch",
                                                    !.retry = o.retry]]
            /\ UNCHANGED status
         \/ /\ o.tok.sid \in {NoSession, o.sid}
            /\ \E inWindow \in BOOLEAN :
                 status' = Revoked(IF bearer \/ named(inWindow) THEN {o.sid} ELSE {})
            /\ op' = [op EXCEPT ![t] = [NoOp EXCEPT !.pc = "loggedOut", !.sid = o.sid,
                                           !.clears = (~bearer \/ o.tok.sid = o.sid)]]
      /\ UNCHANGED <<holder, cookie, tab, refresh, inbox, steps, left, late,
                     lost, reused>>

LogoutMismatch(t) ==
  /\ op[t].pc = "logoutMismatch"
  /\ IF op[t].retry
     THEN op' = [op EXCEPT ![t].pc = "logoutWait"] /\ refresh' = refreshAuthentication(t)
     ELSE op' = [op EXCEPT ![t] = NoOp] /\ UNCHANGED refresh
  /\ UNCHANGED <<holder, cookie, tab, inbox, steps, left, serverVars>>

handleSignOut(t) ==
  /\ op[t].pc = "loggedOut"
  /\ cookie' = IF op[t].clears THEN NoToken ELSE cookie
  /\ clearAuthentication(t, TRUE)
  /\ refresh' = Superseded(t)
  /\ op' = [op EXCEPT ![t] = NoOp]
  /\ left' = [left EXCEPT ![t] = @ \cup Ended({op[t].sid})]
  /\ UNCHANGED <<holder, steps, serverVars>>

-----------------------------------------------------------------------------
(* A rejected request is sent again once, with the token of the refresh.   *)
ReplayAccepted(t) ==
  /\ op[t].pc = "replay"
  /\ Accepted(op[t].sid, op[t].access)
  /\ op' = [op EXCEPT ![t] = NoOp]
  /\ UNCHANGED <<holder, cookie, tab, refresh, inbox, steps, left, serverVars>>

ReplayRejected(t) ==
  /\ op[t].pc = "replay"
  /\ ~Accepted(op[t].sid, op[t].access)
  /\ op' = [op EXCEPT ![t] = [NoOp EXCEPT !.pc = "replayRejected"]]
  /\ UNCHANGED <<holder, cookie, tab, refresh, inbox, steps, left, serverVars>>

ReplayReceives401(t) ==
  /\ op[t].pc = "replayRejected"
  /\ clearAuthentication(t, FALSE)
  /\ refresh' = Superseded(t)
  /\ op' = [op EXCEPT ![t] = [NoOp EXCEPT !.pc = "redirect"]]
  /\ UNCHANGED <<holder, cookie, steps, left, serverVars>>

(* A password or second-factor change: AdvanceCurrentSessionSecurity keeps *)
(* this session, at a new version, and revokes the user's others.          *)
Outdated(access, mine) == IF mine /\ access = "good" THEN "outdated" ELSE access

AdvanceCurrentSessionSecurity(t) ==
  LET s == tab[t].sid
  IN  /\ Counted
      /\ op[t].pc = "none"
      /\ Accepted(s, tab[t].token)
      /\ status' = Revoked(Session \ {s})
      /\ tab' = [u \in Tab |-> [tab[u] EXCEPT !.token = Outdated(tab[u].token, tab[u].sid = s)]]
      /\ refresh' = [u \in Tab |-> [refresh[u] EXCEPT
                       !.access = Outdated(refresh[u].access, refresh[u].tok.sid = s)]]
      /\ op' = [u \in Tab |->
                  IF u = t THEN [NoOp EXCEPT !.pc = "rotated", !.sid = s, !.access = "good"]
                  ELSE [op[u] EXCEPT !.access = Outdated(op[u].access, op[u].sid = s)]]
      /\ UNCHANGED <<holder, cookie, inbox, left, late, lost, reused>>

applyAuthRotation(t) ==
  /\ op[t].pc = "rotated"
  /\ IF tab[t].sid = op[t].sid
     THEN tab' = setBundle(t, op[t].sid, op[t].access) /\ refresh' = Superseded(t)
     ELSE UNCHANGED <<tab, refresh>>
  /\ op' = [op EXCEPT ![t] = NoOp]
  /\ UNCHANGED <<holder, cookie, inbox, steps, left, serverVars>>

-----------------------------------------------------------------------------
(* The page is loaded again: its memory is gone, its requests are given up *)
(* and its lock is released.  (A sign-out that is given up may still be    *)
(* handled: RevokeUserSession stands for that.)                            *)
Reloaded(t) ==
  /\ tab' = [tab EXCEPT ![t] = Anonymous("idle")]
  /\ refresh' = [refresh EXCEPT ![t] = NoRefresh]
  /\ op' = [op EXCEPT ![t] = NoOp]
  /\ holder' = IF holder = t THEN NoTab ELSE holder
  /\ left' = [left EXCEPT ![t] = {}]
  /\ lost' = IF refresh[t].pc = "answered" /\ refresh[t].ans = "ok"
             THEN lost \cup {refresh[t].tok.sid} ELSE lost
  /\ Abandoned(t)

(* subscribeAuthSessionEvents in RootComponent.                            *)
ReceiveEvent(t) ==
  LET e == Head(inbox[t])
      rest == [inbox EXCEPT ![t] = Tail(@)]
  IN  /\ inbox[t] # <<>>
      /\ UNCHANGED <<cookie, status, steps, reused>>
      /\ \/ /\ e.kind = "authenticated" /\ e.sid # tab[t].sid
            /\ Reloaded(t)
            /\ inbox' = [inbox EXCEPT ![t] = <<>>]
         \/ /\ e.kind = "signed_out" /\ e.sid = tab[t].sid
            /\ tab' = [tab EXCEPT ![t] = Anonymous("complete")]
            /\ refresh' = Superseded(t)
            /\ inbox' = rest
            /\ left' = [left EXCEPT ![t] = @ \cup Ended({e.sid})]
            /\ UNCHANGED <<op, holder, late, lost>>
         \/ /\ (e.kind = "authenticated") = (e.sid = tab[t].sid)
            /\ inbox' = rest
            /\ UNCHANGED <<tab, refresh, op, holder, left, late, lost>>

(* redirectToSignIn: a full page load, unless the tab is there already.    *)
redirectToSignIn(t) ==
  /\ op[t].pc = "redirect"
  /\ UNCHANGED <<cookie, status, steps, reused>>
  /\ \/ Reloaded(t) /\ inbox' = [inbox EXCEPT ![t] = <<>>]
     \/ /\ op' = [op EXCEPT ![t] = NoOp]
        /\ UNCHANGED <<tab, refresh, holder, inbox, left, late, lost>>

-----------------------------------------------------------------------------
(* The environment.                                                        *)
UserReloads(t) ==
  /\ Counted
  /\ Reloaded(t) /\ inbox' = [inbox EXCEPT ![t] = <<>>]
  /\ UNCHANGED <<cookie, status, reused>>

(* A request fails, for the page at least, or its answer is lost on the    *)
(* way back.                                                               *)
RefreshFails(t) ==
  /\ refresh[t].pc \in {"sent", "answered"} /\ refresh[t].ans \in {"none", "ok"}
  /\ Counted
  /\ \E ans \in {"error", "race", "invalid"} :
        refresh' = [refresh EXCEPT ![t] = Reply(t, ans, NoToken)]
  /\ lost' = IF refresh[t].ans = "ok" THEN lost \cup {refresh[t].tok.sid} ELSE lost
  /\ Abandoned(t)
  /\ UNCHANGED <<holder, cookie, tab, op, inbox, status, left, reused>>

(* A login, logout or rotation is answered with an error, or not at all.   *)
OpFails(t) ==
  /\ op[t].pc \in {"signedIn", "logout", "loggedOut", "replay", "rotated"}
  /\ Counted
  /\ op' = [op EXCEPT ![t] = NoOp]
  /\ UNCHANGED <<holder, cookie, tab, refresh, inbox, left, serverVars>>

AccessExpires(t) ==
  /\ tab[t].token \in {"good", "outdated"}
  /\ tab' = [tab EXCEPT ![t].token = "expired"]
  /\ UNCHANGED <<holder, cookie, refresh, op, inbox, steps, left, serverVars>>

(* Another device revokes the session, or the server evicts it.            *)
RevokeUserSession(s) ==
  /\ Counted
  /\ status[s] = "active"
  /\ status' = [status EXCEPT ![s] = "revoked"]
  /\ UNCHANGED <<holder, cookie, tab, refresh, op, inbox, left, late, lost, reused>>

-----------------------------------------------------------------------------
RefreshStep(t) ==
  \/ performRefreshWithBrowserLock(t) \/ RefreshLoginSession(t)
  \/ RefreshAnswered(t) \/ RaceRetry(t)

OpStep(t) ==
  \/ ReplayAccepted(t) \/ ReplayRejected(t)
  \/ ReplayReceives401(t) \/ redirectToSignIn(t)
  \/ handleLoginSuccess(t)
  \/ AuthLogout(t) \/ LogoutMismatch(t) \/ handleSignOut(t)
  \/ applyAuthRotation(t)

Next ==
  \/ \E t \in Tab :
        \/ bootstrapAuthentication(t) \/ getFreshAuthHeaders(t) \/ ApiReceives401(t)
        \/ \E s \in Session : createLoginSession(t, s)
        \/ Logout(t) \/ AdvanceCurrentSessionSecurity(t)
        \/ RefreshStep(t) \/ OpStep(t) \/ ReceiveEvent(t)
        \/ UserReloads(t) \/ RefreshFails(t) \/ OpFails(t) \/ AccessExpires(t)
  \/ \E s \in Session : RevokeUserSession(s)
  \/ \E i \in Slot : AbandonedStep(i)

Spec == Init /\ [][Next]_vars

(* Requests are answered or fail, a lock is granted in turn, events are    *)
(* delivered, and an open dashboard goes on calling the API.  Nobody has   *)
(* to sign in or out.                                                      *)
Fairness == \A t \in Tab :
  /\ SF_vars(performRefreshWithBrowserLock(t))
  /\ WF_vars(RefreshLoginSession(t) \/ RefreshAnswered(t) \/ RaceRetry(t))
  /\ WF_vars(OpStep(t)) /\ WF_vars(ReceiveEvent(t))
  /\ SF_vars(ApiReceives401(t))

FairSpec == Spec /\ Fairness

-----------------------------------------------------------------------------
(* A tab that was told of the end of a session - by its own sign-out, by   *)
(* a 401 of its refresh, by another tab - never shows that session again,  *)
(* whichever answers are still on their way.                               *)
LeftForGood == \A t \in Tab : tab[t].sid \notin left[t]

(* A session is revoked as stolen only if the browser missed a rotation,   *)
(* or a page gave up a request for it that a rotation then overtook: while *)
(* refreshes are serialised by the lock, tabs that refresh together never  *)
(* present a token the server holds for a replay.  Reloading a page in the *)
(* middle of its refresh is enough for the second.                         *)
ReuseNeedsLoss == HasLocks => reused \subseteq lost

(* A tab that shows a revoked session leaves it: its next request is       *)
(* answered 401, and the refresh that follows ends.                        *)
RevokedTabLeaves == \A t \in Tab, s \in Session :
  tab[t].sid = s /\ status[s] = "revoked" ~> tab[t].sid # s
=============================================================================
