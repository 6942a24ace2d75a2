------------------------- MODULE AuthSessionProofs -------------------------
(***************************************************************************)
(* Safety of AuthSession for every set of tabs and sessions, with and      *)
(* without browser locks, and for every bound on what the environment does.*)
(***************************************************************************)
EXTENDS AuthSession, TLAPS

(* The parts of TypeOK.  Only a refresh that was answered can be ok, and   *)
(* then it is about a session; so is a login that was answered.            *)
TabType == tab \in [Tab -> Store]

RefreshType ==
  /\ refresh \in [Tab -> Refresh]
  /\ \A t \in Tab : refresh[t].ans = "ok" =>
        refresh[t].pc = "answered" /\ refresh[t].tok.sid \in Session

OpType ==
  /\ op \in [Tab -> Op]
  /\ \A t \in Tab : op[t].pc = "signedIn" => op[t].sid \in Session

BrowserType ==
  /\ holder \in Tab \cup {NoTab}
  /\ cookie \in Token
  /\ inbox \in [Tab -> Seq(Event)]

RestType ==
  /\ status \in [Session -> {"none", "active", "revoked"}]
  /\ late \in [Slot -> Token]
  /\ lost \subseteq Session /\ reused \subseteq Session
  /\ left \in [Tab -> SUBSET Session]
  /\ steps \in 0..MaxSteps

Typed == TabType /\ RefreshType /\ OpType /\ BrowserType /\ RestType

-----------------------------------------------------------------------------
(* The records of the model.                                               *)

(* A store of a page that shows no session is a store.                     *)
LEMMA AnonymousTyped ==
  ASSUME NEW b \in {"idle", "checking", "complete"}
  PROVE  /\ Anonymous(b) \in Store
         /\ Anonymous(b).sid = NoSession
BY DEF Anonymous, Store, Sid, Access

(* No token, no refresh and no request are values of their types.          *)
LEMMA NothingTyped ==
  /\ NoToken \in Token /\ NoToken.sid = NoSession /\ NoToken.age = 0
  /\ NoRefresh \in Refresh /\ NoRefresh.pc = "none" /\ NoRefresh.ans = "none"
  /\ NoRefresh.tok = NoToken /\ NoRefresh.current = TRUE
  /\ NoOp \in Op /\ NoOp.pc = "none" /\ NoOp.sid = NoSession /\ NoOp.tok = NoToken
BY AuthSessionAssumption
   DEF NoToken, Token, Sid, NoRefresh, Refresh, Answer, Access, NoOp, Op, OpPc

(* An operation of which only the place is given.                          *)
LEMMA FreshOp ==
  ASSUME NEW p \in OpPc
  PROVE  LET o == [NoOp EXCEPT !.pc = p]
         IN  o \in Op /\ o.pc = p /\ o.sid = NoSession /\ o.tok = NoToken
BY NothingTyped DEF Op

(* What a refresh is sent with.                                            *)
LEMMA SentTyped ==
  ASSUME cookie \in Token, NEW r \in Refresh, NEW s \in Sid
  PROVE  LET k == Sent(r, s)
         IN  /\ k \in Refresh /\ k.pc = "sent" /\ k.tok = cookie /\ k.ans = "none"
             /\ k.current = r.current
BY DEF Sent, Refresh, Answer

(* What a refresh is answered with.                                        *)
LEMMA ReplyTyped ==
  ASSUME refresh \in [Tab -> Refresh], NEW t \in Tab, NEW a \in Answer, NEW k \in Token
  PROVE  LET r == Reply(t, a, k)
         IN  /\ r \in Refresh /\ r.pc = "answered" /\ r.ans = a /\ r.tok = k
             /\ r.current = refresh[t].current
<1> DEFINE x == IF a = "ok" THEN "good" ELSE "none"
<1>1. x \in Access /\ NoSession \in Sid /\ refresh[t] \in Refresh
  BY DEF Access, Sid
<1>2. Reply(t, a, k) = [refresh[t] EXCEPT !.pc = "answered", !.ans = a, !.tok = k,
                          !.expect = NoSession, !.access = x]
  BY DEF Reply
<1> HIDE DEF x
<1> QED
  BY <1>1, <1>2 DEF Refresh

(* A token of a rotated session stays a token of its session.              *)
LEMMA OlderTyped ==
  ASSUME NEW k \in Token, NEW s
  PROVE  /\ Older(k, s) \in Token /\ Older(k, s).sid = k.sid
         /\ k.sid # s => Older(k, s) = k
BY DEF Older, Token

(* The refresh of one tab after authEpoch has moved.                       *)
LEMMA SupersededTyped ==
  ASSUME refresh \in [Tab -> Refresh], NEW t \in Tab
  PROVE  LET k == Superseded(t)
         IN  /\ k \in [Tab -> Refresh]
             /\ \A u \in Tab \ {t} : k[u] = refresh[u]
             /\ k[t].pc = refresh[t].pc /\ k[t].tok = refresh[t].tok
             /\ k[t].ans = refresh[t].ans
             /\ k[t].current => refresh[t].pc = "none"
<1> DEFINE c == (refresh[t].pc = "none")
<1>1. c \in BOOLEAN
  OBVIOUS
<1>2. Superseded(t) = [refresh EXCEPT ![t] = [refresh[t] EXCEPT !.current = c]]
  BY DEF Superseded
<1>3. [refresh[t] EXCEPT !.current = c].current => refresh[t].pc = "none"
  BY DEF Refresh
<1> HIDE DEF c
<1> DEFINE k == [refresh[t] EXCEPT !.current = c]
<1>4. /\ k \in Refresh /\ k.pc = refresh[t].pc /\ k.tok = refresh[t].tok
      /\ k.ans = refresh[t].ans
  BY <1>1 DEF Refresh
<1> HIDE DEF k
<1> QED
  BY <1>2, <1>3, <1>4 DEF k

(* A refresh that begins, or the one that is under way.                    *)
LEMMA BeginTyped ==
  ASSUME RefreshType, NEW t \in Tab
  PROVE  LET k == refreshAuthentication(t)
         IN  /\ k \in [Tab -> Refresh]
             /\ \A u \in Tab \ {t} : k[u] = refresh[u]
             /\ k[t].tok \in {refresh[t].tok, NoToken}
             /\ k[t] = refresh[t] \/ (k[t].pc = "lock" /\ k[t].ans = "none")
<1>1. [NoRefresh EXCEPT !.pc = "lock"] \in Refresh
  BY NothingTyped DEF Refresh
<1>2. /\ [NoRefresh EXCEPT !.pc = "lock"].tok = NoToken
      /\ [NoRefresh EXCEPT !.pc = "lock"].pc = "lock"
      /\ [NoRefresh EXCEPT !.pc = "lock"].ans = "none"
  BY NothingTyped DEF Refresh
<1> DEFINE b == [NoRefresh EXCEPT !.pc = "lock"]
<1>3. refreshAuthentication(t) = IF refresh[t].pc = "none"
                                 THEN [refresh EXCEPT ![t] = b] ELSE refresh
  BY DEF refreshAuthentication
<1> HIDE DEF b
<1> QED
  BY <1>1, <1>2, <1>3 DEF RefreshType, b

(* The counter of what the environment does stays within its bound.        *)
LEMMA CountedTyped ==
  ASSUME RestType, Counted
  PROVE  steps' \in 0..MaxSteps
BY AuthSessionAssumption DEF RestType, Counted

(* A request that a page gave up is one it had sent.                       *)
LEMMA AbandonedTyped ==
  ASSUME RefreshType, late \in [Slot -> Token], NEW t \in Tab, Abandoned(t)
  PROVE  /\ late' \in [Slot -> Token]
         /\ \A i \in Slot : \/ late'[i] = late[i]
                            \/ refresh[t].pc = "sent" /\ late'[i] = refresh[t].tok
<1>1. refresh[t].tok \in Token
  BY DEF RefreshType, Refresh
<1>2. CASE UNCHANGED late
  BY <1>2
<1>3. CASE \E i \in Slot : /\ refresh[t].pc = "sent"
                          /\ late' = [late EXCEPT ![i] = refresh[t].tok]
  BY <1>1, <1>3
<1> QED
  BY <1>2, <1>3 DEF Abandoned

(* Rotating a session leaves every token where it is, at another age.      *)
LEMMA AgedTyped ==
  ASSUME OpType, cookie \in Token, NEW s, Aged(s)
  PROVE  /\ OpType' /\ cookie' \in Token /\ cookie'.sid = cookie.sid
         /\ \A u \in Tab : /\ op'[u].pc = op[u].pc /\ op'[u].sid = op[u].sid
                           /\ op'[u].tok.sid = op[u].tok.sid
<1> DEFINE n(u) == [op[u] EXCEPT !.tok = Older(op[u].tok, s)]
<1>1. \A x \in Op, y \in Token :
         LET z == [x EXCEPT !.tok = y]
         IN  z \in Op /\ z.pc = x.pc /\ z.sid = x.sid /\ z.tok = y
  BY DEF Op
<1>2. \A u \in Tab : op[u] \in Op /\ op[u].tok \in Token
  BY DEF OpType, Op
<1>3. \A u \in Tab : /\ Older(op[u].tok, s) \in Token
                     /\ Older(op[u].tok, s).sid = op[u].tok.sid
  BY <1>2, OlderTyped
<1>4. ASSUME NEW u \in Tab
      PROVE  /\ n(u) \in Op /\ n(u).pc = op[u].pc /\ n(u).sid = op[u].sid
             /\ n(u).tok.sid = op[u].tok.sid
  <2>1. /\ n(u) \in Op /\ n(u).pc = op[u].pc /\ n(u).sid = op[u].sid
        /\ n(u).tok = Older(op[u].tok, s)
    BY <1>1, <1>2, <1>3
  <2> QED
    BY <1>3, <2>1
<1>5. op' = [u \in Tab |-> n(u)]
  BY DEF Aged
<1> HIDE DEF n
<1>6. /\ OpType'
      /\ \A u \in Tab : /\ op'[u].pc = op[u].pc /\ op'[u].sid = op[u].sid
                        /\ op'[u].tok.sid = op[u].tok.sid
  BY <1>4, <1>5 DEF OpType
<1>7. cookie' \in Token /\ cookie'.sid = cookie.sid
  BY OlderTyped DEF Aged
<1> QED
  BY <1>6, <1>7

(* So does a rotation that no page waits for, in the refreshes too.        *)
LEMMA OlderRefreshes ==
  ASSUME RefreshType, NEW s,
         refresh' = [u \in Tab |-> [refresh[u] EXCEPT !.tok = Older(refresh[u].tok, s)]]
  PROVE  /\ RefreshType'
         /\ \A u \in Tab : /\ refresh'[u].pc = refresh[u].pc
                           /\ refresh'[u].ans = refresh[u].ans
                           /\ refresh'[u].current = refresh[u].current
                           /\ refresh'[u].tok = Older(refresh[u].tok, s)
                           /\ refresh'[u].tok.sid = refresh[u].tok.sid
<1> DEFINE n(u) == [refresh[u] EXCEPT !.tok = Older(refresh[u].tok, s)]
<1>1. \A x \in Refresh, y \in Token :
         LET z == [x EXCEPT !.tok = y]
         IN  /\ z \in Refresh /\ z.ans = x.ans /\ z.pc = x.pc /\ z.tok = y
             /\ z.current = x.current
  BY DEF Refresh
<1>2. \A u \in Tab : refresh[u] \in Refresh /\ refresh[u].tok \in Token
  BY DEF RefreshType, Refresh
<1>3. \A u \in Tab : /\ Older(refresh[u].tok, s) \in Token
                     /\ Older(refresh[u].tok, s).sid = refresh[u].tok.sid
  BY <1>2, OlderTyped
<1>4. \A u \in Tab : /\ n(u) \in Refresh /\ n(u).ans = refresh[u].ans
                     /\ n(u).pc = refresh[u].pc /\ n(u).current = refresh[u].current
                     /\ n(u).tok = Older(refresh[u].tok, s)
                     /\ n(u).tok.sid = refresh[u].tok.sid
  BY <1>1, <1>2, <1>3
<1>5. refresh' = [u \in Tab |-> n(u)]
  OBVIOUS
<1> HIDE DEF n
<1> QED
  BY <1>3, <1>4, <1>5 DEF RefreshType

(* A request that was given up, when the server handles it after all: the  *)
(* pages see nothing of it, but tokens get older and a session may end.    *)
LEMMA AbandonedKeeps ==
  ASSUME Typed, NEW i \in Slot, AbandonedStep(i)
  PROVE  /\ Typed' /\ UNCHANGED <<holder, tab, inbox, left>>
         /\ \A u \in Tab : /\ refresh'[u].pc = refresh[u].pc
                           /\ refresh'[u].ans = refresh[u].ans
                           /\ refresh'[u].current = refresh[u].current
                           /\ refresh'[u].tok.sid = refresh[u].tok.sid
         /\ \A u \in Tab : /\ op'[u].pc = op[u].pc /\ op'[u].sid = op[u].sid
                           /\ op'[u].tok.sid = op[u].tok.sid
         /\ cookie'.sid = cookie.sid
         /\ \A s \in Session : /\ status'[s] = "none" => status[s] = "none"
                               /\ status[s] = "revoked" => status'[s] = "revoked"
<1> USE DEF Typed
<1>1. late[i] \in Token /\ NoToken \in Token
  BY NothingTyped DEF RestType
<1>2. late[i].sid # NoSession => late[i].sid \in Session
  BY <1>1 DEF Token, Sid
<1>3. UNCHANGED <<holder, tab, inbox, left>> /\ steps' \in 0..MaxSteps
  <2>1. UNCHANGED <<holder, tab, inbox, left>> /\ (UNCHANGED steps \/ Counted)
    BY DEF AbandonedStep, AbandonedIgnored, AbandonedRotates, AbandonedReused
  <2> QED
    BY <2>1, CountedTyped DEF RestType
<1>4. CASE AbandonedIgnored(i)
  <2>1. UNCHANGED <<refresh, op, cookie, status, lost, reused>>
    BY <1>4 DEF AbandonedIgnored
  <2>2. late' \in [Slot -> Token]
    BY <1>1, <1>4 DEF AbandonedIgnored, RestType
  <2> QED
    BY <1>3, <2>1, <2>2 DEF TabType, RefreshType, OpType, BrowserType, RestType
<1>5. CASE AbandonedReused(i)
  <2>1. UNCHANGED <<refresh, op, cookie, lost>>
    BY <1>5 DEF AbandonedReused
  <2>5. TabType' /\ RefreshType' /\ OpType' /\ BrowserType'
    BY <1>3, <2>1 DEF TabType, RefreshType, OpType, BrowserType
  <2>2. late' \in [Slot -> Token]
    BY <1>1, <1>5 DEF AbandonedReused, RestType
  <2>3. reused' \subseteq Session /\ status' \in [Session -> {"none", "active", "revoked"}]
    BY <1>2, <1>5 DEF AbandonedReused, RestType
  <2>4. \A s \in Session : /\ status'[s] = "none" => status[s] = "none"
                           /\ status[s] = "revoked" => status'[s] = "revoked"
    BY <1>2, <1>5 DEF AbandonedReused, RestType
  <2>6. RestType'
    BY <1>3, <2>1, <2>2, <2>3 DEF RestType
  <2> QED
    BY <1>3, <2>1, <2>4, <2>5, <2>6
<1>6. CASE AbandonedRotates(i)
  <2> DEFINE s == late[i].sid
  <2>1. s \in Session /\ UNCHANGED <<status, reused>> /\ lost' = lost \cup {s}
    BY <1>2, <1>6 DEF AbandonedRotates
  <2>2. \A j \in Slot : Older(late[j], s) \in Token
    BY OlderTyped DEF RestType
  <2>3. late' \in [Slot -> Token]
    BY <1>1, <1>6, <2>2 DEF AbandonedRotates, RestType
  <2>4. refresh' = [u \in Tab |-> [refresh[u] EXCEPT !.tok = Older(refresh[u].tok, s)]]
    BY <1>6 DEF AbandonedRotates
  <2>5. Aged(s)
    BY <1>6 DEF AbandonedRotates
  <2> HIDE DEF s
  <2>6. /\ RefreshType'
        /\ \A u \in Tab : /\ refresh'[u].pc = refresh[u].pc
                          /\ refresh'[u].ans = refresh[u].ans
                          /\ refresh'[u].current = refresh[u].current
                          /\ refresh'[u].tok.sid = refresh[u].tok.sid
    BY <2>4, OlderRefreshes
  <2>7. /\ OpType' /\ cookie' \in Token /\ cookie'.sid = cookie.sid
        /\ \A u \in Tab : /\ op'[u].pc = op[u].pc /\ op'[u].sid = op[u].sid
                          /\ op'[u].tok.sid = op[u].tok.sid
    BY <2>5, AgedTyped DEF BrowserType
  <2>8. TabType' /\ BrowserType' /\ RestType'
    BY <1>3, <2>1, <2>3, <2>7 DEF TabType, BrowserType, RestType
  <2> QED
    BY <1>3, <2>1, <2>6, <2>7, <2>8
<1> QED
  BY <1>4, <1>5, <1>6 DEF AbandonedStep

-----------------------------------------------------------------------------
(* What the callers of a refresh do with its outcome: the request of the   *)
(* tab stays what it was, or goes on with the session and cookie given.    *)
LEMMA ResumedTyped ==
  ASSUME op \in [Tab -> Op], NEW t \in Tab, NEW outcome,
         NEW store \in Store, NEW jar \in Token
  PROVE  LET k == Resumed(t, outcome, store, jar)
         IN  /\ k \in [Tab -> Op]
             /\ \A u \in Tab \ {t} : k[u] = op[u]
             /\ \/ k[t] = op[t]
                \/ /\ k[t].pc # "signedIn"
                   /\ k[t].sid \in {NoSession, store.sid}
                   /\ k[t].tok.sid \in {NoSession, jar.sid}
<1> DEFINE again(pc) == [NoOp EXCEPT !.pc = pc, !.sid = store.sid,
                                !.access = store.token]
           logout == [again("logout") EXCEPT !.tok = jar, !.retry = FALSE]
           Good(o) == /\ o \in Op /\ o.pc # "signedIn"
                      /\ o.sid \in {NoSession, store.sid}
                      /\ o.tok.sid \in {NoSession, jar.sid}
<1>1. store.sid \in Sid /\ store.token \in Access
  BY DEF Store
<1>2. Good(again("replay"))
  BY <1>1, NothingTyped DEF Op, OpPc
<1>3. Good(logout)
  BY <1>1, NothingTyped DEF Op, OpPc
<1>4. Good(NoOp)
  BY NothingTyped
<1>5. Good([NoOp EXCEPT !.pc = "redirect"])
  BY NothingTyped DEF Op, OpPc
<1>6. Good([NoOp EXCEPT !.pc = "loggedOut"])
  BY NothingTyped DEF Op, OpPc
<1> DEFINE a == again("replay")
           l == logout
           d == [NoOp EXCEPT !.pc = "redirect"]
           g == [NoOp EXCEPT !.pc = "loggedOut"]
           n == CASE op[t].pc = "apiWait" ->
                     CASE outcome = "authenticated" -> a
                       [] outcome = "transient"     -> NoOp
                       [] OTHER -> d
                [] op[t].pc = "logoutWait" ->
                     CASE outcome = "authenticated" -> l
                       [] outcome = "anonymous" -> g
                       [] OTHER -> NoOp
                [] OTHER -> op[t]
<1>7. Resumed(t, outcome, store, jar) = [op EXCEPT ![t] = n]
  BY DEF Resumed
<1>8. Good(a) /\ Good(l) /\ Good(d) /\ Good(g) /\ Good(NoOp)
  BY <1>2, <1>3, <1>4, <1>5, <1>6
<1> HIDE DEF Good, a, l, d, g
<1>9. n = op[t] \/ Good(n)
  <2>1. n \in {a, NoOp, d, l, g, op[t]}
    OBVIOUS
  <2> QED
    BY <2>1, <1>8
<1> HIDE DEF n
<1> QED
  BY <1>7, <1>9 DEF Good

(* A promise that settled leaves no refresh, and no lock with this tab.    *)
LEMMA SettledTyped ==
  ASSUME RefreshType, OpType, holder \in Tab \cup {NoTab}, NEW t \in Tab, NEW outcome,
         NEW store \in Store, NEW jar \in Token, Settled(t, outcome, store, jar)
  PROVE  /\ RefreshType' /\ OpType' /\ holder' \in Tab \cup {NoTab}
         /\ refresh'[t] = NoRefresh /\ \A u \in Tab \ {t} : refresh'[u] = refresh[u]
         /\ \A u \in Tab \ {t} : op'[u] = op[u]
         /\ \/ op'[t] = op[t]
            \/ /\ op'[t].pc # "signedIn"
               /\ op'[t].sid \in {NoSession, store.sid}
               /\ op'[t].tok.sid \in {NoSession, jar.sid}
         /\ \A u \in Tab \ {t} : holder = u => holder' = u
<1>1. refresh' = [refresh EXCEPT ![t] = NoRefresh]
  BY DEF Settled
<1>2. op' = Resumed(t, outcome, store, jar)
  BY DEF Settled
<1>3. holder' = IF holder = t THEN NoTab ELSE holder
  BY DEF Settled
<1>4. /\ op' \in [Tab -> Op]
      /\ \A u \in Tab \ {t} : op'[u] = op[u]
      /\ \/ op'[t] = op[t]
         \/ /\ op'[t].pc # "signedIn"
            /\ op'[t].sid \in {NoSession, store.sid}
            /\ op'[t].tok.sid \in {NoSession, jar.sid}
  BY <1>2, ResumedTyped DEF OpType
<1>5. RefreshType'
  BY <1>1, NothingTyped DEF RefreshType
<1>6. OpType'
  BY <1>4 DEF OpType
<1> QED
  BY <1>1, <1>3, <1>4, <1>5, <1>6 DEF RefreshType

(* A page that is loaded again starts from nothing.                        *)
LEMMA ReloadedTyped ==
  ASSUME Typed, NEW t \in Tab, Reloaded(t)
  PROVE  /\ TabType' /\ RefreshType' /\ OpType' /\ holder' \in Tab \cup {NoTab}
         /\ left' \in [Tab -> SUBSET Session] /\ lost' \subseteq Session
         /\ late' \in [Slot -> Token]
         /\ \A i \in Slot : \/ late'[i] = late[i]
                            \/ refresh[t].pc = "sent" /\ late'[i] = refresh[t].tok
         /\ tab'[t].sid = NoSession /\ refresh'[t] = NoRefresh /\ op'[t] = NoOp
         /\ left'[t] = {}
         /\ \A u \in Tab \ {t} : /\ tab'[u] = tab[u] /\ refresh'[u] = refresh[u]
                                 /\ op'[u] = op[u] /\ left'[u] = left[u]
                                 /\ holder = u => holder' = u
         /\ lost \subseteq lost'
<1> USE DEF Typed
<1>1. Anonymous("idle") \in Store /\ Anonymous("idle").sid = NoSession
  BY AnonymousTyped
<1>2. TabType' /\ tab'[t].sid = NoSession /\ \A u \in Tab \ {t} : tab'[u] = tab[u]
  BY <1>1 DEF Reloaded, TabType
<1>3. RefreshType' /\ refresh'[t] = NoRefresh /\ \A u \in Tab \ {t} : refresh'[u] = refresh[u]
  BY NothingTyped DEF Reloaded, RefreshType
<1>4. OpType' /\ op'[t] = NoOp /\ \A u \in Tab \ {t} : op'[u] = op[u]
  BY NothingTyped DEF Reloaded, OpType
<1>5. /\ left' \in [Tab -> SUBSET Session] /\ left'[t] = {}
      /\ \A u \in Tab \ {t} : left'[u] = left[u]
  BY DEF Reloaded, RestType
<1>6. lost' \subseteq Session /\ lost \subseteq lost'
  BY DEF Reloaded, RestType, RefreshType
<1>7. holder' \in Tab \cup {NoTab} /\ \A u \in Tab \ {t} : holder = u => holder' = u
  BY DEF Reloaded, BrowserType
<1>8. /\ late' \in [Slot -> Token]
      /\ \A i \in Slot : \/ late'[i] = late[i]
                         \/ refresh[t].pc = "sent" /\ late'[i] = refresh[t].tok
  BY AbandonedTyped DEF Reloaded, RestType
<1> QED
  BY <1>2, <1>3, <1>4, <1>5, <1>6, <1>7, <1>8

(* An inbox keeps its type when an event is published.                     *)
LEMMA PublishTyped ==
  ASSUME inbox \in [Tab -> Seq(Event)], NEW t \in Tab, NEW s \in Session,
         NEW k \in {"authenticated", "signed_out"}
  PROVE  LET b == publishAuthSessionEvent(t, k, s)
         IN  /\ b \in [Tab -> Seq(Event)]
             /\ \A u \in Tab, i \in Nat :
                  i \in 1..Len(b[u]) =>
                     \/ i \in 1..Len(inbox[u]) /\ b[u][i] = inbox[u][i]
                     \/ b[u][i].sid = s
<1> DEFINE e == [kind |-> k, sid |-> s]
           b == publishAuthSessionEvent(t, k, s)
<1>1. e \in Event /\ e.sid = s
  BY DEF Event
<1>2. b = [u \in Tab |-> IF u = t THEN inbox[u] ELSE Append(inbox[u], e)]
  BY DEF publishAuthSessionEvent
<1> HIDE DEF e, b
<1>3. \A u \in Tab : inbox[u] \in Seq(Event) /\ Append(inbox[u], e) \in Seq(Event)
  BY <1>1
<1>4. b \in [Tab -> Seq(Event)]
  BY <1>2, <1>3
<1>5. ASSUME NEW u \in Tab, NEW i \in Nat, i \in 1..Len(b[u])
      PROVE  \/ i \in 1..Len(inbox[u]) /\ b[u][i] = inbox[u][i]
             \/ b[u][i].sid = s
  <2>1. CASE u = t
    BY <2>1, <1>5, <1>2
  <2>2. CASE u # t
    <3>1. b[u] = Append(inbox[u], e)
      BY <2>2, <1>2
    <3>2. Len(Append(inbox[u], e)) = Len(inbox[u]) + 1 /\ Len(inbox[u]) \in Nat
      BY <1>1, <1>3
    <3>3. i \in 1..Len(inbox[u]) \/ i = Len(inbox[u]) + 1
      BY <3>1, <3>2, <1>5
    <3>4. i = Len(inbox[u]) + 1 => b[u][i] = e
      BY <3>1, <1>1, <1>3
    <3>5. i \in 1..Len(inbox[u]) => b[u][i] = inbox[u][i]
      BY <3>1, <1>1, <1>3
    <3> QED
      BY <3>3, <3>4, <3>5, <1>1
  <2> QED
    BY <2>1, <2>2
<1> QED
  BY <1>4, <1>5 DEF b

(* A page that clears its store shows no session, and tells the others.    *)
LEMMA ClearTyped ==
  ASSUME TabType, inbox \in [Tab -> Seq(Event)], NEW t \in Tab, NEW sync \in BOOLEAN,
         clearAuthentication(t, sync)
  PROVE  /\ TabType' /\ inbox' \in [Tab -> Seq(Event)]
         /\ tab'[t].sid = NoSession /\ \A u \in Tab \ {t} : tab'[u] = tab[u]
         /\ \A u \in Tab, i \in Nat :
              i \in 1..Len(inbox'[u]) =>
                 \/ i \in 1..Len(inbox[u]) /\ inbox'[u][i] = inbox[u][i]
                 \/ tab[t].sid # NoSession /\ inbox'[u][i].sid = tab[t].sid
<1>1. Anonymous("complete") \in Store /\ Anonymous("complete").sid = NoSession
  BY AnonymousTyped
<1>2. tab' = [tab EXCEPT ![t] = Anonymous("complete")]
  BY DEF clearAuthentication
<1>3. TabType' /\ tab'[t].sid = NoSession /\ \A u \in Tab \ {t} : tab'[u] = tab[u]
  BY <1>1, <1>2 DEF TabType
<1>4. CASE sync /\ tab[t].sid # NoSession
  <2>1. tab[t].sid \in Session
    BY <1>4 DEF TabType, Store, Sid
  <2>2. inbox' = publishAuthSessionEvent(t, "signed_out", tab[t].sid)
    BY <1>4 DEF clearAuthentication
  <2> QED
    BY <1>3, <1>4, <2>1, <2>2, PublishTyped
<1>5. CASE ~(sync /\ tab[t].sid # NoSession)
  BY <1>3, <1>5 DEF clearAuthentication
<1> QED
  BY <1>4, <1>5

-----------------------------------------------------------------------------
(* Type correctness, one case per action.                                  *)

(* An access token that may have become outdated is one of the kinds.      *)
LEMMA OutdatedTyped == \A x \in Access, b \in BOOLEAN : Outdated(x, b) \in Access
BY DEF Outdated, Access

(* A session event.                                                        *)
LEMMA ReceiveTyped ==
  ASSUME Typed, NEW t \in Tab, ReceiveEvent(t)
  PROVE  Typed'
<1> USE DEF Typed
<1> DEFINE e == Head(inbox[t])
<1>1. /\ inbox[t] \in Seq(Event) /\ inbox[t] # <<>>
  BY DEF ReceiveEvent, BrowserType
<1>2. e \in Event /\ Tail(inbox[t]) \in Seq(Event)
  BY <1>1
<1>3. e.sid \in Session
  BY <1>2 DEF Event
<1>4. UNCHANGED <<cookie, status, steps, reused>>
  BY DEF ReceiveEvent
<1>5. CASE /\ Reloaded(t)
           /\ inbox' = [inbox EXCEPT ![t] = <<>>]
  BY <1>4, <1>5, ReloadedTyped DEF BrowserType, RestType
<1>6. CASE /\ tab' = [tab EXCEPT ![t] = Anonymous("complete")]
           /\ refresh' = Superseded(t)
           /\ inbox' = [inbox EXCEPT ![t] = Tail(inbox[t])]
           /\ left' = [left EXCEPT ![t] = left[t] \cup Ended({e.sid})]
           /\ UNCHANGED <<op, holder, late, lost>>
  <2>1. TabType'
    BY <1>6, AnonymousTyped DEF TabType
  <2>2. RefreshType'
    <3>1. /\ Superseded(t) \in [Tab -> Refresh]
          /\ \A u \in Tab \ {t} : Superseded(t)[u] = refresh[u]
          /\ Superseded(t)[t].pc = refresh[t].pc /\ Superseded(t)[t].tok = refresh[t].tok
          /\ Superseded(t)[t].ans = refresh[t].ans
      BY SupersededTyped DEF RefreshType
    <3> QED
      BY <1>6, <3>1 DEF RefreshType
  <2>3. OpType'
    BY <1>6 DEF OpType
  <2>4. BrowserType'
    BY <1>2, <1>4, <1>6 DEF BrowserType
  <2>5. Ended({e.sid}) \subseteq Session
    BY <1>3 DEF Ended
  <2>6. RestType'
    BY <1>4, <1>6, <2>5 DEF RestType
  <2> QED
    BY <2>1, <2>2, <2>3, <2>4, <2>6
<1>7. CASE /\ inbox' = [inbox EXCEPT ![t] = Tail(inbox[t])]
           /\ UNCHANGED <<tab, refresh, op, holder, left, late, lost>>
  BY <1>2, <1>4, <1>7 DEF TabType, RefreshType, OpType, BrowserType, RestType
<1> QED
  BY <1>5, <1>6, <1>7 DEF ReceiveEvent

(* The answer of a refresh.                                                *)
LEMMA AnsweredTyped ==
  ASSUME Typed, NEW t \in Tab, RefreshAnswered(t)
  PROVE  Typed'
<1> USE DEF Typed
<1> DEFINE r == refresh[t]
<1>1. r \in Refresh /\ r.tok \in Token /\ r.access \in Access /\ tab[t].sid \in Sid
  BY DEF RefreshType, Refresh, TabType, Store
<1>2. cookie' = StoredCookie(t) /\ cookie' \in Token
  BY <1>1 DEF RefreshAnswered, StoredCookie, BrowserType
<1>3. UNCHANGED <<steps, status, late, lost, reused>> /\ r.pc = "answered"
  BY DEF RefreshAnswered, serverVars
<1>4. tab[t] \in Store
  BY DEF TabType
<1>5. CASE /\ Settled(t, "transient", tab[t], cookie')
           /\ UNCHANGED <<tab, inbox, left>>
  <2>1. RefreshType' /\ OpType' /\ holder' \in Tab \cup {NoTab}
    BY <1>2, <1>4, <1>5, SettledTyped DEF BrowserType
  <2> QED
    BY <1>2, <1>3, <1>5, <2>1 DEF TabType, BrowserType, RestType
<1>6. CASE /\ r.ans = "ok"
           /\ tab' = setBundle(t, r.tok.sid, r.access)
           /\ Settled(t, "authenticated", tab'[t], cookie')
           /\ UNCHANGED <<inbox, left>>
  <2> DEFINE k == [sid |-> r.tok.sid, token |-> r.access, boot |-> "complete"]
  <2>1. k \in Store
    BY <1>1 DEF Store, Token
  <2>2. tab' = [tab EXCEPT ![t] = k]
    BY <1>6 DEF setBundle
  <2> HIDE DEF k
  <2>3. TabType' /\ tab'[t] \in Store
    BY <2>1, <2>2 DEF TabType
  <2>4. RefreshType' /\ OpType' /\ holder' \in Tab \cup {NoTab}
    BY <1>2, <1>6, <2>3, SettledTyped DEF BrowserType
  <2> QED
    BY <1>2, <1>3, <1>6, <2>3, <2>4 DEF BrowserType, RestType
<1>7. CASE /\ clearAuthentication(t, TRUE)
           /\ Settled(t, "anonymous", tab'[t], cookie')
           /\ left' = [left EXCEPT ![t] = left[t] \cup Ended({tab[t].sid})]
  <2>1. TabType' /\ inbox' \in [Tab -> Seq(Event)]
    BY <1>7, ClearTyped DEF BrowserType
  <2>2. RefreshType' /\ OpType' /\ holder' \in Tab \cup {NoTab}
    BY <1>2, <1>7, <2>1, SettledTyped DEF BrowserType, TabType
  <2>3. Ended({tab[t].sid}) \subseteq Session
    BY <1>1 DEF Ended, Sid
  <2> QED
    BY <1>2, <1>3, <1>7, <2>1, <2>2, <2>3 DEF BrowserType, RestType
<1>8. CASE /\ tab' = [tab EXCEPT ![t] = Anonymous("idle")]
           /\ refresh' = [refresh EXCEPT ![t] =
                            [Sent(r, NoSession) EXCEPT !.retry = FALSE, !.race = 0]]
           /\ UNCHANGED <<holder, op, inbox, left>>
  <2> DEFINE k == [Sent(r, NoSession) EXCEPT !.retry = FALSE, !.race = 0]
  <2>1. Sent(r, NoSession) \in Refresh /\ Sent(r, NoSession).ans = "none"
    BY <1>1, SentTyped DEF BrowserType, Sid
  <2>2. k \in Refresh /\ k.ans = "none"
    <3>1. 0 \in 0..RaceDelays
      BY AuthSessionAssumption
    <3>2. ASSUME NEW x \in Refresh
          PROVE  /\ [x EXCEPT !.retry = FALSE, !.race = 0] \in Refresh
                 /\ [x EXCEPT !.retry = FALSE, !.race = 0].ans = x.ans
      BY <3>1 DEF Refresh
    <3> QED
      BY <2>1, <3>2
  <2>3. refresh' = [refresh EXCEPT ![t] = k]
    BY <1>8
  <2> HIDE DEF k
  <2>4. RefreshType'
    BY <2>2, <2>3 DEF RefreshType
  <2>5. TabType'
    BY <1>8, AnonymousTyped DEF TabType
  <2> QED
    BY <1>2, <1>3, <1>8, <2>4, <2>5 DEF OpType, BrowserType, RestType
<1>9. CASE /\ MoreDelays(r.race)
           /\ refresh' = [refresh EXCEPT ![t].pc = "delay", ![t].race = r.race + 1,
                                            ![t].ans = "none"]
           /\ UNCHANGED <<holder, op, tab, inbox, left>>
  <2> DEFINE k == [r EXCEPT !.pc = "delay", !.race = r.race + 1, !.ans = "none"]
  <2>1. r.race + 1 \in 0..RaceDelays
    BY <1>1, <1>9, AuthSessionAssumption DEF MoreDelays, Refresh
  <2>2. k \in Refresh /\ k.ans = "none"
    BY <1>1, <2>1 DEF Refresh, Answer
  <2>3. refresh' = [refresh EXCEPT ![t] = k]
    BY <1>9 DEF RefreshType
  <2> HIDE DEF k
  <2>4. RefreshType'
    BY <2>2, <2>3 DEF RefreshType
  <2> QED
    BY <1>2, <1>3, <1>9, <2>4 DEF TabType, OpType, BrowserType, RestType
<1>10. CASE /\ clearAuthentication(t, FALSE)
            /\ Settled(t, "out_of_sync", tab'[t], cookie')
            /\ UNCHANGED left
  <2>1. TabType' /\ inbox' \in [Tab -> Seq(Event)]
    BY <1>10, ClearTyped DEF BrowserType
  <2>2. RefreshType' /\ OpType' /\ holder' \in Tab \cup {NoTab}
    BY <1>2, <1>10, <2>1, SettledTyped DEF BrowserType, TabType
  <2> QED
    BY <1>2, <1>3, <1>10, <2>1, <2>2 DEF BrowserType, RestType
<1>11. CASE /\ tab' = [tab EXCEPT ![t].boot = "idle"]
            /\ Settled(t, "transient", tab'[t], cookie')
            /\ UNCHANGED <<inbox, left>>
  <2>1. \A x \in Store : [x EXCEPT !.boot = "idle"] \in Store
    BY DEF Store
  <2>2. TabType'
    BY <1>11, <2>1 DEF TabType
  <2>3. RefreshType' /\ OpType' /\ holder' \in Tab \cup {NoTab}
    BY <1>2, <1>11, <2>2, SettledTyped DEF BrowserType, TabType
  <2> QED
    BY <1>2, <1>3, <1>11, <2>2, <2>3 DEF BrowserType, RestType
<1> QED
  BY <1>5, <1>6, <1>7, <1>8, <1>9, <1>10, <1>11, Zenon DEF RefreshAnswered

(* Every step keeps the types.                                             *)
LEMMA TypeStep == Typed /\ [Next]_vars => Typed'
<1> SUFFICES ASSUME Typed, [Next]_vars PROVE Typed'
  OBVIOUS
<1> USE DEF Typed
<1>1. ASSUME NEW t \in Tab, bootstrapAuthentication(t) PROVE Typed'
  <2>1. TabType'
    <3>1. \A x \in Store : /\ [x EXCEPT !.boot = "complete"] \in Store
                           /\ [x EXCEPT !.boot = "checking"] \in Store
      BY DEF Store
    <3>2. \E k \in Store : tab' = [tab EXCEPT ![t] = k]
      BY <1>1, <3>1 DEF bootstrapAuthentication, TabType
    <3> QED
      BY <3>2 DEF TabType
  <2>2. RefreshType'
    <3>1. UNCHANGED refresh \/ refresh' = refreshAuthentication(t)
      BY <1>1 DEF bootstrapAuthentication
    <3> QED
      BY <3>1, BeginTyped DEF RefreshType
  <2>3. OpType'
    BY <1>1 DEF bootstrapAuthentication, OpType
  <2>4. BrowserType'
    BY <1>1 DEF bootstrapAuthentication, BrowserType
  <2>5. RestType'
    BY <1>1 DEF bootstrapAuthentication, RestType, serverVars
  <2> QED
    BY <2>1, <2>2, <2>3, <2>4, <2>5
<1>2. ASSUME NEW t \in Tab, getFreshAuthHeaders(t) PROVE Typed'
  <2>1. TabType'
    BY <1>2 DEF getFreshAuthHeaders, TabType
  <2>2. RefreshType'
    BY <1>2, BeginTyped DEF getFreshAuthHeaders, RefreshType
  <2>3. OpType'
    BY <1>2 DEF getFreshAuthHeaders, OpType
  <2>4. BrowserType'
    BY <1>2 DEF getFreshAuthHeaders, BrowserType
  <2>5. RestType'
    BY <1>2 DEF getFreshAuthHeaders, RestType, serverVars
  <2> QED
    BY <2>1, <2>2, <2>3, <2>4, <2>5
<1>3. ASSUME NEW t \in Tab, ApiReceives401(t) PROVE Typed'
  <2>1. TabType'
    BY <1>3 DEF ApiReceives401, TabType
  <2>2. RefreshType'
    BY <1>3, BeginTyped DEF ApiReceives401, RefreshType
  <2>3. OpType'
    <3> DEFINE k == [NoOp EXCEPT !.pc = "apiWait"]
    <3>1. k \in Op /\ k.pc = "apiWait"
      BY FreshOp DEF OpPc
    <3>2. op' = [op EXCEPT ![t] = k]
      BY <1>3 DEF ApiReceives401
    <3> HIDE DEF k
    <3> QED
      BY <3>1, <3>2 DEF OpType
  <2>4. BrowserType'
    BY <1>3 DEF ApiReceives401, BrowserType
  <2>5. RestType'
    BY <1>3 DEF ApiReceives401, RestType, serverVars
  <2> QED
    BY <2>1, <2>2, <2>3, <2>4, <2>5
<1>4. ASSUME NEW t \in Tab, NEW s \in Session, createLoginSession(t, s) PROVE Typed'
  <2>1. TabType'
    BY <1>4 DEF createLoginSession, TabType
  <2>2. RefreshType'
    BY <1>4 DEF createLoginSession, RefreshType
  <2>3. OpType'
    <3> DEFINE k == [NoOp EXCEPT !.pc = "signedIn", !.sid = s, !.access = "good"]
    <3>1. k \in Op /\ k.sid = s
      BY NothingTyped DEF Op, OpPc, Sid, Access
    <3>2. op' = [op EXCEPT ![t] = k]
      BY <1>4 DEF createLoginSession
    <3> HIDE DEF k
    <3> QED
      BY <3>1, <3>2 DEF OpType
  <2>4. BrowserType'
    BY <1>4 DEF createLoginSession, BrowserType
  <2>5. RestType'
    BY <1>4, CountedTyped DEF RestType, createLoginSession
  <2> QED
    BY <2>1, <2>2, <2>3, <2>4, <2>5
<1>5. ASSUME NEW t \in Tab, Logout(t) PROVE Typed'
  <2>1. TabType'
    BY <1>5 DEF Logout, TabType
  <2>2. RefreshType'
    BY <1>5 DEF Logout, RefreshType
  <2>3. OpType'
    <3> DEFINE k == [NoOp EXCEPT !.pc = "logout", !.sid = tab[t].sid,
                              !.access = tab[t].token, !.tok = cookie]
    <3>1. k \in Op /\ k.pc = "logout"
      BY NothingTyped DEF Op, OpPc, TabType, Store, BrowserType
    <3>2. op' = [op EXCEPT ![t] = k]
      BY <1>5 DEF Logout
    <3> HIDE DEF k
    <3> QED
      BY <3>1, <3>2 DEF OpType
  <2>4. BrowserType'
    BY <1>5 DEF Logout, BrowserType
  <2>5. RestType'
    BY <1>5, CountedTyped DEF RestType, Logout, serverVars
  <2> QED
    BY <2>1, <2>2, <2>3, <2>4, <2>5
<1>6. ASSUME NEW t \in Tab, AdvanceCurrentSessionSecurity(t) PROVE Typed'
  <2>1. TabType'
    <3>1. \A x \in Store, b \in BOOLEAN :
             [x EXCEPT !.token = Outdated(x.token, b)] \in Store
      BY OutdatedTyped DEF Store
    <3>2. \A u \in Tab : (tab[u].sid = tab[t].sid) \in BOOLEAN
      OBVIOUS
    <3>3. tab' = [u \in Tab |-> [tab[u] EXCEPT !.token =
                                  Outdated(tab[u].token, tab[u].sid = tab[t].sid)]]
      BY <1>6 DEF AdvanceCurrentSessionSecurity
    <3> QED
      BY <3>1, <3>2, <3>3 DEF TabType
  <2>2. RefreshType'
    <3>1. \A x \in Refresh, b \in BOOLEAN :
             LET y == [x EXCEPT !.access = Outdated(x.access, b)]
             IN  y \in Refresh /\ y.ans = x.ans /\ y.pc = x.pc /\ y.tok = x.tok
      BY OutdatedTyped DEF Refresh
    <3>2. \A u \in Tab : (refresh[u].tok.sid = tab[t].sid) \in BOOLEAN
      OBVIOUS
    <3> DEFINE n(u) == [refresh[u] EXCEPT !.access =
                         Outdated(refresh[u].access, refresh[u].tok.sid = tab[t].sid)]
    <3>3. \A u \in Tab : /\ n(u) \in Refresh /\ n(u).ans = refresh[u].ans
                         /\ n(u).pc = refresh[u].pc /\ n(u).tok = refresh[u].tok
      BY <3>1, <3>2 DEF RefreshType
    <3>4. refresh' = [u \in Tab |-> n(u)]
      BY <1>6 DEF AdvanceCurrentSessionSecurity
    <3> HIDE DEF n
    <3> QED
      BY <3>3, <3>4 DEF RefreshType
  <2>3. OpType'
    <3> DEFINE k == [NoOp EXCEPT !.pc = "rotated", !.sid = tab[t].sid, !.access = "good"]
           n(u) == [op[u] EXCEPT !.access = Outdated(op[u].access, op[u].sid = tab[t].sid)]
    <3>1. \A x \in Op, b \in BOOLEAN :
             LET y == [x EXCEPT !.access = Outdated(x.access, b)]
             IN  y \in Op /\ y.pc = x.pc /\ y.sid = x.sid
      BY OutdatedTyped DEF Op
    <3>2. \A u \in Tab : (op[u].sid = tab[t].sid) \in BOOLEAN
      OBVIOUS
    <3>3. \A u \in Tab : n(u) \in Op /\ n(u).pc = op[u].pc /\ n(u).sid = op[u].sid
      BY <3>1, <3>2 DEF OpType
    <3>4. k \in Op /\ k.pc = "rotated"
      BY NothingTyped DEF Op, OpPc, Access, TabType, Store
    <3>5. op' = [u \in Tab |-> IF u = t THEN k ELSE n(u)]
      BY <1>6 DEF AdvanceCurrentSessionSecurity
    <3> HIDE DEF k, n
    <3> QED
      BY <3>3, <3>4, <3>5 DEF OpType
  <2>4. BrowserType'
    BY <1>6 DEF AdvanceCurrentSessionSecurity, BrowserType
  <2>5. RestType'
    BY <1>6, CountedTyped DEF RestType, AdvanceCurrentSessionSecurity, Revoked
  <2> QED
    BY <2>1, <2>2, <2>3, <2>4, <2>5
<1>7. ASSUME NEW t \in Tab, performRefreshWithBrowserLock(t) PROVE Typed'
  <2>1. TabType'
    BY <1>7 DEF performRefreshWithBrowserLock, TabType
  <2>2. RefreshType'
    <3>1. CASE refresh[t].current
      <4>1. /\ Sent(refresh[t], tab[t].sid) \in Refresh
            /\ Sent(refresh[t], tab[t].sid).ans = "none"
        BY SentTyped DEF RefreshType, BrowserType, TabType, Store
      <4> QED
        BY <1>7, <3>1, <4>1 DEF performRefreshWithBrowserLock, RefreshType
    <3>2. CASE ~refresh[t].current
      BY <1>7, <3>2, SettledTyped DEF performRefreshWithBrowserLock, TabType, BrowserType
    <3> QED
      BY <3>1, <3>2
  <2>3. OpType'
    <3>1. CASE refresh[t].current
      BY <1>7, <3>1 DEF performRefreshWithBrowserLock, OpType
    <3>2. CASE ~refresh[t].current
      BY <1>7, <3>2, SettledTyped DEF performRefreshWithBrowserLock, TabType, BrowserType
    <3> QED
      BY <3>1, <3>2
  <2>4. BrowserType'
    BY <1>7 DEF performRefreshWithBrowserLock, BrowserType, Settled
  <2>5. RestType'
    BY <1>7 DEF performRefreshWithBrowserLock, RestType, serverVars
  <2> QED
    BY <2>1, <2>2, <2>3, <2>4, <2>5
<1>8. ASSUME NEW t \in Tab, RaceRetry(t) PROVE Typed'
  <2>1. TabType'
    BY <1>8 DEF RaceRetry, TabType
  <2>2. RefreshType'
    <3>1. CASE refresh[t].current
      <4>1. /\ Sent(refresh[t], tab[t].sid) \in Refresh
            /\ Sent(refresh[t], tab[t].sid).ans = "none"
        BY SentTyped DEF RefreshType, BrowserType, TabType, Store
      <4> QED
        BY <1>8, <3>1, <4>1 DEF RaceRetry, RefreshType
    <3>2. CASE ~refresh[t].current
      BY <1>8, <3>2, SettledTyped DEF RaceRetry, TabType, BrowserType
    <3> QED
      BY <3>1, <3>2
  <2>3. OpType'
    <3>1. CASE refresh[t].current
      BY <1>8, <3>1 DEF RaceRetry, OpType
    <3>2. CASE ~refresh[t].current
      BY <1>8, <3>2, SettledTyped DEF RaceRetry, TabType, BrowserType
    <3> QED
      BY <3>1, <3>2
  <2>4. BrowserType'
    BY <1>8 DEF RaceRetry, BrowserType, Settled
  <2>5. RestType'
    BY <1>8 DEF RaceRetry, RestType, serverVars
  <2> QED
    BY <2>1, <2>2, <2>3, <2>4, <2>5
<1>9. ASSUME NEW t \in Tab, RefreshDenied(t) PROVE Typed'
  <2>1. TabType'
    BY <1>9 DEF RefreshDenied, TabType
  <2>2. RefreshType'
    <3>1. \E a \in {"denied", "mismatch"} : refresh' = [refresh EXCEPT ![t] = Reply(t, a, NoToken)]
      BY <1>9 DEF RefreshDenied
    <3> QED
      BY <3>1, ReplyTyped, NothingTyped DEF RefreshType, Answer
  <2>3. OpType'
    BY <1>9 DEF RefreshDenied, OpType
  <2>4. BrowserType'
    BY <1>9 DEF RefreshDenied, BrowserType
  <2>5. RestType'
    BY <1>9 DEF RefreshDenied, RestType, serverVars
  <2> QED
    BY <2>1, <2>2, <2>3, <2>4, <2>5
<1>10. ASSUME NEW t \in Tab, RefreshMismatch(t) PROVE Typed'
  <2>1. TabType'
    BY <1>10 DEF RefreshMismatch, TabType
  <2>2. RefreshType'
    <3>1. \E a \in {"denied", "mismatch"} : refresh' = [refresh EXCEPT ![t] = Reply(t, a, NoToken)]
      BY <1>10 DEF RefreshMismatch
    <3> QED
      BY <3>1, ReplyTyped, NothingTyped DEF RefreshType, Answer
  <2>3. OpType'
    BY <1>10 DEF RefreshMismatch, OpType
  <2>4. BrowserType'
    BY <1>10 DEF RefreshMismatch, BrowserType
  <2>5. RestType'
    BY <1>10 DEF RefreshMismatch, RestType, serverVars
  <2> QED
    BY <2>1, <2>2, <2>3, <2>4, <2>5
<1>11. ASSUME NEW t \in Tab, RotateUserSessionRefresh(t) PROVE Typed'
  <2>1. TabType'
    BY <1>11 DEF RotateUserSessionRefresh, TabType
  <2>2. RefreshType'
    <3> DEFINE k == Reply(t, "ok", refresh[t].tok)
           n(u) == [refresh[u] EXCEPT !.tok = Older(refresh[u].tok, refresh[t].tok.sid)]
    <3>1. \A x \in Refresh, y \in Token :
             LET z == [x EXCEPT !.tok = y]
             IN  z \in Refresh /\ z.ans = x.ans /\ z.pc = x.pc /\ z.tok = y
      BY DEF Refresh
    <3>2. \A u \in Tab : refresh[u] \in Refresh /\ refresh[u].tok \in Token
      BY DEF RefreshType, Refresh
    <3>3. \A u \in Tab : /\ Older(refresh[u].tok, refresh[t].tok.sid) \in Token
                         /\ Older(refresh[u].tok, refresh[t].tok.sid).sid = refresh[u].tok.sid
      BY <3>2, OlderTyped
    <3>4. \A u \in Tab : /\ n(u) \in Refresh /\ n(u).ans = refresh[u].ans
                         /\ n(u).pc = refresh[u].pc /\ n(u).tok.sid = refresh[u].tok.sid
      BY <3>1, <3>2, <3>3
    <3>5. k \in Refresh /\ k.pc = "answered" /\ k.tok.sid \in Session
      <4>1. refresh[t].tok.sid \in Session
        BY <1>11, <3>2 DEF RotateUserSessionRefresh, Known, Token, Sid
      <4> QED
        BY <4>1, <3>2, ReplyTyped DEF RefreshType, Answer
    <3>6. refresh' = [u \in Tab |-> IF u = t THEN k ELSE n(u)]
      BY <1>11 DEF RotateUserSessionRefresh
    <3> HIDE DEF k, n
    <3> QED
      BY <3>4, <3>5, <3>6 DEF RefreshType
  <2>3. OpType'
    BY <1>11, AgedTyped DEF RotateUserSessionRefresh, BrowserType
  <2>4. BrowserType'
    BY <1>11, AgedTyped DEF RotateUserSessionRefresh, BrowserType
  <2>5. RestType'
    <3>1. refresh[t].tok.sid \in Session
      BY <1>11 DEF RotateUserSessionRefresh, Known, RefreshType, Refresh, Token, Sid
    <3>2. lost' \subseteq Session
      BY <1>11, <3>1 DEF RotateUserSessionRefresh, RestType
    <3>3. \A i \in Slot : Older(late[i], refresh[t].tok.sid) \in Token
      BY OlderTyped DEF RestType
    <3>4. late' \in [Slot -> Token]
      BY <1>11, <3>3 DEF RotateUserSessionRefresh
    <3> QED
      BY <1>11, <3>2, <3>4 DEF RotateUserSessionRefresh, RestType
  <2> QED
    BY <2>1, <2>2, <2>3, <2>4, <2>5
<1>12. ASSUME NEW t \in Tab, RefreshReplayed(t) PROVE Typed'
  <2>1. TabType'
    BY <1>12 DEF RefreshReplayed, TabType
  <2>2. RefreshType'
    <3> DEFINE k == [refresh[t].tok EXCEPT !.age = 0]
    <3>1. refresh[t].tok \in Token /\ refresh[t].tok.sid \in Session
      BY <1>12 DEF RefreshReplayed, Known, RefreshType, Refresh, Token, Sid
    <3>2. k \in Token /\ k.sid \in Session
      BY <3>1 DEF Token
    <3>3. refresh' = [refresh EXCEPT ![t] = Reply(t, "ok", k)]
      BY <1>12 DEF RefreshReplayed
    <3> HIDE DEF k
    <3> QED
      BY <3>2, <3>3, ReplyTyped DEF RefreshType, Answer
  <2>3. OpType'
    BY <1>12 DEF RefreshReplayed, OpType
  <2>4. BrowserType'
    BY <1>12 DEF RefreshReplayed, BrowserType
  <2>5. RestType'
    BY <1>12 DEF RefreshReplayed, RestType, serverVars
  <2> QED
    BY <2>1, <2>2, <2>3, <2>4, <2>5
<1>13. ASSUME NEW t \in Tab, RefreshReused(t) PROVE Typed'
  <2>1. TabType'
    BY <1>13 DEF RefreshReused, TabType
  <2>2. RefreshType'
    <3>1. refresh' = [refresh EXCEPT ![t] = Reply(t, "denied", NoToken)]
      BY <1>13 DEF RefreshReused
    <3> QED
      BY <3>1, ReplyTyped, NothingTyped DEF RefreshType, Answer
  <2>3. OpType'
    BY <1>13 DEF RefreshReused, OpType
  <2>4. BrowserType'
    BY <1>13 DEF RefreshReused, BrowserType
  <2>5. RestType'
    <3>1. refresh[t].tok.sid \in Session
      BY <1>13 DEF RefreshReused, Known, RefreshType, Refresh, Token, Sid
    <3> QED
      BY <1>13, <3>1 DEF RefreshReused, RestType
  <2> QED
    BY <2>1, <2>2, <2>3, <2>4, <2>5
<1>14. ASSUME NEW t \in Tab, handleLoginSuccess(t) PROVE Typed'
  <2>1. TabType'
    <3> DEFINE k == [sid |-> op[t].sid, token |-> op[t].access, boot |-> "complete"]
    <3>1. k \in Store
      BY DEF OpType, Op, Store
    <3>2. tab' = [tab EXCEPT ![t] = k]
      BY <1>14 DEF handleLoginSuccess, setBundle
    <3> HIDE DEF k
    <3> QED
      BY <3>1, <3>2 DEF TabType
  <2>2. RefreshType'
    BY <1>14, SupersededTyped DEF handleLoginSuccess, RefreshType
  <2>3. OpType'
    BY <1>14, NothingTyped DEF handleLoginSuccess, OpType
  <2>4. BrowserType'
    <3>1. op[t].sid \in Session
      BY <1>14 DEF handleLoginSuccess, OpType
    <3>2. inbox' \in [Tab -> Seq(Event)]
      BY <1>14, <3>1, PublishTyped DEF handleLoginSuccess, BrowserType
    <3>3. cookie' \in Token
      BY <1>14, <3>1 DEF handleLoginSuccess, Token, Sid
    <3> QED
      BY <1>14, <3>2, <3>3 DEF handleLoginSuccess, BrowserType
  <2>5. RestType'
    BY <1>14 DEF handleLoginSuccess, RestType, serverVars
  <2> QED
    BY <2>1, <2>2, <2>3, <2>4, <2>5
<1>15. ASSUME NEW t \in Tab, AuthLogout(t) PROVE Typed'
  <2>1. TabType'
    BY <1>15 DEF AuthLogout, TabType
  <2>2. RefreshType'
    BY <1>15 DEF AuthLogout, RefreshType
  <2>3. OpType'
    <3> DEFINE o == op[t]
           c == (~(o.access # "expired") \/ o.tok.sid = o.sid)
           k == [NoOp EXCEPT !.pc = "logoutMismatch", !.retry = o.retry]
           l == [NoOp EXCEPT !.pc = "loggedOut", !.sid = o.sid, !.clears = c]
    <3>1. c \in BOOLEAN /\ o.retry \in BOOLEAN /\ o.sid \in Sid
      BY DEF OpType, Op
    <3>2. op' = [op EXCEPT ![t] = k] \/ op' = [op EXCEPT ![t] = l]
      BY <1>15 DEF AuthLogout
    <3> HIDE DEF c
    <3>3. k \in Op /\ k.pc = "logoutMismatch" /\ l \in Op /\ l.pc = "loggedOut"
      BY <3>1, NothingTyped DEF Op, OpPc
    <3> HIDE DEF k, l
    <3> QED
      BY <3>2, <3>3 DEF OpType
  <2>4. BrowserType'
    BY <1>15 DEF AuthLogout, BrowserType
  <2>5. RestType'
    <3>1. \A S : Revoked(S) \in [Session -> {"none", "active", "revoked"}]
      BY DEF Revoked, RestType
    <3>2. status' = status \/ \E S : status' = Revoked(S)
      BY <1>15 DEF AuthLogout
    <3> QED
      BY <1>15, <3>1, <3>2 DEF AuthLogout, RestType
  <2> QED
    BY <2>1, <2>2, <2>3, <2>4, <2>5
<1>16. ASSUME NEW t \in Tab, LogoutMismatch(t) PROVE Typed'
  <2>1. TabType'
    BY <1>16 DEF LogoutMismatch, TabType
  <2>2. RefreshType'
    <3>1. UNCHANGED refresh \/ refresh' = refreshAuthentication(t)
      BY <1>16 DEF LogoutMismatch
    <3> QED
      BY <3>1, BeginTyped DEF RefreshType
  <2>3. OpType'
    <3> DEFINE k == [op[t] EXCEPT !.pc = "logoutWait"]
    <3>1. k \in Op /\ k.pc = "logoutWait"
      BY DEF OpType, Op, OpPc
    <3>2. op' = [op EXCEPT ![t] = k] \/ op' = [op EXCEPT ![t] = NoOp]
      BY <1>16 DEF LogoutMismatch
    <3> HIDE DEF k
    <3> QED
      BY <3>1, <3>2, NothingTyped DEF OpType
  <2>4. BrowserType'
    BY <1>16 DEF LogoutMismatch, BrowserType
  <2>5. RestType'
    BY <1>16 DEF LogoutMismatch, RestType, serverVars
  <2> QED
    BY <2>1, <2>2, <2>3, <2>4, <2>5
<1>17. ASSUME NEW t \in Tab, handleSignOut(t) PROVE Typed'
  <2>1. TabType'
    BY <1>17, ClearTyped DEF handleSignOut, BrowserType
  <2>2. RefreshType'
    BY <1>17, SupersededTyped DEF handleSignOut, RefreshType
  <2>3. OpType'
    BY <1>17, NothingTyped DEF handleSignOut, OpType
  <2>4. BrowserType'
    BY <1>17, ClearTyped, NothingTyped DEF handleSignOut, BrowserType
  <2>5. RestType'
    <3>1. Ended({op[t].sid}) \subseteq Session
      BY DEF Ended, OpType, Op, Sid
    <3> QED
      BY <1>17, <3>1 DEF handleSignOut, RestType, serverVars
  <2> QED
    BY <2>1, <2>2, <2>3, <2>4, <2>5
<1>18. ASSUME NEW t \in Tab, ReplayAccepted(t) PROVE Typed'
  <2>1. TabType'
    BY <1>18 DEF ReplayAccepted, TabType
  <2>2. RefreshType'
    BY <1>18 DEF ReplayAccepted, RefreshType
  <2>3. OpType'
    BY <1>18, NothingTyped DEF ReplayAccepted, OpType
  <2>4. BrowserType'
    BY <1>18 DEF ReplayAccepted, BrowserType
  <2>5. RestType'
    BY <1>18 DEF ReplayAccepted, RestType, serverVars
  <2> QED
    BY <2>1, <2>2, <2>3, <2>4, <2>5
<1>19. ASSUME NEW t \in Tab, ReplayRejected(t) PROVE Typed'
  <2>1. TabType'
    BY <1>19 DEF ReplayRejected, TabType
  <2>2. RefreshType'
    BY <1>19 DEF ReplayRejected, RefreshType
  <2>3. OpType'
    <3> DEFINE k == [NoOp EXCEPT !.pc = "replayRejected"]
    <3>1. k \in Op /\ k.pc = "replayRejected"
      BY FreshOp DEF OpPc
    <3>2. op' = [op EXCEPT ![t] = k]
      BY <1>19 DEF ReplayRejected
    <3> HIDE DEF k
    <3> QED
      BY <3>1, <3>2 DEF OpType
  <2>4. BrowserType'
    BY <1>19 DEF ReplayRejected, BrowserType
  <2>5. RestType'
    BY <1>19 DEF ReplayRejected, RestType, serverVars
  <2> QED
    BY <2>1, <2>2, <2>3, <2>4, <2>5
<1>20. ASSUME NEW t \in Tab, ReplayReceives401(t) PROVE Typed'
  <2>1. TabType'
    BY <1>20, ClearTyped DEF ReplayReceives401, BrowserType
  <2>2. RefreshType'
    BY <1>20, SupersededTyped DEF ReplayReceives401, RefreshType
  <2>3. OpType'
    <3> DEFINE k == [NoOp EXCEPT !.pc = "redirect"]
    <3>1. k \in Op /\ k.pc = "redirect"
      BY FreshOp DEF OpPc
    <3>2. op' = [op EXCEPT ![t] = k]
      BY <1>20 DEF ReplayReceives401
    <3> HIDE DEF k
    <3> QED
      BY <3>1, <3>2 DEF OpType
  <2>4. BrowserType'
    BY <1>20, ClearTyped DEF ReplayReceives401, BrowserType
  <2>5. RestType'
    BY <1>20 DEF ReplayReceives401, RestType, serverVars
  <2> QED
    BY <2>1, <2>2, <2>3, <2>4, <2>5
<1>21. ASSUME NEW t \in Tab, applyAuthRotation(t) PROVE Typed'
  <2>1. TabType'
    <3> DEFINE k == [sid |-> op[t].sid, token |-> op[t].access, boot |-> "complete"]
    <3>1. k \in Store
      BY DEF OpType, Op, Store
    <3>2. tab' = [tab EXCEPT ![t] = k] \/ UNCHANGED tab
      BY <1>21 DEF applyAuthRotation, setBundle
    <3> HIDE DEF k
    <3> QED
      BY <3>1, <3>2 DEF TabType
  <2>2. RefreshType'
    <3>1. refresh' = Superseded(t) \/ UNCHANGED refresh
      BY <1>21 DEF applyAuthRotation
    <3> QED
      BY <3>1, SupersededTyped DEF RefreshType
  <2>3. OpType'
    BY <1>21, NothingTyped DEF applyAuthRotation, OpType
  <2>4. BrowserType'
    BY <1>21 DEF applyAuthRotation, BrowserType
  <2>5. RestType'
    BY <1>21 DEF applyAuthRotation, RestType, serverVars
  <2> QED
    BY <2>1, <2>2, <2>3, <2>4, <2>5
<1>22. ASSUME NEW t \in Tab, redirectToSignIn(t) PROVE Typed'
  <2>1. CASE Reloaded(t) /\ inbox' = [inbox EXCEPT ![t] = <<>>]
    BY <1>22, <2>1, ReloadedTyped DEF redirectToSignIn, BrowserType, RestType
  <2>2. CASE /\ op' = [op EXCEPT ![t] = NoOp]
             /\ UNCHANGED <<tab, refresh, holder, inbox, left, late, lost>>
    BY <1>22, <2>2, NothingTyped DEF redirectToSignIn, TabType, RefreshType, OpType, BrowserType, RestType
  <2> QED
    BY <1>22, <2>1, <2>2 DEF redirectToSignIn
<1>23. ASSUME NEW t \in Tab, UserReloads(t) PROVE Typed'
  <2>1. steps' \in 0..MaxSteps
    BY <1>23, CountedTyped DEF UserReloads
  <2> QED
    BY <1>23, <2>1, ReloadedTyped DEF UserReloads, BrowserType, RestType
<1>24. ASSUME NEW t \in Tab, RefreshFails(t) PROVE Typed'
  <2>1. TabType'
    BY <1>24 DEF RefreshFails, TabType
  <2>2. RefreshType'
    <3>1. \E a \in {"error", "race", "invalid"} : refresh' = [refresh EXCEPT ![t] = Reply(t, a, NoToken)]
      BY <1>24 DEF RefreshFails
    <3> QED
      BY <3>1, ReplyTyped, NothingTyped DEF RefreshType, Answer
  <2>3. OpType'
    BY <1>24 DEF RefreshFails, OpType
  <2>4. BrowserType'
    BY <1>24 DEF RefreshFails, BrowserType
  <2>5. RestType'
    <3>1. lost' \subseteq Session
      BY <1>24 DEF RefreshFails, RefreshType, RestType
    <3>2. late' \in [Slot -> Token]
      BY <1>24, AbandonedTyped DEF RefreshFails, RestType
    <3> QED
      BY <1>24, <3>1, <3>2, CountedTyped DEF RefreshFails, RestType
  <2> QED
    BY <2>1, <2>2, <2>3, <2>4, <2>5
<1>25. ASSUME NEW t \in Tab, OpFails(t) PROVE Typed'
  <2>1. TabType'
    BY <1>25 DEF OpFails, TabType
  <2>2. RefreshType'
    BY <1>25 DEF OpFails, RefreshType
  <2>3. OpType'
    BY <1>25, NothingTyped DEF OpFails, OpType
  <2>4. BrowserType'
    BY <1>25 DEF OpFails, BrowserType
  <2>5. RestType'
    BY <1>25, CountedTyped DEF OpFails, RestType, serverVars
  <2> QED
    BY <2>1, <2>2, <2>3, <2>4, <2>5
<1>26. ASSUME NEW t \in Tab, AccessExpires(t) PROVE Typed'
  <2>1. TabType'
    <3>1. \A x \in Store : [x EXCEPT !.token = "expired"] \in Store
      BY DEF Store, Access
    <3> QED
      BY <1>26, <3>1 DEF AccessExpires, TabType
  <2>2. RefreshType'
    BY <1>26 DEF AccessExpires, RefreshType
  <2>3. OpType'
    BY <1>26 DEF AccessExpires, OpType
  <2>4. BrowserType'
    BY <1>26 DEF AccessExpires, BrowserType
  <2>5. RestType'
    BY <1>26 DEF AccessExpires, RestType, serverVars
  <2> QED
    BY <2>1, <2>2, <2>3, <2>4, <2>5
<1>27. ASSUME NEW s \in Session, RevokeUserSession(s) PROVE Typed'
  <2>1. TabType'
    BY <1>27 DEF RevokeUserSession, TabType
  <2>2. RefreshType'
    BY <1>27 DEF RevokeUserSession, RefreshType
  <2>3. OpType'
    BY <1>27 DEF RevokeUserSession, OpType
  <2>4. BrowserType'
    BY <1>27 DEF RevokeUserSession, BrowserType
  <2>5. RestType'
    BY <1>27, CountedTyped DEF RevokeUserSession, RestType
  <2> QED
    BY <2>1, <2>2, <2>3, <2>4, <2>5
<1>28. ASSUME NEW t \in Tab, ReceiveEvent(t) PROVE Typed'
  BY <1>28, ReceiveTyped
<1>29. ASSUME NEW t \in Tab, RefreshAnswered(t) PROVE Typed'
  BY <1>29, AnsweredTyped
<1>30. CASE UNCHANGED vars
  BY <1>30 DEF vars, serverVars, TabType, RefreshType, OpType, BrowserType, RestType
<1>31. ASSUME NEW i \in Slot, AbandonedStep(i) PROVE Typed'
  BY <1>31, AbandonedKeeps
<1> QED
  BY <1>1, <1>2, <1>3, <1>4, <1>5, <1>6, <1>7, <1>8, <1>9, <1>10, <1>11,
     <1>12, <1>13, <1>14, <1>15, <1>16, <1>17, <1>18, <1>19, <1>20, <1>21,
     <1>22, <1>23, <1>24, <1>25, <1>26, <1>27, <1>28, <1>29, <1>30, <1>31
     DEF Next, RefreshStep, OpStep, RefreshLoginSession

(* The initial state has the types.                                        *)
LEMMA InitTyped == Init => Typed
<1> SUFFICES ASSUME Init PROVE Typed
  OBVIOUS
<1>1. \A t \in Tab : tab[t] \in Store
  BY AnonymousTyped DEF Init
<1> QED
  BY <1>1, NothingTyped, AuthSessionAssumption
     DEF Init, Typed, TabType, RefreshType, OpType, BrowserType, RestType

(* Stores, cookie, refreshes, requests, events and sessions keep their     *)
(* types; the attempts of a refresh stay within refreshRaceDelays.         *)
THEOREM TypeCorrect == Spec => []TypeOK
<1>1. Typed => TypeOK
  BY DEF Typed, TabType, RefreshType, OpType, BrowserType, RestType, TypeOK
<1> QED
  BY <1>1, InitTyped, TypeStep, PTL DEF Spec

-----------------------------------------------------------------------------
(* A session nobody was told of: it is in no store, no request, no answer, *)
(* no event, and the cookie is not its own.                                *)
HideStore(s) == \A u \in Tab : tab[u].sid # s

HideRefresh(s) == \A u \in Tab : refresh[u].tok.sid # s

HideOp(s) == \A u \in Tab :
  op[u].tok.sid # s /\ (op[u].sid = s => op[u].pc = "signedIn")

HideLeft(s) == \A u \in Tab : s \notin left[u]

HideBrowser(s) ==
  /\ cookie.sid # s
  /\ \A u \in Tab, i \in Nat : i \in 1..Len(inbox[u]) => inbox[u][i].sid # s

Hidden(s) == HideStore(s) /\ HideRefresh(s) /\ HideOp(s) /\ HideLeft(s) /\ HideBrowser(s)

(* A session that was not issued is hidden; one that was is hidden until   *)
(* the answer to its login arrives, at the only tab that waits for it.     *)
FreshInv ==
  /\ \A s \in Session : status[s] = "none" => Hidden(s) /\ \A t \in Tab : op[t].sid # s
  /\ \A s \in Session, t \in Tab : op[t].pc = "signedIn" /\ op[t].sid = s =>
       Hidden(s) /\ \A u \in Tab \ {t} : op[u].sid # s

(* What a step does that is neither a login nor its answer.                *)
SignInsKept == \A u \in Tab :
  op'[u].pc = "signedIn" => op[u].pc = "signedIn" /\ op'[u].sid = op[u].sid

StatusKept == \A s \in Session :
  /\ status'[s] = "none" => status[s] = "none"
  /\ status[s] = "revoked" => status'[s] = "revoked"

Kept(s) ==
  /\ HideStore(s)' /\ HideRefresh(s)' /\ HideOp(s)' /\ HideLeft(s)' /\ HideBrowser(s)'
  /\ SignInsKept /\ StatusKept

(* What a settled promise makes of the request that waited for it.         *)
LEMMA SettledKeeps ==
  ASSUME RefreshType, OpType, holder \in Tab \cup {NoTab}, NEW t \in Tab, NEW outcome,
         NEW store \in Store, NEW jar \in Token, Settled(t, outcome, store, jar),
         NEW s, s # NoSession, HideRefresh(s), HideOp(s), store.sid # s, jar.sid # s
  PROVE  HideRefresh(s)' /\ HideOp(s)' /\ SignInsKept
<1>1. NoSession # s /\ NoRefresh.tok.sid = NoSession
  BY AuthSessionAssumption, NothingTyped
<1>2. /\ refresh'[t] = NoRefresh /\ \A u \in Tab \ {t} : refresh'[u] = refresh[u]
      /\ \A u \in Tab \ {t} : op'[u] = op[u]
      /\ \/ op'[t] = op[t]
         \/ /\ op'[t].pc # "signedIn"
            /\ op'[t].sid \in {NoSession, store.sid}
            /\ op'[t].tok.sid \in {NoSession, jar.sid}
  BY SettledTyped
<1> QED
  BY <1>1, <1>2 DEF HideRefresh, HideOp, SignInsKept

(* Clearing a store tells the other tabs only of the session it showed.    *)
LEMMA ClearKeeps ==
  ASSUME TabType, BrowserType, NEW t \in Tab, NEW sync \in BOOLEAN,
         clearAuthentication(t, sync),
         NEW s, s # NoSession, HideStore(s), HideBrowser(s)
  PROVE  /\ HideStore(s)'
         /\ \A u \in Tab, i \in Nat : i \in 1..Len(inbox'[u]) => inbox'[u][i].sid # s
<1>1. NoSession # s
  BY AuthSessionAssumption
<1>2. /\ tab'[t].sid = NoSession /\ \A u \in Tab \ {t} : tab'[u] = tab[u]
      /\ \A u \in Tab, i \in Nat :
           i \in 1..Len(inbox'[u]) =>
              \/ i \in 1..Len(inbox[u]) /\ inbox'[u][i] = inbox[u][i]
              \/ tab[t].sid # NoSession /\ inbox'[u][i].sid = tab[t].sid
  BY ClearTyped DEF BrowserType
<1> QED
  BY <1>1, <1>2 DEF HideStore, HideBrowser

(* A page that is loaded again knows nothing.                              *)
LEMMA ReloadedKeeps ==
  ASSUME Typed, NEW t \in Tab, Reloaded(t), inbox' = [inbox EXCEPT ![t] = <<>>],
         UNCHANGED <<cookie, status>>, NEW s, s # NoSession, Hidden(s)
  PROVE  Kept(s)
<1>1. /\ NoSession # s /\ NoRefresh.tok.sid = NoSession /\ NoOp.sid = NoSession
      /\ NoOp.tok.sid = NoSession /\ NoOp.pc = "none"
  BY AuthSessionAssumption, NothingTyped
<1>2. /\ tab'[t].sid = NoSession /\ refresh'[t] = NoRefresh /\ op'[t] = NoOp
      /\ left'[t] = {}
      /\ \A u \in Tab \ {t} : /\ tab'[u] = tab[u] /\ refresh'[u] = refresh[u]
                              /\ op'[u] = op[u] /\ left'[u] = left[u]
  BY ReloadedTyped
<1>3. \A u \in Tab, i \in Nat : i \in 1..Len(inbox'[u]) =>
         i \in 1..Len(inbox[u]) /\ inbox'[u][i] = inbox[u][i]
  BY DEF Typed, BrowserType
<1> QED
  BY <1>1, <1>2, <1>3 DEF Kept, Hidden, HideStore, HideRefresh, HideOp, HideLeft,
                          HideBrowser, SignInsKept, StatusKept

(* A session event.                                                        *)
LEMMA ReceiveKeeps ==
  ASSUME Typed, NEW t \in Tab, ReceiveEvent(t), NEW s, s # NoSession, Hidden(s)
  PROVE  Kept(s)
<1> USE DEF Typed
<1> DEFINE e == Head(inbox[t])
<1>1. NoSession # s /\ NoToken.sid = NoSession
  BY AuthSessionAssumption, NothingTyped
<1>2. inbox[t] \in Seq(Event) /\ inbox[t] # <<>>
  BY DEF ReceiveEvent, BrowserType
<1>3. /\ e = inbox[t][1] /\ 1 \in 1..Len(inbox[t])
      /\ Len(Tail(inbox[t])) = Len(inbox[t]) - 1 /\ Len(inbox[t]) \in Nat
      /\ \A i \in 1..Len(Tail(inbox[t])) : Tail(inbox[t])[i] = inbox[t][i + 1]
  BY <1>2
<1>4. e.sid # s
  BY <1>3 DEF Hidden, HideBrowser
<1>5. UNCHANGED <<cookie, status>> /\ StatusKept
  BY DEF ReceiveEvent, StatusKept
<1>6. CASE /\ Reloaded(t)
           /\ inbox' = [inbox EXCEPT ![t] = <<>>]
  BY <1>5, <1>6, ReloadedKeeps
<1>7. ASSUME inbox' = [inbox EXCEPT ![t] = Tail(inbox[t])]
      PROVE  HideBrowser(s)'
  <2>1. ASSUME NEW i \in Nat, i \in 1..Len(inbox'[t]) PROVE inbox'[t][i].sid # s
    <3>1. inbox'[t] = Tail(inbox[t])
      BY <1>7 DEF BrowserType
    <3>2. inbox'[t][i] = inbox[t][i + 1] /\ i + 1 \in Nat /\ i + 1 \in 1..Len(inbox[t])
      BY <2>1, <3>1, <1>3
    <3> QED
      BY <3>2 DEF Hidden, HideBrowser
  <2>2. \A u \in Tab \ {t} : inbox'[u] = inbox[u]
    BY <1>7 DEF BrowserType
  <2> QED
    BY <2>1, <2>2, <1>5 DEF Hidden, HideBrowser
<1>8. CASE /\ tab' = [tab EXCEPT ![t] = Anonymous("complete")]
           /\ refresh' = Superseded(t)
           /\ inbox' = [inbox EXCEPT ![t] = Tail(inbox[t])]
           /\ left' = [left EXCEPT ![t] = left[t] \cup Ended({e.sid})]
           /\ UNCHANGED <<op, holder, lost>>
  <2>1. HideStore(s)'
    BY <1>1, <1>8, AnonymousTyped DEF TabType, Hidden, HideStore
  <2>2. HideRefresh(s)'
    BY <1>8, SupersededTyped DEF RefreshType, Hidden, HideRefresh
  <2>3. HideOp(s)' /\ SignInsKept
    BY <1>8 DEF Hidden, HideOp, SignInsKept
  <2>4. s \notin Ended({e.sid})
    BY <1>4 DEF Ended
  <2>5. HideLeft(s)'
    BY <1>8, <2>4 DEF RestType, Hidden, HideLeft
  <2> QED
    BY <1>5, <1>7, <1>8, <2>1, <2>2, <2>3, <2>5 DEF Kept
<1>9. CASE /\ inbox' = [inbox EXCEPT ![t] = Tail(inbox[t])]
           /\ UNCHANGED <<tab, refresh, op, holder, left, lost>>
  BY <1>5, <1>7, <1>9 DEF Kept, Hidden, HideStore, HideRefresh, HideOp, HideLeft, SignInsKept
<1> QED
  BY <1>6, <1>8, <1>9 DEF ReceiveEvent

(* The answer of a refresh.                                                *)
LEMMA AnsweredKeeps ==
  ASSUME Typed, NEW t \in Tab, RefreshAnswered(t), NEW s, s # NoSession, Hidden(s)
  PROVE  Kept(s)
<1> USE DEF Typed
<1> DEFINE r == refresh[t]
<1>1. /\ r \in Refresh /\ r.tok \in Token /\ tab[t] \in Store /\ cookie \in Token
      /\ NoSession # s /\ NoToken.sid = NoSession /\ r.tok.sid # s /\ cookie.sid # s
      /\ tab[t].sid # s
  BY AuthSessionAssumption, NothingTyped
     DEF RefreshType, Refresh, TabType, BrowserType, Hidden, HideRefresh, HideStore, HideBrowser
<1>2. cookie' \in Token /\ cookie'.sid # s
  BY <1>1 DEF RefreshAnswered, StoredCookie
<1>3. UNCHANGED status /\ StatusKept
  BY DEF RefreshAnswered, serverVars, StatusKept
<1>4. Typed'
  BY AnsweredTyped
<1>5. UNCHANGED inbox => HideBrowser(s)'
  BY <1>2 DEF Hidden, HideBrowser
<1>6. CASE /\ Settled(t, "transient", tab[t], cookie')
           /\ UNCHANGED <<tab, inbox, left>>
  <2>1. HideRefresh(s)' /\ HideOp(s)' /\ SignInsKept
    BY <1>1, <1>2, <1>6, SettledKeeps DEF Hidden, BrowserType
  <2> QED
    BY <1>3, <1>5, <1>6, <2>1 DEF Kept, Hidden, HideStore, HideLeft
<1>7. CASE /\ r.ans = "ok"
           /\ tab' = setBundle(t, r.tok.sid, r.access)
           /\ Settled(t, "authenticated", tab'[t], cookie')
           /\ UNCHANGED <<inbox, left>>
  <2>1. HideStore(s)' /\ tab'[t] \in Store /\ tab'[t].sid # s
    BY <1>1, <1>4, <1>7 DEF setBundle, TabType, Hidden, HideStore
  <2>2. HideRefresh(s)' /\ HideOp(s)' /\ SignInsKept
    BY <1>2, <1>7, <2>1, SettledKeeps DEF Hidden, BrowserType
  <2> QED
    BY <1>3, <1>5, <1>7, <2>1, <2>2 DEF Kept, Hidden, HideLeft
<1>8. CASE /\ clearAuthentication(t, TRUE)
           /\ Settled(t, "anonymous", tab'[t], cookie')
           /\ left' = [left EXCEPT ![t] = left[t] \cup Ended({tab[t].sid})]
  <2>1. /\ HideStore(s)' /\ tab'[t] \in Store /\ tab'[t].sid # s
        /\ \A u \in Tab, i \in Nat : i \in 1..Len(inbox'[u]) => inbox'[u][i].sid # s
    BY <1>4, <1>8, ClearKeeps DEF Hidden, TabType, HideStore
  <2>2. HideRefresh(s)' /\ HideOp(s)' /\ SignInsKept
    BY <1>2, <1>8, <2>1, SettledKeeps DEF Hidden, BrowserType
  <2>3. s \notin Ended({tab[t].sid})
    BY <1>1 DEF Ended
  <2>4. HideLeft(s)'
    BY <1>8, <2>3 DEF RestType, Hidden, HideLeft
  <2> QED
    BY <1>2, <1>3, <2>1, <2>2, <2>4 DEF Kept, HideBrowser
<1>9. CASE /\ tab' = [tab EXCEPT ![t] = Anonymous("idle")]
           /\ refresh' = [refresh EXCEPT ![t] =
                            [Sent(r, NoSession) EXCEPT !.retry = FALSE, !.race = 0]]
           /\ UNCHANGED <<holder, op, inbox, left>>
  <2> DEFINE k == [Sent(r, NoSession) EXCEPT !.retry = FALSE, !.race = 0]
  <2>1. Sent(r, NoSession) \in Refresh /\ Sent(r, NoSession).tok = cookie
    BY <1>1, SentTyped DEF BrowserType, Sid
  <2>2. k.tok = cookie
    <3>1. ASSUME NEW x \in Refresh
          PROVE  [x EXCEPT !.retry = FALSE, !.race = 0].tok = x.tok
      BY DEF Refresh
    <3> QED
      BY <2>1, <3>1
  <2>3. refresh' = [refresh EXCEPT ![t] = k]
    BY <1>9
  <2> HIDE DEF k
  <2>4. HideRefresh(s)'
    BY <1>1, <2>2, <2>3 DEF RefreshType, Hidden, HideRefresh
  <2>5. HideStore(s)'
    BY <1>1, <1>9, AnonymousTyped DEF TabType, Hidden, HideStore
  <2> QED
    BY <1>3, <1>5, <1>9, <2>4, <2>5 DEF Kept, Hidden, HideOp, HideLeft, SignInsKept
<1>10. CASE /\ refresh' = [refresh EXCEPT ![t].pc = "delay", ![t].race = r.race + 1,
                                             ![t].ans = "none"]
            /\ UNCHANGED <<holder, op, tab, inbox, left>>
  <2> DEFINE k == [r EXCEPT !.pc = "delay", !.race = r.race + 1, !.ans = "none"]
  <2>1. k.tok = r.tok
    BY <1>1 DEF Refresh
  <2>2. refresh' = [refresh EXCEPT ![t] = k]
    BY <1>10 DEF RefreshType
  <2> HIDE DEF k
  <2>3. HideRefresh(s)'
    BY <1>1, <2>1, <2>2 DEF RefreshType, Hidden, HideRefresh
  <2> QED
    BY <1>3, <1>5, <1>10, <2>3 DEF Kept, Hidden, HideStore, HideOp, HideLeft, SignInsKept
<1>11. CASE /\ clearAuthentication(t, FALSE)
            /\ Settled(t, "out_of_sync", tab'[t], cookie')
            /\ UNCHANGED left
  <2>1. /\ HideStore(s)' /\ tab'[t] \in Store /\ tab'[t].sid # s
        /\ \A u \in Tab, i \in Nat : i \in 1..Len(inbox'[u]) => inbox'[u][i].sid # s
    BY <1>4, <1>11, ClearKeeps DEF Hidden, TabType, HideStore
  <2>2. HideRefresh(s)' /\ HideOp(s)' /\ SignInsKept
    BY <1>2, <1>11, <2>1, SettledKeeps DEF Hidden, BrowserType
  <2> QED
    BY <1>2, <1>3, <1>11, <2>1, <2>2 DEF Kept, Hidden, HideBrowser, HideLeft
<1>12. CASE /\ tab' = [tab EXCEPT ![t].boot = "idle"]
            /\ Settled(t, "transient", tab'[t], cookie')
            /\ UNCHANGED <<inbox, left>>
  <2>1. \A u \in Tab : tab'[u].sid = tab[u].sid
    BY <1>12 DEF TabType, Store
  <2>2. HideStore(s)' /\ tab'[t] \in Store /\ tab'[t].sid # s
    BY <1>4, <2>1 DEF TabType, Hidden, HideStore
  <2>3. Settled(t, "transient", tab'[t], cookie')
    BY <1>12
  <2>4. HideRefresh(s)' /\ HideOp(s)' /\ SignInsKept
    BY <1>2, <2>2, <2>3, SettledKeeps DEF Hidden, BrowserType
  <2> QED
    BY <1>3, <1>5, <1>12, <2>2, <2>4 DEF Kept, Hidden, HideLeft
<1> QED
  BY <1>6, <1>7, <1>8, <1>9, <1>10, <1>11, <1>12, Zenon DEF RefreshAnswered

(* A session stays hidden until the answer to its own login arrives, and   *)
(* nothing but createLoginSession begins a login.                          *)
LEMMA HiddenStep ==
  ASSUME Typed, [Next]_vars, NEW s, s # NoSession, Hidden(s),
         \A t \in Tab, x \in Session : ~createLoginSession(t, x),
         \A t \in Tab : handleLoginSuccess(t) => op[t].sid # s
  PROVE  Kept(s)
<1> USE AuthSessionAssumption DEF Typed, Hidden, Kept
<1>1. ASSUME NEW t \in Tab, bootstrapAuthentication(t) PROVE Kept(s)
  <2>1. HideStore(s)'
    <3>1. \A u \in Tab : tab'[u].sid = tab[u].sid
      BY <1>1 DEF bootstrapAuthentication, TabType, Store
    <3> QED
      BY <3>1 DEF HideStore
  <2>2. HideRefresh(s)'
    <3>1. UNCHANGED refresh \/ refresh' = refreshAuthentication(t)
      BY <1>1 DEF bootstrapAuthentication
    <3> QED
      BY <3>1, BeginTyped, NothingTyped DEF HideRefresh
  <2>3. HideOp(s)' /\ SignInsKept
    BY <1>1 DEF bootstrapAuthentication, HideOp, SignInsKept
  <2>4. HideLeft(s)'
    BY <1>1 DEF bootstrapAuthentication, HideLeft
  <2>5. HideBrowser(s)'
    BY <1>1 DEF bootstrapAuthentication, HideBrowser
  <2>6. StatusKept
    BY <1>1 DEF bootstrapAuthentication, StatusKept, serverVars
  <2> QED
    BY <2>1, <2>2, <2>3, <2>4, <2>5, <2>6
<1>2. ASSUME NEW t \in Tab, getFreshAuthHeaders(t) PROVE Kept(s)
  <2>1. HideStore(s)'
    BY <1>2 DEF getFreshAuthHeaders, HideStore
  <2>2. HideRefresh(s)'
    BY <1>2, BeginTyped, NothingTyped DEF getFreshAuthHeaders, HideRefresh
  <2>3. HideOp(s)' /\ SignInsKept
    BY <1>2 DEF getFreshAuthHeaders, HideOp, SignInsKept
  <2>4. HideLeft(s)'
    BY <1>2 DEF getFreshAuthHeaders, HideLeft
  <2>5. HideBrowser(s)'
    BY <1>2 DEF getFreshAuthHeaders, HideBrowser
  <2>6. StatusKept
    BY <1>2 DEF getFreshAuthHeaders, StatusKept, serverVars
  <2> QED
    BY <2>1, <2>2, <2>3, <2>4, <2>5, <2>6
<1>3. ASSUME NEW t \in Tab, ApiReceives401(t) PROVE Kept(s)
  <2>1. HideStore(s)'
    BY <1>3 DEF ApiReceives401, HideStore
  <2>2. HideRefresh(s)'
    BY <1>3, BeginTyped, NothingTyped DEF ApiReceives401, HideRefresh
  <2>3. HideOp(s)' /\ SignInsKept
    <3> DEFINE k == [NoOp EXCEPT !.pc = "apiWait"]
    <3>1. k.pc = "apiWait" /\ k.sid # s /\ k.tok.sid # s
      BY NothingTyped, FreshOp DEF Op, OpPc
    <3>2. op' = [op EXCEPT ![t] = k]
      BY <1>3 DEF ApiReceives401
    <3> HIDE DEF k
    <3> QED
      BY <3>1, <3>2 DEF OpType, HideOp, SignInsKept
  <2>4. HideLeft(s)'
    BY <1>3 DEF ApiReceives401, HideLeft
  <2>5. HideBrowser(s)'
    BY <1>3 DEF ApiReceives401, HideBrowser
  <2>6. StatusKept
    BY <1>3 DEF ApiReceives401, StatusKept, serverVars
  <2> QED
    BY <2>1, <2>2, <2>3, <2>4, <2>5, <2>6
<1>4. ASSUME NEW t \in Tab, Logout(t) PROVE Kept(s)
  <2>1. HideStore(s)'
    BY <1>4 DEF Logout, HideStore
  <2>2. HideRefresh(s)'
    BY <1>4 DEF Logout, HideRefresh
  <2>3. HideOp(s)' /\ SignInsKept
    <3> DEFINE k == [NoOp EXCEPT !.pc = "logout", !.sid = tab[t].sid,
                              !.access = tab[t].token, !.tok = cookie]
    <3>1. k.pc = "logout" /\ k.sid # s /\ k.tok.sid # s
      BY NothingTyped, FreshOp DEF Op, OpPc, HideStore, HideBrowser
    <3>2. op' = [op EXCEPT ![t] = k]
      BY <1>4 DEF Logout
    <3> HIDE DEF k
    <3> QED
      BY <3>1, <3>2 DEF OpType, HideOp, SignInsKept
  <2>4. HideLeft(s)'
    BY <1>4 DEF Logout, HideLeft
  <2>5. HideBrowser(s)'
    BY <1>4 DEF Logout, HideBrowser
  <2>6. StatusKept
    BY <1>4 DEF Logout, StatusKept, serverVars
  <2> QED
    BY <2>1, <2>2, <2>3, <2>4, <2>5, <2>6
<1>5. ASSUME NEW t \in Tab, AdvanceCurrentSessionSecurity(t) PROVE Kept(s)
  <2>1. HideStore(s)'
    <3>1. \A u \in Tab : tab'[u].sid = tab[u].sid
      BY <1>5 DEF AdvanceCurrentSessionSecurity, TabType, Store
    <3> QED
      BY <3>1 DEF HideStore
  <2>2. HideRefresh(s)'
    <3>1. \A u \in Tab : refresh'[u].tok = refresh[u].tok
      BY <1>5 DEF AdvanceCurrentSessionSecurity, RefreshType, Refresh
    <3> QED
      BY <3>1 DEF HideRefresh
  <2>3. HideOp(s)' /\ SignInsKept
    <3> DEFINE k == [NoOp EXCEPT !.pc = "rotated", !.sid = tab[t].sid, !.access = "good"]
           n(u) == [op[u] EXCEPT !.access = Outdated(op[u].access, op[u].sid = tab[t].sid)]
    <3>1. k.pc = "rotated" /\ k.sid # s /\ k.tok.sid # s
      BY NothingTyped DEF Op, OpPc, HideStore
    <3>2. \A u \in Tab : n(u).pc = op[u].pc /\ n(u).sid = op[u].sid /\ n(u).tok = op[u].tok
      BY DEF OpType, Op
    <3>3. op' = [u \in Tab |-> IF u = t THEN k ELSE n(u)]
      BY <1>5 DEF AdvanceCurrentSessionSecurity
    <3> HIDE DEF k, n
    <3> QED
      BY <3>1, <3>2, <3>3 DEF HideOp, SignInsKept
  <2>4. HideLeft(s)'
    BY <1>5 DEF AdvanceCurrentSessionSecurity, HideLeft
  <2>5. HideBrowser(s)'
    BY <1>5 DEF AdvanceCurrentSessionSecurity, HideBrowser
  <2>6. StatusKept
    BY <1>5 DEF AdvanceCurrentSessionSecurity, StatusKept, Revoked, RestType
  <2> QED
    BY <2>1, <2>2, <2>3, <2>4, <2>5, <2>6
<1>6. ASSUME NEW t \in Tab, performRefreshWithBrowserLock(t) PROVE Kept(s)
  <2>1. HideStore(s)'
    BY <1>6 DEF performRefreshWithBrowserLock, HideStore
  <2>2. HideRefresh(s)'
    <3>1. CASE refresh[t].current
      <4>1. Sent(refresh[t], tab[t].sid).tok = cookie
        BY SentTyped DEF RefreshType, BrowserType, TabType, Store
      <4> QED
        BY <1>6, <3>1, <4>1 DEF performRefreshWithBrowserLock, RefreshType, HideRefresh, HideBrowser
    <3>2. CASE ~refresh[t].current
      <4>1. Settled(t, "transient", tab[t], cookie)
        BY <1>6, <3>2 DEF performRefreshWithBrowserLock
      <4> QED
        BY <4>1, SettledKeeps DEF TabType, BrowserType, HideStore, HideBrowser
    <3> QED
      BY <3>1, <3>2
  <2>3. HideOp(s)' /\ SignInsKept
    <3>1. CASE refresh[t].current
      BY <1>6, <3>1 DEF performRefreshWithBrowserLock, HideOp, SignInsKept
    <3>2. CASE ~refresh[t].current
      <4>1. Settled(t, "transient", tab[t], cookie)
        BY <1>6, <3>2 DEF performRefreshWithBrowserLock
      <4> QED
        BY <4>1, SettledKeeps DEF TabType, BrowserType, HideStore, HideBrowser
    <3> QED
      BY <3>1, <3>2
  <2>4. HideLeft(s)'
    BY <1>6 DEF performRefreshWithBrowserLock, HideLeft
  <2>5. HideBrowser(s)'
    BY <1>6 DEF performRefreshWithBrowserLock, HideBrowser
  <2>6. StatusKept
    BY <1>6 DEF performRefreshWithBrowserLock, StatusKept, serverVars
  <2> QED
    BY <2>1, <2>2, <2>3, <2>4, <2>5, <2>6
<1>7. ASSUME NEW t \in Tab, RaceRetry(t) PROVE Kept(s)
  <2>1. HideStore(s)'
    BY <1>7 DEF RaceRetry, HideStore
  <2>2. HideRefresh(s)'
    <3>1. CASE refresh[t].current
      <4>1. Sent(refresh[t], tab[t].sid).tok = cookie
        BY SentTyped DEF RefreshType, BrowserType, TabType, Store
      <4> QED
        BY <1>7, <3>1, <4>1 DEF RaceRetry, RefreshType, HideRefresh, HideBrowser
    <3>2. CASE ~refresh[t].current
      <4>1. Settled(t, "transient", tab[t], cookie)
        BY <1>7, <3>2 DEF RaceRetry
      <4> QED
        BY <4>1, SettledKeeps DEF TabType, BrowserType, HideStore, HideBrowser
    <3> QED
      BY <3>1, <3>2
  <2>3. HideOp(s)' /\ SignInsKept
    <3>1. CASE refresh[t].current
      BY <1>7, <3>1 DEF RaceRetry, HideOp, SignInsKept
    <3>2. CASE ~refresh[t].current
      <4>1. Settled(t, "transient", tab[t], cookie)
        BY <1>7, <3>2 DEF RaceRetry
      <4> QED
        BY <4>1, SettledKeeps DEF TabType, BrowserType, HideStore, HideBrowser
    <3> QED
      BY <3>1, <3>2
  <2>4. HideLeft(s)'
    BY <1>7 DEF RaceRetry, HideLeft
  <2>5. HideBrowser(s)'
    BY <1>7 DEF RaceRetry, HideBrowser
  <2>6. StatusKept
    BY <1>7 DEF RaceRetry, StatusKept, serverVars
  <2> QED
    BY <2>1, <2>2, <2>3, <2>4, <2>5, <2>6
<1>8. ASSUME NEW t \in Tab, RefreshDenied(t) PROVE Kept(s)
  <2>1. HideStore(s)'
    BY <1>8 DEF RefreshDenied, HideStore
  <2>2. HideRefresh(s)'
    <3>1. \E a \in Answer : refresh' = [refresh EXCEPT ![t] = Reply(t, a, NoToken)]
      BY <1>8 DEF RefreshDenied, Answer
    <3> QED
      BY <3>1, ReplyTyped, NothingTyped DEF RefreshType, HideRefresh
  <2>3. HideOp(s)' /\ SignInsKept
    BY <1>8 DEF RefreshDenied, HideOp, SignInsKept
  <2>4. HideLeft(s)'
    BY <1>8 DEF RefreshDenied, HideLeft
  <2>5. HideBrowser(s)'
    BY <1>8 DEF RefreshDenied, HideBrowser
  <2>6. StatusKept
    BY <1>8 DEF RefreshDenied, StatusKept, serverVars
  <2> QED
    BY <2>1, <2>2, <2>3, <2>4, <2>5, <2>6
<1>9. ASSUME NEW t \in Tab, RefreshMismatch(t) PROVE Kept(s)
  <2>1. HideStore(s)'
    BY <1>9 DEF RefreshMismatch, HideStore
  <2>2. HideRefresh(s)'
    <3>1. \E a \in Answer : refresh' = [refresh EXCEPT ![t] = Reply(t, a, NoToken)]
      BY <1>9 DEF RefreshMismatch, Answer
    <3> QED
      BY <3>1, ReplyTyped, NothingTyped DEF RefreshType, HideRefresh
  <2>3. HideOp(s)' /\ SignInsKept
    BY <1>9 DEF RefreshMismatch, HideOp, SignInsKept
  <2>4. HideLeft(s)'
    BY <1>9 DEF RefreshMismatch, HideLeft
  <2>5. HideBrowser(s)'
    BY <1>9 DEF RefreshMismatch, HideBrowser
  <2>6. StatusKept
    BY <1>9 DEF RefreshMismatch, StatusKept, serverVars
  <2> QED
    BY <2>1, <2>2, <2>3, <2>4, <2>5, <2>6
<1>10. ASSUME NEW t \in Tab, RefreshReused(t) PROVE Kept(s)
  <2>1. HideStore(s)'
    BY <1>10 DEF RefreshReused, HideStore
  <2>2. HideRefresh(s)'
    <3>1. \E a \in Answer : refresh' = [refresh EXCEPT ![t] = Reply(t, a, NoToken)]
      BY <1>10 DEF RefreshReused, Answer
    <3> QED
      BY <3>1, ReplyTyped, NothingTyped DEF RefreshType, HideRefresh
  <2>3. HideOp(s)' /\ SignInsKept
    BY <1>10 DEF RefreshReused, HideOp, SignInsKept
  <2>4. HideLeft(s)'
    BY <1>10 DEF RefreshReused, HideLeft
  <2>5. HideBrowser(s)'
    BY <1>10 DEF RefreshReused, HideBrowser
  <2>6. StatusKept
    BY <1>10 DEF RefreshReused, StatusKept, RestType
  <2> QED
    BY <2>1, <2>2, <2>3, <2>4, <2>5, <2>6
<1>11. ASSUME NEW t \in Tab, RefreshFails(t) PROVE Kept(s)
  <2>1. HideStore(s)'
    BY <1>11 DEF RefreshFails, HideStore
  <2>2. HideRefresh(s)'
    <3>1. \E a \in Answer : refresh' = [refresh EXCEPT ![t] = Reply(t, a, NoToken)]
      BY <1>11 DEF RefreshFails, Answer
    <3> QED
      BY <3>1, ReplyTyped, NothingTyped DEF RefreshType, HideRefresh
  <2>3. HideOp(s)' /\ SignInsKept
    BY <1>11 DEF RefreshFails, HideOp, SignInsKept
  <2>4. HideLeft(s)'
    BY <1>11 DEF RefreshFails, HideLeft
  <2>5. HideBrowser(s)'
    BY <1>11 DEF RefreshFails, HideBrowser
  <2>6. StatusKept
    BY <1>11 DEF RefreshFails, StatusKept, serverVars
  <2> QED
    BY <2>1, <2>2, <2>3, <2>4, <2>5, <2>6
<1>12. ASSUME NEW t \in Tab, RotateUserSessionRefresh(t) PROVE Kept(s)
  <2>1. HideStore(s)'
    BY <1>12 DEF RotateUserSessionRefresh, HideStore
  <2>2. HideRefresh(s)'
    <3> DEFINE k == Reply(t, "ok", refresh[t].tok)
           n(u) == [refresh[u] EXCEPT !.tok = Older(refresh[u].tok, refresh[t].tok.sid)]
    <3>1. \A u \in Tab : refresh[u] \in Refresh /\ refresh[u].tok \in Token
      BY DEF RefreshType, Refresh
    <3>2. \A u \in Tab : Older(refresh[u].tok, refresh[t].tok.sid).sid = refresh[u].tok.sid
      BY <3>1, OlderTyped
    <3>3. \A u \in Tab : n(u).tok.sid = refresh[u].tok.sid
      BY <3>1, <3>2 DEF Refresh
    <3>4. k.tok = refresh[t].tok
      BY <3>1, ReplyTyped DEF RefreshType, Answer
    <3>5. refresh' = [u \in Tab |-> IF u = t THEN k ELSE n(u)]
      BY <1>12 DEF RotateUserSessionRefresh
    <3> HIDE DEF k, n
    <3> QED
      BY <3>3, <3>4, <3>5 DEF HideRefresh
  <2>3. HideOp(s)' /\ SignInsKept
    BY <1>12, AgedTyped DEF RotateUserSessionRefresh, BrowserType, HideOp, SignInsKept
  <2>4. HideLeft(s)'
    BY <1>12 DEF RotateUserSessionRefresh, HideLeft
  <2>5. HideBrowser(s)'
    BY <1>12, AgedTyped DEF RotateUserSessionRefresh, BrowserType, HideBrowser
  <2>6. StatusKept
    BY <1>12 DEF RotateUserSessionRefresh, StatusKept, serverVars
  <2> QED
    BY <2>1, <2>2, <2>3, <2>4, <2>5, <2>6
<1>13. ASSUME NEW t \in Tab, RefreshReplayed(t) PROVE Kept(s)
  <2>1. HideStore(s)'
    BY <1>13 DEF RefreshReplayed, HideStore
  <2>2. HideRefresh(s)'
    <3> DEFINE k == [refresh[t].tok EXCEPT !.age = 0]
    <3>1. k \in Token /\ k.sid = refresh[t].tok.sid
      BY DEF RefreshType, Refresh, Token
    <3>2. refresh' = [refresh EXCEPT ![t] = Reply(t, "ok", k)]
      BY <1>13 DEF RefreshReplayed
    <3> HIDE DEF k
    <3> QED
      BY <3>1, <3>2, ReplyTyped DEF RefreshType, Answer, HideRefresh
  <2>3. HideOp(s)' /\ SignInsKept
    BY <1>13 DEF RefreshReplayed, HideOp, SignInsKept
  <2>4. HideLeft(s)'
    BY <1>13 DEF RefreshReplayed, HideLeft
  <2>5. HideBrowser(s)'
    BY <1>13 DEF RefreshReplayed, HideBrowser
  <2>6. StatusKept
    BY <1>13 DEF RefreshReplayed, StatusKept, serverVars
  <2> QED
    BY <2>1, <2>2, <2>3, <2>4, <2>5, <2>6
<1>14. ASSUME NEW t \in Tab, op[t].sid # s, handleLoginSuccess(t) PROVE Kept(s)
  <2>1. HideStore(s)'
    BY <1>14 DEF handleLoginSuccess, setBundle, TabType, HideStore
  <2>2. HideRefresh(s)'
    BY <1>14, SupersededTyped DEF handleLoginSuccess, RefreshType, HideRefresh
  <2>3. HideOp(s)' /\ SignInsKept
    BY <1>14, NothingTyped DEF handleLoginSuccess, OpType, HideOp, SignInsKept
  <2>4. HideLeft(s)'
    BY <1>14 DEF handleLoginSuccess, HideLeft
  <2>5. HideBrowser(s)'
    <3>1. op[t].sid \in Session
      BY <1>14 DEF handleLoginSuccess, OpType
    <3>2. inbox' = publishAuthSessionEvent(t, "authenticated", op[t].sid)
      BY <1>14 DEF handleLoginSuccess
    <3>3. \A u \in Tab, i \in Nat :
             i \in 1..Len(inbox'[u]) =>
                \/ i \in 1..Len(inbox[u]) /\ inbox'[u][i] = inbox[u][i]
                \/ inbox'[u][i].sid = op[t].sid
      <4>1. "authenticated" \in {"authenticated", "signed_out"}
        OBVIOUS
      <4> DEFINE b == publishAuthSessionEvent(t, "authenticated", op[t].sid)
      <4>2. \A u \in Tab, i \in Nat :
             i \in 1..Len(b[u]) =>
                \/ i \in 1..Len(inbox[u]) /\ b[u][i] = inbox[u][i]
                \/ b[u][i].sid = op[t].sid
        BY <4>1, <3>1, PublishTyped DEF BrowserType
      <4>3. inbox' = b
        BY <3>2
      <4> HIDE DEF b
      <4> QED
        BY <4>2, <4>3
    <3>4. cookie'.sid # s
      BY <1>14 DEF handleLoginSuccess
    <3> QED
      BY <1>14, <3>3, <3>4 DEF HideBrowser
  <2>6. StatusKept
    BY <1>14 DEF handleLoginSuccess, StatusKept, serverVars
  <2> QED
    BY <2>1, <2>2, <2>3, <2>4, <2>5, <2>6
<1>15. ASSUME NEW t \in Tab, AuthLogout(t) PROVE Kept(s)
  <2>1. HideStore(s)'
    BY <1>15 DEF AuthLogout, HideStore
  <2>2. HideRefresh(s)'
    BY <1>15 DEF AuthLogout, HideRefresh
  <2>3. HideOp(s)' /\ SignInsKept
    <3> DEFINE o == op[t]
           c == (~(o.access # "expired") \/ o.tok.sid = o.sid)
           k == [NoOp EXCEPT !.pc = "logoutMismatch", !.retry = o.retry]
           l == [NoOp EXCEPT !.pc = "loggedOut", !.sid = o.sid, !.clears = c]
    <3>1. o.sid # s
      BY <1>15 DEF AuthLogout, HideOp
    <3>2. op' = [op EXCEPT ![t] = k] \/ op' = [op EXCEPT ![t] = l]
      BY <1>15 DEF AuthLogout
    <3> HIDE DEF c
    <3>3. /\ k.pc = "logoutMismatch" /\ k.sid = NoSession /\ k.tok = NoToken
          /\ l.pc = "loggedOut" /\ l.sid = o.sid /\ l.tok = NoToken
      BY NothingTyped DEF Op
    <3> HIDE DEF k, l
    <3> QED
      BY <3>1, <3>2, <3>3, NothingTyped DEF OpType, HideOp, SignInsKept
  <2>4. HideLeft(s)'
    BY <1>15 DEF AuthLogout, HideLeft
  <2>5. HideBrowser(s)'
    BY <1>15 DEF AuthLogout, HideBrowser
  <2>6. StatusKept
    <3>1. status' = status \/ \E S : status' = Revoked(S)
      BY <1>15 DEF AuthLogout
    <3> QED
      BY <3>1 DEF StatusKept, Revoked, RestType
  <2> QED
    BY <2>1, <2>2, <2>3, <2>4, <2>5, <2>6
<1>16. ASSUME NEW t \in Tab, LogoutMismatch(t) PROVE Kept(s)
  <2>1. HideStore(s)'
    BY <1>16 DEF LogoutMismatch, HideStore
  <2>2. HideRefresh(s)'
    <3>1. UNCHANGED refresh \/ refresh' = refreshAuthentication(t)
      BY <1>16 DEF LogoutMismatch
    <3> QED
      BY <3>1, BeginTyped, NothingTyped DEF HideRefresh
  <2>3. HideOp(s)' /\ SignInsKept
    <3> DEFINE k == [op[t] EXCEPT !.pc = "logoutWait"]
    <3>1. k.pc = "logoutWait" /\ k.sid = op[t].sid /\ k.tok = op[t].tok
      BY DEF OpType, Op
    <3>2. op' = [op EXCEPT ![t] = k] \/ op' = [op EXCEPT ![t] = NoOp]
      BY <1>16 DEF LogoutMismatch
    <3>3. op[t].sid # s
      BY <1>16 DEF LogoutMismatch, HideOp
    <3> HIDE DEF k
    <3> QED
      BY <3>1, <3>2, <3>3, NothingTyped DEF OpType, HideOp, SignInsKept
  <2>4. HideLeft(s)'
    BY <1>16 DEF LogoutMismatch, HideLeft
  <2>5. HideBrowser(s)'
    BY <1>16 DEF LogoutMismatch, HideBrowser
  <2>6. StatusKept
    BY <1>16 DEF LogoutMismatch, StatusKept, serverVars
  <2> QED
    BY <2>1, <2>2, <2>3, <2>4, <2>5, <2>6
<1>17. ASSUME NEW t \in Tab, handleSignOut(t) PROVE Kept(s)
  <2>1. HideStore(s)'
    BY <1>17, ClearTyped DEF handleSignOut, BrowserType, HideStore
  <2>2. HideRefresh(s)'
    BY <1>17, SupersededTyped DEF handleSignOut, RefreshType, HideRefresh
  <2>3. HideOp(s)' /\ SignInsKept
    BY <1>17, NothingTyped DEF handleSignOut, OpType, HideOp, SignInsKept
  <2>4. HideLeft(s)'
    <3>1. s \notin Ended({op[t].sid})
      BY <1>17 DEF handleSignOut, Ended, HideOp
    <3> QED
      BY <1>17, <3>1 DEF handleSignOut, RestType, HideLeft
  <2>5. HideBrowser(s)'
    <3>1. clearAuthentication(t, TRUE) /\ cookie' \in {NoToken, cookie}
      BY <1>17 DEF handleSignOut
    <3> QED
      BY <3>1, ClearKeeps, NothingTyped DEF HideBrowser, HideStore
  <2>6. StatusKept
    BY <1>17 DEF handleSignOut, StatusKept, serverVars
  <2> QED
    BY <2>1, <2>2, <2>3, <2>4, <2>5, <2>6
<1>18. ASSUME NEW t \in Tab, ReplayAccepted(t) PROVE Kept(s)
  <2>1. HideStore(s)'
    BY <1>18 DEF ReplayAccepted, HideStore
  <2>2. HideRefresh(s)'
    BY <1>18 DEF ReplayAccepted, HideRefresh
  <2>3. HideOp(s)' /\ SignInsKept
    BY <1>18, NothingTyped DEF ReplayAccepted, OpType, HideOp, SignInsKept
  <2>4. HideLeft(s)'
    BY <1>18 DEF ReplayAccepted, HideLeft
  <2>5. HideBrowser(s)'
    BY <1>18 DEF ReplayAccepted, HideBrowser
  <2>6. StatusKept
    BY <1>18 DEF ReplayAccepted, StatusKept, serverVars
  <2> QED
    BY <2>1, <2>2, <2>3, <2>4, <2>5, <2>6
<1>19. ASSUME NEW t \in Tab, ReplayRejected(t) PROVE Kept(s)
  <2>1. HideStore(s)'
    BY <1>19 DEF ReplayRejected, HideStore
  <2>2. HideRefresh(s)'
    BY <1>19 DEF ReplayRejected, HideRefresh
  <2>3. HideOp(s)' /\ SignInsKept
    <3> DEFINE k == [NoOp EXCEPT !.pc = "replayRejected"]
    <3>1. k.pc = "replayRejected" /\ k.sid # s /\ k.tok.sid # s
      BY NothingTyped, FreshOp DEF Op, OpPc
    <3>2. op' = [op EXCEPT ![t] = k]
      BY <1>19 DEF ReplayRejected
    <3> HIDE DEF k
    <3> QED
      BY <3>1, <3>2 DEF OpType, HideOp, SignInsKept
  <2>4. HideLeft(s)'
    BY <1>19 DEF ReplayRejected, HideLeft
  <2>5. HideBrowser(s)'
    BY <1>19 DEF ReplayRejected, HideBrowser
  <2>6. StatusKept
    BY <1>19 DEF ReplayRejected, StatusKept, serverVars
  <2> QED
    BY <2>1, <2>2, <2>3, <2>4, <2>5, <2>6
<1>20. ASSUME NEW t \in Tab, ReplayReceives401(t) PROVE Kept(s)
  <2>1. HideStore(s)'
    BY <1>20, ClearTyped DEF ReplayReceives401, BrowserType, HideStore
  <2>2. HideRefresh(s)'
    BY <1>20, SupersededTyped DEF ReplayReceives401, RefreshType, HideRefresh
  <2>3. HideOp(s)' /\ SignInsKept
    <3> DEFINE k == [NoOp EXCEPT !.pc = "redirect"]
    <3>1. k.pc = "redirect" /\ k.sid # s /\ k.tok.sid # s
      BY NothingTyped, FreshOp DEF Op, OpPc
    <3>2. op' = [op EXCEPT ![t] = k]
      BY <1>20 DEF ReplayReceives401
    <3> HIDE DEF k
    <3> QED
      BY <3>1, <3>2 DEF OpType, HideOp, SignInsKept
  <2>4. HideLeft(s)'
    BY <1>20 DEF ReplayReceives401, HideLeft
  <2>5. HideBrowser(s)'
    <3>1. clearAuthentication(t, FALSE) /\ cookie' = cookie
      BY <1>20 DEF ReplayReceives401
    <3> QED
      BY <3>1, ClearKeeps DEF HideBrowser, HideStore
  <2>6. StatusKept
    BY <1>20 DEF ReplayReceives401, StatusKept, serverVars
  <2> QED
    BY <2>1, <2>2, <2>3, <2>4, <2>5, <2>6
<1>21. ASSUME NEW t \in Tab, applyAuthRotation(t) PROVE Kept(s)
  <2>1. HideStore(s)'
    <3>1. op[t].sid # s
      BY <1>21 DEF applyAuthRotation, HideOp
    <3> QED
      BY <1>21, <3>1 DEF applyAuthRotation, setBundle, TabType, HideStore
  <2>2. HideRefresh(s)'
    <3>1. refresh' = Superseded(t) \/ UNCHANGED refresh
      BY <1>21 DEF applyAuthRotation
    <3> QED
      BY <3>1, SupersededTyped DEF RefreshType, HideRefresh
  <2>3. HideOp(s)' /\ SignInsKept
    BY <1>21, NothingTyped DEF applyAuthRotation, OpType, HideOp, SignInsKept
  <2>4. HideLeft(s)'
    BY <1>21 DEF applyAuthRotation, HideLeft
  <2>5. HideBrowser(s)'
    BY <1>21 DEF applyAuthRotation, HideBrowser
  <2>6. StatusKept
    BY <1>21 DEF applyAuthRotation, StatusKept, serverVars
  <2> QED
    BY <2>1, <2>2, <2>3, <2>4, <2>5, <2>6
<1>22. ASSUME NEW t \in Tab, redirectToSignIn(t) PROVE Kept(s)
  <2>1. CASE Reloaded(t) /\ inbox' = [inbox EXCEPT ![t] = <<>>]
    BY <1>22, <2>1, ReloadedKeeps DEF redirectToSignIn
  <2>2. CASE /\ op' = [op EXCEPT ![t] = NoOp]
             /\ UNCHANGED <<tab, refresh, holder, inbox, left, late, lost>>
    BY <1>22, <2>2, NothingTyped
       DEF redirectToSignIn, OpType, HideStore, HideRefresh, HideOp, SignInsKept,
           HideLeft, HideBrowser, StatusKept
  <2> QED
    BY <1>22, <2>1, <2>2 DEF redirectToSignIn
<1>23. ASSUME NEW t \in Tab, UserReloads(t) PROVE Kept(s)
  BY <1>23, ReloadedKeeps DEF UserReloads
<1>24. ASSUME NEW t \in Tab, OpFails(t) PROVE Kept(s)
  <2>1. HideStore(s)'
    BY <1>24 DEF OpFails, HideStore
  <2>2. HideRefresh(s)'
    BY <1>24 DEF OpFails, HideRefresh
  <2>3. HideOp(s)' /\ SignInsKept
    BY <1>24, NothingTyped DEF OpFails, OpType, HideOp, SignInsKept
  <2>4. HideLeft(s)'
    BY <1>24 DEF OpFails, HideLeft
  <2>5. HideBrowser(s)'
    BY <1>24 DEF OpFails, HideBrowser
  <2>6. StatusKept
    BY <1>24 DEF OpFails, StatusKept, serverVars
  <2> QED
    BY <2>1, <2>2, <2>3, <2>4, <2>5, <2>6
<1>25. ASSUME NEW t \in Tab, AccessExpires(t) PROVE Kept(s)
  <2>1. HideStore(s)'
    <3>1. \A u \in Tab : tab'[u].sid = tab[u].sid
      BY <1>25 DEF AccessExpires, TabType, Store
    <3> QED
      BY <3>1 DEF HideStore
  <2>2. HideRefresh(s)'
    BY <1>25 DEF AccessExpires, HideRefresh
  <2>3. HideOp(s)' /\ SignInsKept
    BY <1>25 DEF AccessExpires, HideOp, SignInsKept
  <2>4. HideLeft(s)'
    BY <1>25 DEF AccessExpires, HideLeft
  <2>5. HideBrowser(s)'
    BY <1>25 DEF AccessExpires, HideBrowser
  <2>6. StatusKept
    BY <1>25 DEF AccessExpires, StatusKept, serverVars
  <2> QED
    BY <2>1, <2>2, <2>3, <2>4, <2>5, <2>6
<1>26. ASSUME NEW x \in Session, RevokeUserSession(x) PROVE Kept(s)
  <2>1. HideStore(s)'
    BY <1>26 DEF RevokeUserSession, HideStore
  <2>2. HideRefresh(s)'
    BY <1>26 DEF RevokeUserSession, HideRefresh
  <2>3. HideOp(s)' /\ SignInsKept
    BY <1>26 DEF RevokeUserSession, HideOp, SignInsKept
  <2>4. HideLeft(s)'
    BY <1>26 DEF RevokeUserSession, HideLeft
  <2>5. HideBrowser(s)'
    BY <1>26 DEF RevokeUserSession, HideBrowser
  <2>6. StatusKept
    BY <1>26 DEF RevokeUserSession, RestType, StatusKept
  <2> QED
    BY <2>1, <2>2, <2>3, <2>4, <2>5, <2>6
<1>27. ASSUME NEW t \in Tab, ReceiveEvent(t) PROVE Kept(s)
  BY <1>27, ReceiveKeeps
<1>28. ASSUME NEW t \in Tab, RefreshAnswered(t) PROVE Kept(s)
  BY <1>28, AnsweredKeeps
<1>29. CASE UNCHANGED vars
  BY <1>29 DEF vars, serverVars, HideStore, HideRefresh, HideOp, HideLeft, HideBrowser,
     SignInsKept, StatusKept
<1>30. ASSUME NEW i \in Slot, AbandonedStep(i) PROVE Kept(s)
  BY <1>30, AbandonedKeeps
     DEF HideStore, HideRefresh, HideOp, HideLeft, HideBrowser, SignInsKept, StatusKept
<1> QED
  BY <1>1, <1>2, <1>3, <1>4, <1>5, <1>6, <1>7, <1>8, <1>9, <1>10, <1>11,
     <1>12, <1>13, <1>14, <1>15, <1>16, <1>17, <1>18, <1>19, <1>20, <1>21,
     <1>22, <1>23, <1>24, <1>25, <1>26, <1>27, <1>28, <1>29, <1>30
     DEF Next, RefreshStep, OpStep, RefreshLoginSession

(* Whatever the sessions are, a step that is no login begins no login and  *)
(* neither withdraws nor revives a session: take something that is no sid. *)
LEMMA QuietStep ==
  ASSUME Typed, [Next]_vars, \A t \in Tab, x \in Session : ~createLoginSession(t, x)
  PROVE  SignInsKept /\ StatusKept
<1>1. PICK s : s \notin Sid
  BY NoSetContainsEverything
<1>2. s # NoSession /\ s \notin Session
  BY <1>1 DEF Sid
<1>3. \A t \in Tab : /\ tab[t].sid \in Sid /\ refresh[t].tok.sid \in Sid
                     /\ op[t].sid \in Sid /\ op[t].tok.sid \in Sid
  BY DEF Typed, TabType, RefreshType, OpType, Store, Refresh, Op, Token
<1>4. HideStore(s) /\ HideRefresh(s) /\ HideOp(s)
  BY <1>1, <1>3 DEF HideStore, HideRefresh, HideOp
<1>5. HideLeft(s)
  BY <1>2 DEF HideLeft, Typed, RestType
<1>6. HideBrowser(s)
  <2>1. cookie.sid # s
    BY <1>1 DEF Typed, BrowserType, Token
  <2>2. ASSUME NEW u \in Tab, NEW i \in Nat, i \in 1..Len(inbox[u])
        PROVE  inbox[u][i].sid # s
    <3>1. inbox[u] \in Seq(Event)
      BY DEF Typed, BrowserType
    <3>2. inbox[u][i] \in Event
      BY <2>2, <3>1
    <3> QED
      BY <3>2, <1>2 DEF Event
  <2> QED
    BY <2>1, <2>2 DEF HideBrowser
<1>7. \A t \in Tab : op[t].sid # s
  BY <1>1, <1>3
<1>8. Kept(s)
  BY <1>2, <1>4, <1>5, <1>6, <1>7, HiddenStep DEF Hidden
<1> QED
  BY <1>8 DEF Kept

(* A login leaves every other session as hidden as it was.                 *)
LEMMA LoginStep ==
  ASSUME Typed, FreshInv, NEW t \in Tab, NEW x \in Session, createLoginSession(t, x)
  PROVE  FreshInv'
<1> DEFINE k == [NoOp EXCEPT !.pc = "signedIn", !.sid = x, !.access = "good"]
<1>1. k.pc = "signedIn" /\ k.sid = x /\ k.tok.sid = NoSession
  BY NothingTyped DEF Op
<1>2. op' = [op EXCEPT ![t] = k]
  BY DEF createLoginSession
<1> HIDE DEF k
<1>3. op'[t] = k /\ \A u \in Tab \ {t} : op'[u] = op[u]
  BY <1>2 DEF Typed, OpType
<1>4. status[x] = "none" /\ op[t].pc = "none"
  BY DEF createLoginSession
<1>5. ASSUME NEW s \in Session, Hidden(s) PROVE Hidden(s)'
  <2>1. HideOp(s)'
    BY <1>1, <1>3, <1>5, AuthSessionAssumption DEF Hidden, HideOp
  <2>2. UNCHANGED <<cookie, tab, refresh, inbox, left>>
    BY DEF createLoginSession
  <2> QED
    BY <1>5, <2>1, <2>2 DEF Hidden, HideStore, HideRefresh, HideLeft, HideBrowser
<1>6. ASSUME NEW s \in Session, status'[s] = "none"
      PROVE  s # x /\ status[s] = "none"
  BY <1>6 DEF createLoginSession, Typed, RestType
<1>7. \A s \in Session : status'[s] = "none" => Hidden(s)' /\ \A u \in Tab : op'[u].sid # s
  BY <1>1, <1>3, <1>5, <1>6 DEF FreshInv
<1>8. ASSUME NEW s \in Session, NEW u \in Tab, op'[u].pc = "signedIn", op'[u].sid = s
      PROVE  Hidden(s)' /\ \A v \in Tab \ {u} : op'[v].sid # s
  <2>1. CASE u = t
    <3>1. s = x
      BY <2>1, <1>1, <1>3, <1>8
    <3>2. Hidden(s) /\ \A v \in Tab : op[v].sid # s
      BY <3>1, <1>4 DEF FreshInv
    <3> QED
      BY <2>1, <3>2, <1>3, <1>5
  <2>2. CASE u # t
    <3>1. op[u].pc = "signedIn" /\ op[u].sid = s
      BY <2>2, <1>3, <1>8
    <3>2. Hidden(s) /\ \A v \in Tab \ {u} : op[v].sid # s
      BY <3>1 DEF FreshInv
    <3>3. s # x
      BY <3>1, <1>4 DEF FreshInv
    <3> QED
      BY <3>2, <3>3, <1>1, <1>3, <1>5
  <2> QED
    BY <2>1, <2>2
<1> QED
  BY <1>7, <1>8 DEF FreshInv

(* Sessions are told of by the answer to their login, and only by it.      *)
LEMMA FreshStep ==
  ASSUME Typed, FreshInv, [Next]_vars
  PROVE  FreshInv'
<1>1. CASE \E t \in Tab, x \in Session : createLoginSession(t, x)
  BY <1>1, LoginStep
<1>2. CASE ~\E t \in Tab, x \in Session : createLoginSession(t, x)
  <2>1. SignInsKept /\ StatusKept
    BY <1>2, QuietStep
  <2>2. ASSUME NEW s \in Session, status'[s] = "none"
        PROVE  Hidden(s)' /\ \A t \in Tab : op'[t].sid # s
    <3>1. status[s] = "none"
      BY <2>1, <2>2 DEF StatusKept
    <3>2. Hidden(s) /\ \A t \in Tab : op[t].sid # s
      BY <3>1 DEF FreshInv
    <3>3. Kept(s)
      BY <1>2, <3>2, HiddenStep, AuthSessionAssumption
    <3>4. Hidden(s)'
      BY <3>3 DEF Kept, Hidden
    <3>5. ASSUME NEW t \in Tab, op'[t].sid = s PROVE FALSE
      BY <2>1, <3>2, <3>3, <3>5 DEF Kept, HideOp, SignInsKept
    <3> QED
      BY <3>4, <3>5
  <2>3. ASSUME NEW s \in Session, NEW t \in Tab, op'[t].pc = "signedIn", op'[t].sid = s
        PROVE  Hidden(s)' /\ \A u \in Tab \ {t} : op'[u].sid # s
    <3>1. op[t].pc = "signedIn" /\ op[t].sid = s
      BY <2>1, <2>3 DEF SignInsKept
    <3>2. Hidden(s) /\ \A u \in Tab \ {t} : op[u].sid # s
      BY <3>1 DEF FreshInv
    <3>3. ASSUME NEW u \in Tab, handleLoginSuccess(u) PROVE op[u].sid # s
      <4>1. CASE u = t
        <5>1. op'[t] = NoOp
          BY <3>3, <4>1 DEF handleLoginSuccess, Typed, OpType
        <5> QED
          BY <5>1, <2>3, NothingTyped
      <4> QED
        BY <4>1, <3>2
    <3>4. Kept(s)
      BY <1>2, <3>2, <3>3, HiddenStep, AuthSessionAssumption
    <3>5. Hidden(s)'
      BY <3>4 DEF Kept, Hidden
    <3>6. ASSUME NEW u \in Tab \ {t}, op'[u].sid = s PROVE FALSE
      BY <2>1, <3>2, <3>4, <3>6 DEF Kept, HideOp, SignInsKept
    <3> QED
      BY <3>5, <3>6
  <2> QED
    BY <2>2, <2>3 DEF FreshInv
<1> QED
  BY <1>1, <1>2

-----------------------------------------------------------------------------
(* A tab and the sessions it has left.  Those sessions are over, and no    *)
(* answer that could still be applied brings one of them back.             *)
LeftOK(u) ==
  /\ \A s \in left[u] : status[s] = "revoked"
  /\ tab[u].sid \notin left[u]
  /\ refresh[u].ans = "ok" /\ refresh[u].current => refresh[u].tok.sid \notin left[u]

LeftInv == \A u \in Tab : LeftOK(u)

(* What a step can do to a tab: no new answer for it,                      *)
Answers(u) ==
  refresh'[u].ans = "ok" /\ refresh'[u].current =>
    /\ refresh[u].ans = "ok" /\ refresh[u].current
    /\ refresh'[u].tok.sid = refresh[u].tok.sid

(* nothing, or it forgets its session;                                     *)
Calm(u) ==
  /\ tab'[u].sid \in {tab[u].sid, NoSession}
  /\ Answers(u)
  /\ left'[u] \subseteq left[u]

(* it leaves its session, and every answer under way is void;              *)
Leaves(u) ==
  /\ tab'[u].sid = NoSession
  /\ ~(refresh'[u].ans = "ok" /\ refresh'[u].current)
  /\ \A s \in left'[u] : s \in left[u] \/ status[s] = "revoked"

(* it shows a session it has not left;                                     *)
Gains(u) ==
  /\ tab'[u].sid \notin left[u]
  /\ ~(refresh'[u].ans = "ok" /\ refresh'[u].current)
  /\ left'[u] = left[u]

(* or the server grants it a token of an active session.                   *)
Granted(u) ==
  /\ tab'[u] = tab[u] /\ left'[u] = left[u]
  /\ refresh'[u].tok.sid \in Session /\ status[refresh'[u].tok.sid] = "active"

Move(u) == Calm(u) \/ Leaves(u) \/ Gains(u) \/ Granted(u)

(* None of these brings back a session the tab has left.                   *)
LEMMA MoveKeeps ==
  ASSUME Typed, Typed', NEW u \in Tab, LeftOK(u), Move(u),
         \A s \in Session : status[s] = "revoked" => status'[s] = "revoked"
  PROVE  LeftOK(u)'
<1>1. /\ left[u] \subseteq Session /\ left'[u] \subseteq Session
      /\ NoSession \notin Session
  BY AuthSessionAssumption DEF Typed, RestType
<1>2. CASE Calm(u)
  BY <1>1, <1>2, Zenon DEF Calm, Answers, LeftOK
<1>3. CASE Leaves(u)
  BY <1>1, <1>3 DEF Leaves, LeftOK
<1>4. CASE Gains(u)
  BY <1>1, <1>4 DEF Gains, LeftOK
<1>5. CASE Granted(u)
  BY <1>1, <1>5 DEF Granted, LeftOK
<1> QED
  BY <1>2, <1>3, <1>4, <1>5 DEF Move

(* A page that is loaded again has left nothing and expects nothing.       *)
LEMMA ReloadedCalm ==
  ASSUME Typed, NEW t \in Tab, Reloaded(t)
  PROVE  \A u \in Tab : Calm(u)
<1>1. /\ tab'[t].sid = NoSession /\ refresh'[t] = NoRefresh /\ left'[t] = {}
      /\ \A u \in Tab \ {t} : /\ tab'[u] = tab[u] /\ refresh'[u] = refresh[u]
                              /\ left'[u] = left[u]
  BY ReloadedTyped
<1>2. \A u \in Tab : Answers(u)
  BY <1>1, NothingTyped DEF Answers
<1> QED
  BY <1>1, <1>2 DEF Calm

(* A session event.                                                        *)
LEMMA ReceiveLeft ==
  ASSUME Typed, NEW t \in Tab, ReceiveEvent(t)
  PROVE  \A u \in Tab : Move(u)
<1> USE DEF Typed
<1>1. CASE Reloaded(t)
  BY <1>1, ReloadedCalm DEF Move
<1>2. CASE /\ tab' = [tab EXCEPT ![t] = Anonymous("complete")]
           /\ refresh' = Superseded(t)
           /\ left' = [left EXCEPT ![t] = left[t] \cup Ended({Head(inbox[t]).sid})]
  <2>1. tab'[t].sid = NoSession /\ \A u \in Tab \ {t} : tab'[u] = tab[u]
    BY <1>2, AnonymousTyped DEF TabType
  <2>2. /\ ~(refresh'[t].ans = "ok" /\ refresh'[t].current)
        /\ \A u \in Tab \ {t} : refresh'[u] = refresh[u]
    BY <1>2, SupersededTyped DEF RefreshType
  <2>3. Leaves(t)
    BY <1>2, <2>1, <2>2 DEF Leaves, Ended, RestType
  <2>4. \A u \in Tab \ {t} : Calm(u)
    BY <1>2, <2>1, <2>2 DEF Calm, Answers, RestType
  <2> QED
    BY <2>3, <2>4 DEF Move
<1>3. CASE UNCHANGED <<tab, refresh, left>>
  BY <1>3, Zenon DEF Move, Calm, Answers
<1> QED
  BY <1>1, <1>2, <1>3 DEF ReceiveEvent

(* The answer of a refresh.                                                *)
LEMMA AnsweredLeft ==
  ASSUME Typed, LeftInv, NEW t \in Tab, RefreshAnswered(t)
  PROVE  \A u \in Tab : Move(u)
<1> USE DEF Typed
<1> DEFINE r == refresh[t]
<1>1. /\ r \in Refresh /\ r.tok \in Token /\ tab[t] \in Store /\ cookie \in Token
      /\ cookie' \in Token /\ Typed'
  BY AnsweredTyped DEF RefreshType, Refresh, TabType, BrowserType
<1>2. ASSUME NEW outcome, Settled(t, outcome, tab'[t], cookie')
      PROVE  refresh'[t] = NoRefresh /\ \A u \in Tab \ {t} : refresh'[u] = refresh[u]
  BY <1>2 DEF Settled, RefreshType
<1>3. ASSUME refresh'[t] = NoRefresh /\ \A u \in Tab \ {t} : refresh'[u] = refresh[u]
      PROVE  ~(refresh'[t].ans = "ok" /\ refresh'[t].current) /\ \A u \in Tab : Answers(u)
  BY <1>3, NothingTyped DEF Answers
<1>4. CASE /\ Settled(t, "transient", tab[t], cookie')
           /\ UNCHANGED <<tab, inbox, left>>
  <2>1. refresh'[t] = NoRefresh /\ \A u \in Tab \ {t} : refresh'[u] = refresh[u]
    BY <1>4 DEF Settled, RefreshType
  <2> QED
    BY <1>3, <1>4, <2>1 DEF Move, Calm
<1>5. CASE /\ r.current /\ r.ans = "ok"
           /\ tab' = setBundle(t, r.tok.sid, r.access)
           /\ Settled(t, "authenticated", tab'[t], cookie')
           /\ UNCHANGED <<inbox, left>>
  <2>1. tab'[t].sid = r.tok.sid /\ \A u \in Tab \ {t} : tab'[u] = tab[u]
    BY <1>5 DEF setBundle, TabType
  <2>2. r.tok.sid \notin left[t]
    BY <1>5 DEF LeftInv, LeftOK
  <2>3. ~(refresh'[t].ans = "ok" /\ refresh'[t].current) /\ \A u \in Tab : Answers(u)
    BY <1>2, <1>3, <1>5
  <2>4. Gains(t)
    BY <1>5, <2>1, <2>2, <2>3 DEF Gains
  <2>5. \A u \in Tab \ {t} : Calm(u)
    BY <1>5, <2>1, <2>3 DEF Calm
  <2> QED
    BY <2>4, <2>5 DEF Move
<1>6. CASE /\ clearAuthentication(t, TRUE)
           /\ Settled(t, "anonymous", tab'[t], cookie')
           /\ left' = [left EXCEPT ![t] = left[t] \cup Ended({tab[t].sid})]
  <2>1. tab'[t].sid = NoSession /\ \A u \in Tab \ {t} : tab'[u] = tab[u]
    BY <1>6, ClearTyped DEF BrowserType
  <2>2. ~(refresh'[t].ans = "ok" /\ refresh'[t].current) /\ \A u \in Tab : Answers(u)
    BY <1>2, <1>3, <1>6
  <2>3. Leaves(t)
    BY <1>6, <2>1, <2>2 DEF Leaves, Ended, RestType
  <2>4. \A u \in Tab \ {t} : Calm(u)
    BY <1>6, <2>1, <2>2 DEF Calm, RestType
  <2> QED
    BY <2>3, <2>4 DEF Move
<1>7. CASE /\ tab' = [tab EXCEPT ![t] = Anonymous("idle")]
           /\ refresh' = [refresh EXCEPT ![t] =
                            [Sent(r, NoSession) EXCEPT !.retry = FALSE, !.race = 0]]
           /\ UNCHANGED <<holder, op, inbox, left>>
  <2> DEFINE k == [Sent(r, NoSession) EXCEPT !.retry = FALSE, !.race = 0]
  <2>1. Sent(r, NoSession) \in Refresh /\ Sent(r, NoSession).ans = "none"
    BY <1>1, SentTyped DEF BrowserType, Sid
  <2>2. k.ans = "none"
    <3>1. ASSUME NEW x \in Refresh
          PROVE  [x EXCEPT !.retry = FALSE, !.race = 0].ans = x.ans
      BY DEF Refresh
    <3> QED
      BY <2>1, <3>1
  <2>3. refresh' = [refresh EXCEPT ![t] = k]
    BY <1>7
  <2> HIDE DEF k
  <2>4. \A u \in Tab : Answers(u)
    BY <2>2, <2>3 DEF RefreshType, Answers
  <2>5. \A u \in Tab : tab'[u].sid \in {tab[u].sid, NoSession}
    BY <1>7, AnonymousTyped DEF TabType
  <2> QED
    BY <1>7, <2>4, <2>5 DEF Move, Calm
<1>8. CASE /\ refresh' = [refresh EXCEPT ![t].pc = "delay", ![t].race = r.race + 1,
                                             ![t].ans = "none"]
           /\ UNCHANGED <<holder, op, tab, inbox, left>>
  <2> DEFINE k == [r EXCEPT !.pc = "delay", !.race = r.race + 1, !.ans = "none"]
  <2>1. k.ans = "none"
    BY <1>1 DEF Refresh
  <2>2. refresh' = [refresh EXCEPT ![t] = k]
    BY <1>8 DEF RefreshType
  <2> HIDE DEF k
  <2>3. \A u \in Tab : Answers(u)
    BY <2>1, <2>2 DEF RefreshType, Answers
  <2> QED
    BY <1>8, <2>3 DEF Move, Calm
<1>9. CASE /\ clearAuthentication(t, FALSE)
           /\ Settled(t, "out_of_sync", tab'[t], cookie')
           /\ UNCHANGED left
  <2>1. tab'[t].sid = NoSession /\ \A u \in Tab \ {t} : tab'[u] = tab[u]
    BY <1>9, ClearTyped DEF BrowserType
  <2>2. \A u \in Tab : Answers(u)
    BY <1>2, <1>3, <1>9
  <2> QED
    BY <1>9, <2>1, <2>2 DEF Move, Calm
<1>10. CASE /\ tab' = [tab EXCEPT ![t].boot = "idle"]
            /\ Settled(t, "transient", tab'[t], cookie')
            /\ UNCHANGED <<inbox, left>>
  <2>1. \A u \in Tab : tab'[u].sid = tab[u].sid
    BY <1>10 DEF TabType, Store
  <2>2. Settled(t, "transient", tab'[t], cookie') /\ UNCHANGED left
    BY <1>10
  <2>3. \A u \in Tab : Answers(u)
    BY <1>2, <1>3, <2>2
  <2> QED
    BY <2>1, <2>2, <2>3 DEF Move, Calm
<1> QED
  BY <1>4, <1>5, <1>6, <1>7, <1>8, <1>9, <1>10, Zenon DEF RefreshAnswered

(* Every step is one of these moves for every tab.                         *)
LEMMA EveryMove ==
  ASSUME Typed, FreshInv, LeftInv, [Next]_vars
  PROVE  \A u \in Tab : Move(u)
<1> USE DEF Typed, Move
<1>1. ASSUME NEW t \in Tab, bootstrapAuthentication(t) PROVE \A u \in Tab : Move(u)
  <2>1. \A u \in Tab : tab'[u].sid \in {tab[u].sid, NoSession}
    BY <1>1 DEF bootstrapAuthentication, TabType, Store
  <2>2. \A u \in Tab : Answers(u)
    <3>1. UNCHANGED refresh \/ refresh' = refreshAuthentication(t)
      BY <1>1 DEF bootstrapAuthentication
    <3> QED
      BY <3>1, BeginTyped DEF Answers
  <2>3. \A u \in Tab : left'[u] \subseteq left[u]
    BY <1>1 DEF bootstrapAuthentication
  <2> QED
    BY <2>1, <2>2, <2>3 DEF Calm
<1>2. ASSUME NEW t \in Tab, getFreshAuthHeaders(t) PROVE \A u \in Tab : Move(u)
  <2>1. \A u \in Tab : tab'[u].sid \in {tab[u].sid, NoSession}
    BY <1>2 DEF getFreshAuthHeaders
  <2>2. \A u \in Tab : Answers(u)
    <3>1. UNCHANGED refresh \/ refresh' = refreshAuthentication(t)
      BY <1>2 DEF getFreshAuthHeaders
    <3> QED
      BY <3>1, BeginTyped DEF Answers
  <2>3. \A u \in Tab : left'[u] \subseteq left[u]
    BY <1>2 DEF getFreshAuthHeaders
  <2> QED
    BY <2>1, <2>2, <2>3 DEF Calm
<1>3. ASSUME NEW t \in Tab, ApiReceives401(t) PROVE \A u \in Tab : Move(u)
  <2>1. \A u \in Tab : tab'[u].sid \in {tab[u].sid, NoSession}
    BY <1>3 DEF ApiReceives401
  <2>2. \A u \in Tab : Answers(u)
    <3>1. UNCHANGED refresh \/ refresh' = refreshAuthentication(t)
      BY <1>3 DEF ApiReceives401
    <3> QED
      BY <3>1, BeginTyped DEF Answers
  <2>3. \A u \in Tab : left'[u] \subseteq left[u]
    BY <1>3 DEF ApiReceives401
  <2> QED
    BY <2>1, <2>2, <2>3 DEF Calm
<1>4. ASSUME NEW t \in Tab, Logout(t) PROVE \A u \in Tab : Move(u)
  <2>1. \A u \in Tab : tab'[u].sid \in {tab[u].sid, NoSession}
    BY <1>4 DEF Logout
  <2>2. \A u \in Tab : Answers(u)
    BY <1>4 DEF Logout, Answers
  <2>3. \A u \in Tab : left'[u] \subseteq left[u]
    BY <1>4 DEF Logout
  <2> QED
    BY <2>1, <2>2, <2>3 DEF Calm
<1>5. ASSUME NEW t \in Tab, AuthLogout(t) PROVE \A u \in Tab : Move(u)
  <2>1. \A u \in Tab : tab'[u].sid \in {tab[u].sid, NoSession}
    BY <1>5 DEF AuthLogout
  <2>2. \A u \in Tab : Answers(u)
    BY <1>5 DEF AuthLogout, Answers
  <2>3. \A u \in Tab : left'[u] \subseteq left[u]
    BY <1>5 DEF AuthLogout
  <2> QED
    BY <2>1, <2>2, <2>3 DEF Calm
<1>6. ASSUME NEW t \in Tab, ReplayAccepted(t) PROVE \A u \in Tab : Move(u)
  <2>1. \A u \in Tab : tab'[u].sid \in {tab[u].sid, NoSession}
    BY <1>6 DEF ReplayAccepted
  <2>2. \A u \in Tab : Answers(u)
    BY <1>6 DEF ReplayAccepted, Answers
  <2>3. \A u \in Tab : left'[u] \subseteq left[u]
    BY <1>6 DEF ReplayAccepted
  <2> QED
    BY <2>1, <2>2, <2>3 DEF Calm
<1>7. ASSUME NEW t \in Tab, ReplayRejected(t) PROVE \A u \in Tab : Move(u)
  <2>1. \A u \in Tab : tab'[u].sid \in {tab[u].sid, NoSession}
    BY <1>7 DEF ReplayRejected
  <2>2. \A u \in Tab : Answers(u)
    BY <1>7 DEF ReplayRejected, Answers
  <2>3. \A u \in Tab : left'[u] \subseteq left[u]
    BY <1>7 DEF ReplayRejected
  <2> QED
    BY <2>1, <2>2, <2>3 DEF Calm
<1>8. ASSUME NEW t \in Tab, OpFails(t) PROVE \A u \in Tab : Move(u)
  <2>1. \A u \in Tab : tab'[u].sid \in {tab[u].sid, NoSession}
    BY <1>8 DEF OpFails
  <2>2. \A u \in Tab : Answers(u)
    BY <1>8 DEF OpFails, Answers
  <2>3. \A u \in Tab : left'[u] \subseteq left[u]
    BY <1>8 DEF OpFails
  <2> QED
    BY <2>1, <2>2, <2>3 DEF Calm
<1>9. ASSUME NEW t \in Tab, NEW x \in Session, createLoginSession(t, x) PROVE \A u \in Tab : Move(u)
  <2>1. \A u \in Tab : tab'[u].sid \in {tab[u].sid, NoSession}
    BY <1>9 DEF createLoginSession
  <2>2. \A u \in Tab : Answers(u)
    BY <1>9 DEF createLoginSession, Answers
  <2>3. \A u \in Tab : left'[u] \subseteq left[u]
    BY <1>9 DEF createLoginSession
  <2> QED
    BY <2>1, <2>2, <2>3 DEF Calm
<1>10. ASSUME NEW x \in Session, RevokeUserSession(x) PROVE \A u \in Tab : Move(u)
  <2>1. \A u \in Tab : tab'[u].sid \in {tab[u].sid, NoSession}
    BY <1>10 DEF RevokeUserSession
  <2>2. \A u \in Tab : Answers(u)
    BY <1>10 DEF RevokeUserSession, Answers
  <2>3. \A u \in Tab : left'[u] \subseteq left[u]
    BY <1>10 DEF RevokeUserSession
  <2> QED
    BY <2>1, <2>2, <2>3 DEF Calm
<1>11. ASSUME NEW t \in Tab, AdvanceCurrentSessionSecurity(t) PROVE \A u \in Tab : Move(u)
  <2>1. \A u \in Tab : tab'[u].sid \in {tab[u].sid, NoSession}
    BY <1>11 DEF AdvanceCurrentSessionSecurity, TabType, Store
  <2>2. \A u \in Tab : Answers(u)
    <3>1. \A u \in Tab : /\ refresh'[u].tok = refresh[u].tok /\ refresh'[u].ans = refresh[u].ans
                         /\ refresh'[u].current = refresh[u].current
      BY <1>11 DEF AdvanceCurrentSessionSecurity, RefreshType, Refresh
    <3> QED
      BY <3>1, Zenon DEF Answers
  <2>3. \A u \in Tab : left'[u] \subseteq left[u]
    BY <1>11 DEF AdvanceCurrentSessionSecurity
  <2> QED
    BY <2>1, <2>2, <2>3 DEF Calm
<1>12. ASSUME NEW t \in Tab, performRefreshWithBrowserLock(t) PROVE \A u \in Tab : Move(u)
  <2>1. \A u \in Tab : tab'[u].sid \in {tab[u].sid, NoSession}
    BY <1>12 DEF performRefreshWithBrowserLock
  <2>2. \A u \in Tab : Answers(u)
    <3>1. CASE refresh[t].current
      <4>1. Sent(refresh[t], tab[t].sid).ans = "none"
        BY SentTyped DEF RefreshType, BrowserType, TabType, Store
      <4> QED
        BY <1>12, <3>1, <4>1 DEF performRefreshWithBrowserLock, RefreshType, Answers
    <3>2. CASE ~refresh[t].current
      <4>1. Settled(t, "transient", tab[t], cookie)
        BY <1>12, <3>2 DEF performRefreshWithBrowserLock
      <4>2. refresh'[t] = NoRefresh /\ \A u \in Tab \ {t} : refresh'[u] = refresh[u]
        BY <4>1, SettledTyped DEF TabType, BrowserType
      <4> QED
        BY <4>2, NothingTyped DEF Answers
    <3> QED
      BY <3>1, <3>2
  <2>3. \A u \in Tab : left'[u] \subseteq left[u]
    BY <1>12 DEF performRefreshWithBrowserLock
  <2> QED
    BY <2>1, <2>2, <2>3 DEF Calm
<1>13. ASSUME NEW t \in Tab, RaceRetry(t) PROVE \A u \in Tab : Move(u)
  <2>1. \A u \in Tab : tab'[u].sid \in {tab[u].sid, NoSession}
    BY <1>13 DEF RaceRetry
  <2>2. \A u \in Tab : Answers(u)
    <3>1. CASE refresh[t].current
      <4>1. Sent(refresh[t], tab[t].sid).ans = "none"
        BY SentTyped DEF RefreshType, BrowserType, TabType, Store
      <4> QED
        BY <1>13, <3>1, <4>1 DEF RaceRetry, RefreshType, Answers
    <3>2. CASE ~refresh[t].current
      <4>1. Settled(t, "transient", tab[t], cookie)
        BY <1>13, <3>2 DEF RaceRetry
      <4>2. refresh'[t] = NoRefresh /\ \A u \in Tab \ {t} : refresh'[u] = refresh[u]
        BY <4>1, SettledTyped DEF TabType, BrowserType
      <4> QED
        BY <4>2, NothingTyped DEF Answers
    <3> QED
      BY <3>1, <3>2
  <2>3. \A u \in Tab : left'[u] \subseteq left[u]
    BY <1>13 DEF RaceRetry
  <2> QED
    BY <2>1, <2>2, <2>3 DEF Calm
<1>14. ASSUME NEW t \in Tab, RefreshDenied(t) PROVE \A u \in Tab : Move(u)
  <2>1. \A u \in Tab : tab'[u].sid \in {tab[u].sid, NoSession}
    BY <1>14 DEF RefreshDenied
  <2>2. \A u \in Tab : Answers(u)
    <3>1. \E a \in Answer \ {"ok"} : refresh' = [refresh EXCEPT ![t] = Reply(t, a, NoToken)]
      BY <1>14 DEF RefreshDenied, Answer
    <3> QED
      BY <3>1, ReplyTyped, NothingTyped DEF RefreshType, Answers
  <2>3. \A u \in Tab : left'[u] \subseteq left[u]
    BY <1>14 DEF RefreshDenied
  <2> QED
    BY <2>1, <2>2, <2>3 DEF Calm
<1>15. ASSUME NEW t \in Tab, RefreshMismatch(t) PROVE \A u \in Tab : Move(u)
  <2>1. \A u \in Tab : tab'[u].sid \in {tab[u].sid, NoSession}
    BY <1>15 DEF RefreshMismatch
  <2>2. \A u \in Tab : Answers(u)
    <3>1. \E a \in Answer \ {"ok"} : refresh' = [refresh EXCEPT ![t] = Reply(t, a, NoToken)]
      BY <1>15 DEF RefreshMismatch, Answer
    <3> QED
      BY <3>1, ReplyTyped, NothingTyped DEF RefreshType, Answers
  <2>3. \A u \in Tab : left'[u] \subseteq left[u]
    BY <1>15 DEF RefreshMismatch
  <2> QED
    BY <2>1, <2>2, <2>3 DEF Calm
<1>16. ASSUME NEW t \in Tab, RefreshReused(t) PROVE \A u \in Tab : Move(u)
  <2>1. \A u \in Tab : tab'[u].sid \in {tab[u].sid, NoSession}
    BY <1>16 DEF RefreshReused
  <2>2. \A u \in Tab : Answers(u)
    <3>1. \E a \in Answer \ {"ok"} : refresh' = [refresh EXCEPT ![t] = Reply(t, a, NoToken)]
      BY <1>16 DEF RefreshReused, Answer
    <3> QED
      BY <3>1, ReplyTyped, NothingTyped DEF RefreshType, Answers
  <2>3. \A u \in Tab : left'[u] \subseteq left[u]
    BY <1>16 DEF RefreshReused
  <2> QED
    BY <2>1, <2>2, <2>3 DEF Calm
<1>17. ASSUME NEW t \in Tab, RefreshFails(t) PROVE \A u \in Tab : Move(u)
  <2>1. \A u \in Tab : tab'[u].sid \in {tab[u].sid, NoSession}
    BY <1>17 DEF RefreshFails
  <2>2. \A u \in Tab : Answers(u)
    <3>1. \E a \in Answer \ {"ok"} : refresh' = [refresh EXCEPT ![t] = Reply(t, a, NoToken)]
      BY <1>17 DEF RefreshFails, Answer
    <3> QED
      BY <3>1, ReplyTyped, NothingTyped DEF RefreshType, Answers
  <2>3. \A u \in Tab : left'[u] \subseteq left[u]
    BY <1>17 DEF RefreshFails
  <2> QED
    BY <2>1, <2>2, <2>3 DEF Calm
<1>18. ASSUME NEW t \in Tab, LogoutMismatch(t) PROVE \A u \in Tab : Move(u)
  <2>1. \A u \in Tab : tab'[u].sid \in {tab[u].sid, NoSession}
    BY <1>18 DEF LogoutMismatch
  <2>2. \A u \in Tab : Answers(u)
    <3>1. UNCHANGED refresh \/ refresh' = refreshAuthentication(t)
      BY <1>18 DEF LogoutMismatch
    <3> QED
      BY <3>1, BeginTyped DEF Answers
  <2>3. \A u \in Tab : left'[u] \subseteq left[u]
    BY <1>18 DEF LogoutMismatch
  <2> QED
    BY <2>1, <2>2, <2>3 DEF Calm
<1>19. ASSUME NEW t \in Tab, ReplayReceives401(t) PROVE \A u \in Tab : Move(u)
  <2>1. \A u \in Tab : tab'[u].sid \in {tab[u].sid, NoSession}
    BY <1>19, ClearTyped DEF ReplayReceives401, BrowserType
  <2>2. \A u \in Tab : Answers(u)
    <3>1. refresh' = Superseded(t) \/ UNCHANGED refresh
      BY <1>19 DEF ReplayReceives401
    <3> QED
      BY <3>1, SupersededTyped DEF RefreshType, Answers
  <2>3. \A u \in Tab : left'[u] \subseteq left[u]
    BY <1>19 DEF ReplayReceives401
  <2> QED
    BY <2>1, <2>2, <2>3 DEF Calm
<1>20. ASSUME NEW t \in Tab, applyAuthRotation(t) PROVE \A u \in Tab : Move(u)
  <2>1. \A u \in Tab : tab'[u].sid \in {tab[u].sid, NoSession}
    BY <1>20 DEF applyAuthRotation, setBundle, TabType
  <2>2. \A u \in Tab : Answers(u)
    <3>1. refresh' = Superseded(t) \/ UNCHANGED refresh
      BY <1>20 DEF applyAuthRotation
    <3> QED
      BY <3>1, SupersededTyped DEF RefreshType, Answers
  <2>3. \A u \in Tab : left'[u] \subseteq left[u]
    BY <1>20 DEF applyAuthRotation
  <2> QED
    BY <2>1, <2>2, <2>3 DEF Calm
<1>21. ASSUME NEW t \in Tab, AccessExpires(t) PROVE \A u \in Tab : Move(u)
  <2>1. \A u \in Tab : tab'[u].sid \in {tab[u].sid, NoSession}
    BY <1>21 DEF AccessExpires, TabType, Store
  <2>2. \A u \in Tab : Answers(u)
    BY <1>21 DEF AccessExpires, Answers
  <2>3. \A u \in Tab : left'[u] \subseteq left[u]
    BY <1>21 DEF AccessExpires
  <2> QED
    BY <2>1, <2>2, <2>3 DEF Calm
<1>22. ASSUME NEW t \in Tab, redirectToSignIn(t) PROVE \A u \in Tab : Move(u)
  <2>1. CASE Reloaded(t)
    BY <2>1, ReloadedCalm
  <2>2. CASE UNCHANGED <<tab, refresh, left>>
    BY <2>2, Zenon DEF Calm, Answers
  <2> QED
    BY <1>22, <2>1, <2>2 DEF redirectToSignIn
<1>23. ASSUME NEW t \in Tab, UserReloads(t) PROVE \A u \in Tab : Move(u)
  BY <1>23, ReloadedCalm DEF UserReloads
<1>24. ASSUME NEW t \in Tab, RotateUserSessionRefresh(t) PROVE \A u \in Tab : Move(u)
  <2> DEFINE k == Reply(t, "ok", refresh[t].tok)
           n(u) == [refresh[u] EXCEPT !.tok = Older(refresh[u].tok, refresh[t].tok.sid)]
  <2>1. \A u \in Tab : refresh[u] \in Refresh /\ refresh[u].tok \in Token
    BY DEF RefreshType, Refresh
  <2>2. \A u \in Tab : Older(refresh[u].tok, refresh[t].tok.sid).sid = refresh[u].tok.sid
    BY <2>1, OlderTyped
  <2>3. \A u \in Tab : /\ n(u).tok.sid = refresh[u].tok.sid /\ n(u).ans = refresh[u].ans
                       /\ n(u).current = refresh[u].current
    BY <2>1, <2>2 DEF Refresh
  <2>4. k.tok = refresh[t].tok
    BY <2>1, ReplyTyped DEF RefreshType, Answer
  <2>5. refresh' = [u \in Tab |-> IF u = t THEN k ELSE n(u)]
    BY <1>24 DEF RotateUserSessionRefresh
  <2> HIDE DEF k, n
  <2>6. refresh[t].tok.sid \in Session /\ status[refresh[t].tok.sid] = "active"
    BY <1>24, <2>1 DEF RotateUserSessionRefresh, Known, Token, Sid
  <2>7. \A u \in Tab \ {t} : Answers(u)
    <3>1. ASSUME NEW u \in Tab \ {t} PROVE Answers(u)
      <4>1. /\ refresh'[u].tok.sid = refresh[u].tok.sid /\ refresh'[u].ans = refresh[u].ans
            /\ refresh'[u].current = refresh[u].current
        BY <2>3, <2>5
      <4> QED
        BY <4>1, Zenon DEF Answers
    <3> QED
      BY <3>1
  <2>8. refresh'[t].tok = refresh[t].tok
    BY <2>4, <2>5
  <2>9. UNCHANGED <<tab, left>>
    BY <1>24 DEF RotateUserSessionRefresh
  <2>10. Granted(t)
    BY <2>6, <2>8, <2>9 DEF Granted
  <2>11. \A u \in Tab \ {t} : Calm(u)
    BY <2>7, <2>9 DEF Calm
  <2> QED
    BY <2>10, <2>11
<1>25. ASSUME NEW t \in Tab, RefreshReplayed(t) PROVE \A u \in Tab : Move(u)
  <2> DEFINE k == [refresh[t].tok EXCEPT !.age = 0]
  <2>1. k \in Token /\ k.sid = refresh[t].tok.sid
    BY DEF RefreshType, Refresh, Token
  <2>2. refresh' = [refresh EXCEPT ![t] = Reply(t, "ok", k)]
    BY <1>25 DEF RefreshReplayed
  <2> HIDE DEF k
  <2>3. refresh'[t].tok.sid = refresh[t].tok.sid
    BY <2>1, <2>2, ReplyTyped DEF RefreshType, Answer
  <2>4. refresh[t].tok.sid \in Session /\ status[refresh[t].tok.sid] = "active"
    BY <1>25 DEF RefreshReplayed, Known, RefreshType, Refresh, Token, Sid
  <2>5. UNCHANGED <<tab, left>>
    BY <1>25 DEF RefreshReplayed
  <2>6. Granted(t)
    BY <2>3, <2>4, <2>5 DEF Granted
  <2>7. \A u \in Tab \ {t} : Calm(u)
    BY <2>2, <2>5 DEF Calm, Answers, RefreshType
  <2> QED
    BY <2>6, <2>7
<1>26. ASSUME NEW t \in Tab, handleLoginSuccess(t) PROVE \A u \in Tab : Move(u)
  <2>1. op[t].sid \in Session /\ op[t].sid \notin left[t]
    BY <1>26 DEF handleLoginSuccess, OpType, FreshInv, Hidden, HideLeft
  <2>2. tab'[t].sid = op[t].sid /\ \A u \in Tab \ {t} : tab'[u] = tab[u]
    BY <1>26 DEF handleLoginSuccess, setBundle, TabType
  <2>3. /\ ~(refresh'[t].ans = "ok" /\ refresh'[t].current)
        /\ \A u \in Tab \ {t} : refresh'[u] = refresh[u]
    BY <1>26, SupersededTyped DEF handleLoginSuccess, RefreshType
  <2>4. UNCHANGED left
    BY <1>26 DEF handleLoginSuccess
  <2>5. Gains(t)
    BY <2>1, <2>2, <2>3, <2>4 DEF Gains
  <2>6. \A u \in Tab \ {t} : Calm(u)
    BY <2>2, <2>3, <2>4 DEF Calm, Answers
  <2> QED
    BY <2>5, <2>6
<1>27. ASSUME NEW t \in Tab, handleSignOut(t) PROVE \A u \in Tab : Move(u)
  <2>1. tab'[t].sid = NoSession /\ \A u \in Tab \ {t} : tab'[u] = tab[u]
    BY <1>27, ClearTyped DEF handleSignOut, BrowserType
  <2>2. /\ ~(refresh'[t].ans = "ok" /\ refresh'[t].current)
        /\ \A u \in Tab \ {t} : refresh'[u] = refresh[u]
    BY <1>27, SupersededTyped DEF handleSignOut, RefreshType
  <2>3. left' = [left EXCEPT ![t] = left[t] \cup Ended({op[t].sid})]
    BY <1>27 DEF handleSignOut
  <2>4. Leaves(t)
    BY <2>1, <2>2, <2>3 DEF Leaves, Ended, RestType
  <2>5. \A u \in Tab \ {t} : Calm(u)
    BY <2>1, <2>2, <2>3 DEF Calm, Answers, RestType
  <2> QED
    BY <2>4, <2>5
<1>28. ASSUME NEW t \in Tab, ReceiveEvent(t) PROVE \A u \in Tab : Move(u)
  BY <1>28, ReceiveLeft
<1>29. ASSUME NEW t \in Tab, RefreshAnswered(t) PROVE \A u \in Tab : Move(u)
  BY <1>29, AnsweredLeft
<1>30. CASE UNCHANGED vars
  BY <1>30, Zenon DEF vars, Calm, Answers
<1>31. ASSUME NEW i \in Slot, AbandonedStep(i) PROVE \A u \in Tab : Move(u)
  <2>1. UNCHANGED <<tab, left>>
    BY <1>31, AbandonedKeeps
  <2>2. \A u \in Tab : Answers(u)
    BY <1>31, AbandonedKeeps, Zenon DEF Answers
  <2> QED
    BY <2>1, <2>2 DEF Calm
<1> QED
  BY <1>1, <1>2, <1>3, <1>4, <1>5, <1>6, <1>7, <1>8, <1>9, <1>10, <1>11,
     <1>12, <1>13, <1>14, <1>15, <1>16, <1>17, <1>18, <1>19, <1>20, <1>21,
     <1>22, <1>23, <1>24, <1>25, <1>26, <1>27, <1>28, <1>29, <1>30, <1>31
     DEF Next, RefreshStep, OpStep, RefreshLoginSession

(* A revoked session is never active again.                                *)
LEMMA RevokedStays ==
  ASSUME Typed, [Next]_vars, NEW s \in Session, status[s] = "revoked"
  PROVE  status'[s] = "revoked"
<1>1. CASE \E t \in Tab, x \in Session : createLoginSession(t, x)
  BY <1>1 DEF createLoginSession, Typed, RestType
<1>2. CASE ~\E t \in Tab, x \in Session : createLoginSession(t, x)
  BY <1>2, QuietStep DEF StatusKept
<1> QED
  BY <1>1, <1>2

(* Every step keeps what is known of the sessions a tab has left.          *)
LEMMA LeftStep ==
  ASSUME Typed, FreshInv, LeftInv, [Next]_vars
  PROVE  LeftInv'
<1>1. Typed'
  BY TypeStep
<1>2. \A u \in Tab : Move(u)
  BY EveryMove
<1>3. \A s \in Session : status[s] = "revoked" => status'[s] = "revoked"
  BY RevokedStays
<1> QED
  BY <1>1, <1>2, <1>3, MoveKeeps DEF LeftInv

(* In the initial state nobody has signed in or left.                      *)
LEMMA InitLeft == Init => FreshInv /\ LeftInv
<1> SUFFICES ASSUME Init PROVE FreshInv /\ LeftInv
  OBVIOUS
<1>1. /\ \A u \in Tab : tab[u].sid = NoSession /\ refresh[u] = NoRefresh /\ op[u] = NoOp
      /\ \A u \in Tab : left[u] = {} /\ inbox[u] = <<>>
      /\ cookie = NoToken /\ NoSession \notin Session
  BY AnonymousTyped, AuthSessionAssumption DEF Init
<1>2. ASSUME NEW s \in Session PROVE Hidden(s) /\ \A u \in Tab : op[u].sid # s
  BY <1>1, NothingTyped
     DEF Hidden, HideStore, HideRefresh, HideOp, HideLeft, HideBrowser
<1>3. FreshInv
  BY <1>1, <1>2, NothingTyped DEF FreshInv
<1>4. LeftInv
  BY <1>1, NothingTyped DEF LeftInv, LeftOK
<1> QED
  BY <1>3, <1>4

(* No tab ever returns to a session it was told is over, by its own        *)
(* sign-out, by a refused refresh or by another tab, whichever answers are *)
(* still on their way and in whatever order they arrive.                   *)
THEOREM NeverReturns == Spec => []LeftForGood
<1>1. Typed /\ FreshInv /\ LeftInv /\ [Next]_vars => Typed' /\ FreshInv' /\ LeftInv'
  BY TypeStep, FreshStep, LeftStep
<1>2. LeftInv => LeftForGood
  BY DEF LeftInv, LeftOK, LeftForGood
<1>3. Init => Typed /\ FreshInv /\ LeftInv
  BY InitTyped, InitLeft
<1> QED
  BY <1>1, <1>2, <1>3, PTL DEF Spec

-----------------------------------------------------------------------------
(* The refreshes of a browser with locks.  One that is on its way holds    *)
(* the lock.  The token it sent is the current one unless a rotation was   *)
(* missed, and so are the token it is answered with, that of a request     *)
(* that was given up, and the cookie, unless the answer that will renew it *)
(* is still under way.                                                     *)
Active(u) == refresh[u].pc \in {"sent", "answered", "delay"}

CookieOK ==
  \/ cookie.sid \in lost \/ cookie.age = 0
  \/ \E u \in Tab : refresh[u].ans = "ok" /\ refresh[u].tok.sid = cookie.sid

LateOK == \A i \in Slot : late[i].sid \in lost \/ late[i].age = 0

LockInv ==
  /\ \A u \in Tab : Active(u) => holder = u
  /\ \A u \in Tab : refresh[u].pc = "sent" =>
        refresh[u].tok.sid \in lost \/ refresh[u].tok.age = 0
  /\ \A u \in Tab : refresh[u].pc = "answered" =>
        refresh[u].tok.sid \in lost \/ refresh[u].tok.age = 0
  /\ CookieOK /\ LateOK
  /\ reused \subseteq lost

(* A step that leaves the refresh of a tab alone, or begins one.           *)
CalmRefresh(u) ==
  \/ /\ refresh'[u].pc = refresh[u].pc /\ refresh'[u].tok = refresh[u].tok
     /\ refresh'[u].ans = refresh[u].ans
  \/ refresh'[u].pc \in {"none", "lock"} /\ refresh[u].ans # "ok"

(* A refresh that begins was not on its way.                               *)
LEMMA BeginCalm ==
  ASSUME RefreshType, NEW t \in Tab, refresh' = refreshAuthentication(t)
  PROVE  \A u \in Tab : CalmRefresh(u)
<1>1. CASE refresh[t].pc = "none"
  <2>1. refresh[t].ans # "ok"
    BY <1>1 DEF RefreshType
  <2>2. \A u \in Tab \ {t} : refresh'[u] = refresh[u]
    BY BeginTyped
  <2>3. refresh'[t] = refresh[t] \/ refresh'[t].pc = "lock"
    BY BeginTyped
  <2> QED
    BY <2>1, <2>2, <2>3 DEF CalmRefresh
<1>2. CASE refresh[t].pc # "none"
  BY <1>2 DEF refreshAuthentication, CalmRefresh
<1> QED
  BY <1>1, <1>2

(* Such steps leave the lock alone.                                        *)
LEMMA CalmLock ==
  ASSUME LockInv, \A u \in Tab : CalmRefresh(u), UNCHANGED <<holder, late, lost, reused>>,
         cookie' = cookie \/ cookie'.age = 0
  PROVE  LockInv'
<1>1. \A u \in Tab : (Active(u) => holder = u)'
  BY DEF CalmRefresh, LockInv, Active
<1>2. \A u \in Tab : refresh'[u].pc = "sent" =>
        refresh'[u].tok.sid \in lost' \/ refresh'[u].tok.age = 0
  BY DEF CalmRefresh, LockInv
<1>3. \A u \in Tab : refresh'[u].pc = "answered" =>
        refresh'[u].tok.sid \in lost' \/ refresh'[u].tok.age = 0
  BY DEF CalmRefresh, LockInv
<1>4. CookieOK' /\ LateOK'
  BY DEF CalmRefresh, LockInv, CookieOK, LateOK
<1>5. reused' \subseteq lost'
  BY DEF LockInv
<1> QED
  BY <1>1, <1>2, <1>3, <1>4, <1>5 DEF LockInv

(* A step of the only refresh that is on its way.                          *)
LEMMA OneActive ==
  ASSUME NEW t \in Tab,
         \A u \in Tab \ {t} : ~Active(u) /\ refresh'[u].pc = refresh[u].pc,
         (Active(t) => holder = t)',
         refresh'[t].pc = "sent" =>
            refresh'[t].tok.sid \in lost' \/ refresh'[t].tok.age = 0,
         refresh'[t].pc = "answered" =>
            refresh'[t].tok.sid \in lost' \/ refresh'[t].tok.age = 0,
         CookieOK', LateOK', reused' \subseteq lost'
  PROVE  LockInv'
BY DEF Active, LockInv

(* A page that is loaded again gives the lock back, and an answer it did   *)
(* not wait for is lost.                                                   *)
LEMMA ReloadedLock ==
  ASSUME Typed, LockInv, NEW t \in Tab, Reloaded(t), UNCHANGED <<cookie, reused>>
  PROVE  LockInv'
<1>1. /\ refresh'[t].pc = "none" /\ lost \subseteq lost'
      /\ \A u \in Tab \ {t} : refresh'[u] = refresh[u] /\ (holder = u => holder' = u)
  BY ReloadedTyped, NothingTyped
<1>2. refresh[t].ans = "ok" => refresh[t].tok.sid \in lost'
  BY DEF Reloaded, Typed, RefreshType
<1>3. CookieOK' /\ LateOK'
  <2>1. \A i \in Slot : \/ late'[i] = late[i]
                        \/ refresh[t].pc = "sent" /\ late'[i] = refresh[t].tok
    BY ReloadedTyped
  <2>2. LateOK'
    BY <1>1, <2>1 DEF LockInv, LateOK
  <2> QED
    BY <1>1, <1>2, <2>2 DEF LockInv, CookieOK
<1>4. \A u \in Tab : (Active(u) => holder = u)'
  BY <1>1 DEF LockInv, Active
<1>5. \A u \in Tab : refresh'[u].pc = "sent" =>
        refresh'[u].tok.sid \in lost' \/ refresh'[u].tok.age = 0
  BY <1>1 DEF LockInv
<1>6. \A u \in Tab : refresh'[u].pc = "answered" =>
        refresh'[u].tok.sid \in lost' \/ refresh'[u].tok.age = 0
  BY <1>1 DEF LockInv
<1>7. reused' \subseteq lost'
  BY <1>1 DEF LockInv
<1> QED
  BY <1>3, <1>4, <1>5, <1>6, <1>7 DEF LockInv

(* The answer of a refresh renews the cookie, or the cookie was current.   *)
LEMMA AnsweredLock ==
  ASSUME Typed, LockInv, NEW t \in Tab, RefreshAnswered(t)
  PROVE  LockInv'
<1> USE DEF Typed
<1> DEFINE r == refresh[t]
<1>1. /\ r \in Refresh /\ r.pc = "answered" /\ Active(t)
      /\ r.tok.sid \in lost \/ r.tok.age = 0
  BY DEF RefreshAnswered, RefreshType, Active, LockInv
<1>2. holder = t /\ \A u \in Tab \ {t} : ~Active(u)
  BY <1>1 DEF LockInv
<1>3. \A u \in Tab \ {t} : refresh[u].ans # "ok"
  BY <1>2 DEF Active, RefreshType
<1>4. UNCHANGED <<late, lost, reused>> /\ cookie' = StoredCookie(t)
  BY DEF RefreshAnswered, serverVars
<1>5. cookie'.sid \in lost \/ cookie'.age = 0
  BY <1>1, <1>3, <1>4 DEF StoredCookie, LockInv, CookieOK
<1>6. CookieOK' /\ LateOK' /\ reused' \subseteq lost'
  BY <1>4, <1>5 DEF CookieOK, LateOK, LockInv
<1>7. ASSUME refresh'[t] = NoRefresh, \A u \in Tab \ {t} : refresh'[u] = refresh[u]
      PROVE  LockInv'
  BY <1>2, <1>6, <1>7, NothingTyped, OneActive DEF Active
<1>8. CASE refresh' = [refresh EXCEPT ![t] = NoRefresh]
  BY <1>7, <1>8 DEF RefreshType
<1>9. CASE /\ r.ans = "mismatch"
           /\ refresh' = [refresh EXCEPT ![t] =
                            [Sent(r, NoSession) EXCEPT !.retry = FALSE, !.race = 0]]
           /\ UNCHANGED holder
  <2> DEFINE k == [Sent(r, NoSession) EXCEPT !.retry = FALSE, !.race = 0]
  <2>1. /\ Sent(r, NoSession) \in Refresh /\ Sent(r, NoSession).tok = cookie
        /\ Sent(r, NoSession).pc = "sent"
    BY <1>1, SentTyped DEF BrowserType, Sid
  <2>2. k.tok = cookie /\ k.pc = "sent"
    <3>1. ASSUME NEW x \in Refresh
          PROVE  /\ [x EXCEPT !.retry = FALSE, !.race = 0].tok = x.tok
                 /\ [x EXCEPT !.retry = FALSE, !.race = 0].pc = x.pc
      BY DEF Refresh
    <3> QED
      BY <2>1, <3>1
  <2>3. refresh' = [refresh EXCEPT ![t] = k]
    BY <1>9
  <2> HIDE DEF k
  <2>4. /\ refresh'[t].pc = "sent" /\ refresh'[t].tok = cookie
        /\ \A u \in Tab \ {t} : refresh'[u].pc = refresh[u].pc
    BY <2>2, <2>3 DEF RefreshType
  <2>5. cookie' = cookie
    BY <1>4, <1>9 DEF StoredCookie
  <2> QED
    BY <1>2, <1>4, <1>5, <1>6, <1>9, <2>4, <2>5, OneActive
<1>10. CASE /\ refresh' = [refresh EXCEPT ![t].pc = "delay", ![t].race = r.race + 1,
                                             ![t].ans = "none"]
            /\ UNCHANGED holder
  <2> DEFINE k == [r EXCEPT !.pc = "delay", !.race = r.race + 1, !.ans = "none"]
  <2>1. k.pc = "delay"
    BY <1>1 DEF Refresh
  <2>2. refresh' = [refresh EXCEPT ![t] = k]
    BY <1>10 DEF RefreshType
  <2> HIDE DEF k
  <2>3. refresh'[t].pc = "delay" /\ \A u \in Tab \ {t} : refresh'[u].pc = refresh[u].pc
    BY <2>1, <2>2 DEF RefreshType
  <2> QED
    BY <1>2, <1>6, <1>10, <2>3, OneActive
<1>11. \/ refresh' = [refresh EXCEPT ![t] = NoRefresh]
       \/ /\ r.ans = "mismatch"
          /\ refresh' = [refresh EXCEPT ![t] =
                            [Sent(r, NoSession) EXCEPT !.retry = FALSE, !.race = 0]]
          /\ UNCHANGED holder
       \/ /\ refresh' = [refresh EXCEPT ![t].pc = "delay", ![t].race = r.race + 1,
                                           ![t].ans = "none"]
          /\ UNCHANGED holder
  BY Zenon DEF RefreshAnswered, Settled
<1> QED
  BY <1>8, <1>9, <1>10, <1>11

(* A request that was given up is handled: it makes tokens older only of a *)
(* session that is counted as lost, and is taken for a replay only if a    *)
(* rotation has overtaken it.                                              *)
LEMMA AbandonedLock ==
  ASSUME Typed, LockInv, NEW i \in Slot, AbandonedStep(i)
  PROVE  LockInv'
<1> USE DEF Typed
<1>1. /\ UNCHANGED holder /\ cookie'.sid = cookie.sid
      /\ \A u \in Tab : /\ refresh'[u].pc = refresh[u].pc
                        /\ refresh'[u].ans = refresh[u].ans
                        /\ refresh'[u].tok.sid = refresh[u].tok.sid
  BY AbandonedKeeps
<1>2. \A j \in Slot : late[j] \in Token
  BY DEF RestType
<1>3. \A u \in Tab : (Active(u) => holder = u)'
  BY <1>1 DEF LockInv, Active
<1>4. CASE AbandonedIgnored(i)
  <2>1. /\ UNCHANGED <<refresh, cookie, lost, reused>>
        /\ late' = [late EXCEPT ![i] = NoToken]
    BY <1>4 DEF AbandonedIgnored
  <2>2. LateOK'
    BY <2>1, NothingTyped DEF LockInv, LateOK, RestType
  <2> QED
    BY <1>3, <2>1, <2>2 DEF LockInv, CookieOK
<1>5. CASE AbandonedReused(i)
  <2>1. /\ UNCHANGED <<refresh, cookie, lost>> /\ reused' = reused \cup {late[i].sid}
        /\ late' = [late EXCEPT ![i] = NoToken] /\ late[i].age = 1
    BY <1>5 DEF AbandonedReused
  <2>2. LateOK' /\ late[i].sid \in lost
    BY <2>1, NothingTyped DEF LockInv, LateOK, RestType
  <2> QED
    BY <1>3, <2>1, <2>2 DEF LockInv, CookieOK
<1>6. CASE AbandonedRotates(i)
  <2> DEFINE s == late[i].sid
  <2>1. /\ lost' = lost \cup {s} /\ UNCHANGED reused
        /\ cookie' = Older(cookie, s)
        /\ late' = [j \in Slot |-> IF j = i THEN NoToken ELSE Older(late[j], s)]
        /\ refresh' = [u \in Tab |-> [refresh[u] EXCEPT !.tok = Older(refresh[u].tok, s)]]
    BY <1>6 DEF AbandonedRotates, Aged
  <2> HIDE DEF s
  <2>2. \A k \in Token : (k.sid \in lost \/ k.age = 0) =>
           (Older(k, s).sid \in lost' \/ Older(k, s).age = 0)
    <3>1. ASSUME NEW k \in Token, k.sid \in lost \/ k.age = 0
          PROVE  Older(k, s).sid \in lost' \/ Older(k, s).age = 0
      <4>1. CASE k.sid = s
        BY <2>1, <4>1, OlderTyped
      <4>2. CASE k.sid # s
        BY <2>1, <3>1, <4>2, OlderTyped
      <4> QED
        BY <4>1, <4>2
    <3> QED
      BY <3>1
  <2>3. LateOK'
    <3>1. ASSUME NEW j \in Slot PROVE late'[j].sid \in lost' \/ late'[j].age = 0
      <4>1. CASE j = i
        BY <2>1, <4>1, NothingTyped
      <4>2. CASE j # i
        BY <1>2, <2>1, <2>2, <4>2 DEF LockInv, LateOK
      <4> QED
        BY <4>1, <4>2
    <3> QED
      BY <3>1 DEF LateOK
  <2>4. \A u \in Tab : refresh'[u].tok = Older(refresh[u].tok, s) /\ refresh[u].tok \in Token
    BY <2>1, OlderRefreshes DEF RefreshType, Refresh
  <2>5. \A u \in Tab : refresh'[u].pc \in {"sent", "answered"} =>
          refresh'[u].tok.sid \in lost' \/ refresh'[u].tok.age = 0
    BY <1>1, <2>2, <2>4 DEF LockInv
  <2>6. CookieOK'
    <3>1. CASE cookie.sid \in lost \/ cookie.age = 0
      BY <2>1, <2>2, <3>1 DEF CookieOK, BrowserType
    <3>2. CASE \E u \in Tab : refresh[u].ans = "ok" /\ refresh[u].tok.sid = cookie.sid
      BY <1>1, <3>2 DEF CookieOK
    <3> QED
      BY <3>1, <3>2 DEF LockInv, CookieOK
  <2>7. reused' \subseteq lost'
    BY <2>1 DEF LockInv
  <2> QED
    BY <1>3, <2>3, <2>5, <2>6, <2>7 DEF LockInv
<1> QED
  BY <1>4, <1>5, <1>6 DEF AbandonedStep

(* Every step keeps it.                                                    *)
LEMMA LockStep ==
  ASSUME Typed, LockInv, [Next]_vars, HasLocks
  PROVE  LockInv'
<1> USE DEF Typed
<1>1. ASSUME NEW t \in Tab, bootstrapAuthentication(t) PROVE LockInv'
  <2>1. \A u \in Tab : CalmRefresh(u)
    <3>1. UNCHANGED refresh \/ refresh' = refreshAuthentication(t)
      BY <1>1 DEF bootstrapAuthentication
    <3> QED
      BY <3>1, BeginCalm DEF CalmRefresh
  <2>2. UNCHANGED <<holder, late, lost, reused>> /\ (cookie' = cookie \/ cookie'.age = 0)
    BY <1>1 DEF bootstrapAuthentication, serverVars
  <2> QED
    BY <2>1, <2>2, CalmLock
<1>2. ASSUME NEW t \in Tab, getFreshAuthHeaders(t) PROVE LockInv'
  <2>1. \A u \in Tab : CalmRefresh(u)
    <3>1. UNCHANGED refresh \/ refresh' = refreshAuthentication(t)
      BY <1>2 DEF getFreshAuthHeaders
    <3> QED
      BY <3>1, BeginCalm DEF CalmRefresh
  <2>2. UNCHANGED <<holder, late, lost, reused>> /\ (cookie' = cookie \/ cookie'.age = 0)
    BY <1>2 DEF getFreshAuthHeaders, serverVars
  <2> QED
    BY <2>1, <2>2, CalmLock
<1>3. ASSUME NEW t \in Tab, ApiReceives401(t) PROVE LockInv'
  <2>1. \A u \in Tab : CalmRefresh(u)
    <3>1. UNCHANGED refresh \/ refresh' = refreshAuthentication(t)
      BY <1>3 DEF ApiReceives401
    <3> QED
      BY <3>1, BeginCalm DEF CalmRefresh
  <2>2. UNCHANGED <<holder, late, lost, reused>> /\ (cookie' = cookie \/ cookie'.age = 0)
    BY <1>3 DEF ApiReceives401, serverVars
  <2> QED
    BY <2>1, <2>2, CalmLock
<1>4. ASSUME NEW t \in Tab, Logout(t) PROVE LockInv'
  <2>1. UNCHANGED <<refresh, holder, cookie, late, lost, reused>>
    BY <1>4 DEF Logout, serverVars
  <2> QED
    BY <2>1, CalmLock DEF CalmRefresh
<1>5. ASSUME NEW t \in Tab, AuthLogout(t) PROVE LockInv'
  <2>1. UNCHANGED <<refresh, holder, cookie, late, lost, reused>>
    BY <1>5 DEF AuthLogout, serverVars
  <2> QED
    BY <2>1, CalmLock DEF CalmRefresh
<1>6. ASSUME NEW t \in Tab, ReplayAccepted(t) PROVE LockInv'
  <2>1. UNCHANGED <<refresh, holder, cookie, late, lost, reused>>
    BY <1>6 DEF ReplayAccepted, serverVars
  <2> QED
    BY <2>1, CalmLock DEF CalmRefresh
<1>7. ASSUME NEW t \in Tab, ReplayRejected(t) PROVE LockInv'
  <2>1. UNCHANGED <<refresh, holder, cookie, late, lost, reused>>
    BY <1>7 DEF ReplayRejected, serverVars
  <2> QED
    BY <2>1, CalmLock DEF CalmRefresh
<1>8. ASSUME NEW t \in Tab, OpFails(t) PROVE LockInv'
  <2>1. UNCHANGED <<refresh, holder, cookie, late, lost, reused>>
    BY <1>8 DEF OpFails, serverVars
  <2> QED
    BY <2>1, CalmLock DEF CalmRefresh
<1>9. ASSUME NEW t \in Tab, AccessExpires(t) PROVE LockInv'
  <2>1. UNCHANGED <<refresh, holder, cookie, late, lost, reused>>
    BY <1>9 DEF AccessExpires, serverVars
  <2> QED
    BY <2>1, CalmLock DEF CalmRefresh
<1>10. ASSUME NEW t \in Tab, NEW x \in Session, createLoginSession(t, x) PROVE LockInv'
  <2>1. UNCHANGED <<refresh, holder, cookie, late, lost, reused>>
    BY <1>10 DEF createLoginSession
  <2> QED
    BY <2>1, CalmLock DEF CalmRefresh
<1>11. ASSUME NEW x \in Session, RevokeUserSession(x) PROVE LockInv'
  <2>1. UNCHANGED <<refresh, holder, cookie, late, lost, reused>>
    BY <1>11 DEF RevokeUserSession
  <2> QED
    BY <2>1, CalmLock DEF CalmRefresh
<1>12. ASSUME NEW t \in Tab, AdvanceCurrentSessionSecurity(t) PROVE LockInv'
  <2>1. \A u \in Tab : CalmRefresh(u)
    <3>1. \A u \in Tab : /\ refresh'[u].tok = refresh[u].tok /\ refresh'[u].ans = refresh[u].ans
                         /\ refresh'[u].pc = refresh[u].pc
      BY <1>12 DEF AdvanceCurrentSessionSecurity, RefreshType, Refresh
    <3> QED
      BY <3>1 DEF CalmRefresh
  <2>2. UNCHANGED <<holder, late, lost, reused>> /\ (cookie' = cookie \/ cookie'.age = 0)
    BY <1>12 DEF AdvanceCurrentSessionSecurity
  <2> QED
    BY <2>1, <2>2, CalmLock
<1>13. ASSUME NEW t \in Tab, LogoutMismatch(t) PROVE LockInv'
  <2>1. \A u \in Tab : CalmRefresh(u)
    <3>1. UNCHANGED refresh \/ refresh' = refreshAuthentication(t)
      BY <1>13 DEF LogoutMismatch
    <3> QED
      BY <3>1, BeginCalm DEF CalmRefresh
  <2>2. UNCHANGED <<holder, late, lost, reused>> /\ (cookie' = cookie \/ cookie'.age = 0)
    BY <1>13 DEF LogoutMismatch, serverVars
  <2> QED
    BY <2>1, <2>2, CalmLock
<1>14. ASSUME NEW t \in Tab, ReplayReceives401(t) PROVE LockInv'
  <2>1. \A u \in Tab : CalmRefresh(u)
    <3>1. refresh' = Superseded(t) \/ UNCHANGED refresh
      BY <1>14 DEF ReplayReceives401
    <3> QED
      BY <3>1, SupersededTyped DEF RefreshType, CalmRefresh
  <2>2. UNCHANGED <<holder, late, lost, reused>> /\ (cookie' = cookie \/ cookie'.age = 0)
    BY <1>14 DEF ReplayReceives401, serverVars
  <2> QED
    BY <2>1, <2>2, CalmLock
<1>15. ASSUME NEW t \in Tab, applyAuthRotation(t) PROVE LockInv'
  <2>1. \A u \in Tab : CalmRefresh(u)
    <3>1. refresh' = Superseded(t) \/ UNCHANGED refresh
      BY <1>15 DEF applyAuthRotation
    <3> QED
      BY <3>1, SupersededTyped DEF RefreshType, CalmRefresh
  <2>2. UNCHANGED <<holder, late, lost, reused>> /\ (cookie' = cookie \/ cookie'.age = 0)
    BY <1>15 DEF applyAuthRotation, serverVars
  <2> QED
    BY <2>1, <2>2, CalmLock
<1>16. ASSUME NEW t \in Tab, handleLoginSuccess(t) PROVE LockInv'
  <2>1. \A u \in Tab : CalmRefresh(u)
    <3>1. refresh' = Superseded(t) \/ UNCHANGED refresh
      BY <1>16 DEF handleLoginSuccess
    <3> QED
      BY <3>1, SupersededTyped DEF RefreshType, CalmRefresh
  <2>2. UNCHANGED <<holder, late, lost, reused>> /\ (cookie' = cookie \/ cookie'.age = 0)
    BY <1>16 DEF handleLoginSuccess, serverVars
  <2> QED
    BY <2>1, <2>2, CalmLock
<1>17. ASSUME NEW t \in Tab, handleSignOut(t) PROVE LockInv'
  <2>1. \A u \in Tab : CalmRefresh(u)
    <3>1. refresh' = Superseded(t) \/ UNCHANGED refresh
      BY <1>17 DEF handleSignOut
    <3> QED
      BY <3>1, SupersededTyped DEF RefreshType, CalmRefresh
  <2>2. UNCHANGED <<holder, late, lost, reused>> /\ (cookie' = cookie \/ cookie'.age = 0)
    BY <1>17, NothingTyped DEF handleSignOut, serverVars
  <2> QED
    BY <2>1, <2>2, CalmLock
<1>18. ASSUME NEW t \in Tab, redirectToSignIn(t) PROVE LockInv'
  <2>1. CASE Reloaded(t)
    BY <1>18, <2>1, ReloadedLock DEF redirectToSignIn
  <2>2. CASE UNCHANGED <<refresh, holder, late, lost>>
    <3>1. UNCHANGED <<refresh, holder, cookie, late, lost, reused>>
      BY <1>18, <2>2 DEF redirectToSignIn
    <3> QED
      BY <3>1, CalmLock DEF CalmRefresh
  <2> QED
    BY <1>18, <2>1, <2>2 DEF redirectToSignIn
<1>19. ASSUME NEW t \in Tab, UserReloads(t) PROVE LockInv'
  BY <1>19, ReloadedLock DEF UserReloads
<1>20. ASSUME NEW t \in Tab, ReceiveEvent(t) PROVE LockInv'
  <2>1. UNCHANGED <<cookie, reused>>
    BY <1>20 DEF ReceiveEvent
  <2>2. CASE Reloaded(t)
    BY <2>1, <2>2, ReloadedLock
  <2>3. CASE refresh' \in {refresh, Superseded(t)} /\ UNCHANGED <<holder, late, lost>>
    <3>1. \A u \in Tab : CalmRefresh(u)
      BY <2>3, SupersededTyped DEF RefreshType, CalmRefresh
    <3> QED
      BY <2>1, <2>3, <3>1, CalmLock
  <2> QED
    BY <1>20, <2>2, <2>3 DEF ReceiveEvent
<1>21. ASSUME NEW t \in Tab, performRefreshWithBrowserLock(t) PROVE LockInv'
  <2>1. holder = NoTab /\ \A u \in Tab : ~Active(u)
    BY <1>21, AuthSessionAssumption DEF performRefreshWithBrowserLock, LockFree, LockInv
  <2>2. refresh[t].pc \in {"lock", "delay"} /\ UNCHANGED <<cookie, late, lost, reused>>
    BY <1>21 DEF performRefreshWithBrowserLock, serverVars
  <2>3. \A u \in Tab : refresh[u].ans # "ok"
    BY <2>1, <2>2 DEF Active, RefreshType
  <2>4. cookie.sid \in lost \/ cookie.age = 0
    BY <2>3 DEF LockInv, CookieOK
  <2>5. CookieOK' /\ LateOK' /\ reused' \subseteq lost'
    BY <2>2, <2>4 DEF CookieOK, LateOK, LockInv
  <2>6. CASE refresh[t].current
    <3> DEFINE k == Sent(refresh[t], tab[t].sid)
    <3>1. k.pc = "sent" /\ k.tok = cookie
      BY SentTyped DEF RefreshType, BrowserType, TabType, Store
    <3>2. refresh' = [refresh EXCEPT ![t] = k] /\ holder' = t
      BY <1>21, <2>1, <2>6 DEF performRefreshWithBrowserLock
    <3> HIDE DEF k
    <3>3. /\ refresh'[t].pc = "sent" /\ refresh'[t].tok = cookie
          /\ \A u \in Tab \ {t} : refresh'[u].pc = refresh[u].pc
      BY <3>1, <3>2 DEF RefreshType
    <3> QED
      BY <2>1, <2>2, <2>4, <2>5, <3>2, <3>3, OneActive
  <2>7. CASE ~refresh[t].current
    <3>1. Settled(t, "transient", tab[t], cookie)
      BY <1>21, <2>7 DEF performRefreshWithBrowserLock
    <3>2. /\ refresh'[t].pc = "none"
          /\ \A u \in Tab \ {t} : refresh'[u].pc = refresh[u].pc
      BY <3>1, NothingTyped DEF Settled, RefreshType
    <3> QED
      BY <2>1, <2>5, <3>2, OneActive DEF Active
  <2> QED
    BY <2>6, <2>7
<1>22. ASSUME NEW t \in Tab, RaceRetry(t) PROVE LockInv'
  <2>1. holder = t /\ \A u \in Tab \ {t} : ~Active(u)
    BY <1>22 DEF RaceRetry, Active, LockInv
  <2>2. refresh[t].pc \in {"lock", "delay"} /\ UNCHANGED <<cookie, late, lost, reused>>
    BY <1>22 DEF RaceRetry, serverVars
  <2>3. \A u \in Tab : refresh[u].ans # "ok"
    BY <2>1, <2>2 DEF Active, RefreshType
  <2>4. cookie.sid \in lost \/ cookie.age = 0
    BY <2>3 DEF LockInv, CookieOK
  <2>5. CookieOK' /\ LateOK' /\ reused' \subseteq lost'
    BY <2>2, <2>4 DEF CookieOK, LateOK, LockInv
  <2>6. CASE refresh[t].current
    <3> DEFINE k == Sent(refresh[t], tab[t].sid)
    <3>1. k.pc = "sent" /\ k.tok = cookie
      BY SentTyped DEF RefreshType, BrowserType, TabType, Store
    <3>2. refresh' = [refresh EXCEPT ![t] = k] /\ holder' = t
      BY <1>22, <2>1, <2>6 DEF RaceRetry
    <3> HIDE DEF k
    <3>3. /\ refresh'[t].pc = "sent" /\ refresh'[t].tok = cookie
          /\ \A u \in Tab \ {t} : refresh'[u].pc = refresh[u].pc
      BY <3>1, <3>2 DEF RefreshType
    <3> QED
      BY <2>1, <2>2, <2>4, <2>5, <3>2, <3>3, OneActive
  <2>7. CASE ~refresh[t].current
    <3>1. Settled(t, "transient", tab[t], cookie)
      BY <1>22, <2>7 DEF RaceRetry
    <3>2. /\ refresh'[t].pc = "none"
          /\ \A u \in Tab \ {t} : refresh'[u].pc = refresh[u].pc
      BY <3>1, NothingTyped DEF Settled, RefreshType
    <3> QED
      BY <2>1, <2>5, <3>2, OneActive DEF Active
  <2> QED
    BY <2>6, <2>7
<1>23. ASSUME NEW t \in Tab, RefreshDenied(t) PROVE LockInv'
  <2>1. Active(t) /\ refresh[t].pc = "sent"
    BY <1>23 DEF RefreshDenied, Known, Active
  <2>2. holder = t /\ \A u \in Tab \ {t} : ~Active(u)
    BY <2>1 DEF LockInv
  <2>3. \A u \in Tab \ {t} : refresh[u].ans # "ok"
    BY <2>2 DEF Active, RefreshType
  <2>4. cookie.sid \in lost \/ cookie.age = 0
    BY <2>1, <2>3 DEF LockInv, CookieOK, RefreshType
  <2>5. \E a \in Answer : refresh' = [refresh EXCEPT ![t] = Reply(t, a, NoToken)]
    BY <1>23 DEF RefreshDenied, Answer
  <2>6. UNCHANGED <<cookie, late, lost, holder>>
    BY <1>23 DEF RefreshDenied, serverVars
  <2>7. LateOK' /\ reused' \subseteq lost'
    BY <1>23, <2>6 DEF RefreshDenied, serverVars, LockInv, LateOK
  <2>8. /\ refresh'[t].pc = "answered" /\ refresh'[t].tok.age = 0
        /\ \A u \in Tab \ {t} : refresh'[u].pc = refresh[u].pc
    BY <2>5, ReplyTyped, NothingTyped DEF RefreshType
  <2> QED
    BY <2>2, <2>4, <2>6, <2>7, <2>8, OneActive DEF CookieOK
<1>24. ASSUME NEW t \in Tab, RefreshMismatch(t) PROVE LockInv'
  <2>1. Active(t) /\ refresh[t].pc = "sent"
    BY <1>24 DEF RefreshMismatch, Known, Active
  <2>2. holder = t /\ \A u \in Tab \ {t} : ~Active(u)
    BY <2>1 DEF LockInv
  <2>3. \A u \in Tab \ {t} : refresh[u].ans # "ok"
    BY <2>2 DEF Active, RefreshType
  <2>4. cookie.sid \in lost \/ cookie.age = 0
    BY <2>1, <2>3 DEF LockInv, CookieOK, RefreshType
  <2>5. \E a \in Answer : refresh' = [refresh EXCEPT ![t] = Reply(t, a, NoToken)]
    BY <1>24 DEF RefreshMismatch, Answer
  <2>6. UNCHANGED <<cookie, late, lost, holder>>
    BY <1>24 DEF RefreshMismatch, serverVars
  <2>7. LateOK' /\ reused' \subseteq lost'
    BY <1>24, <2>6 DEF RefreshMismatch, serverVars, LockInv, LateOK
  <2>8. /\ refresh'[t].pc = "answered" /\ refresh'[t].tok.age = 0
        /\ \A u \in Tab \ {t} : refresh'[u].pc = refresh[u].pc
    BY <2>5, ReplyTyped, NothingTyped DEF RefreshType
  <2> QED
    BY <2>2, <2>4, <2>6, <2>7, <2>8, OneActive DEF CookieOK
<1>25. ASSUME NEW t \in Tab, RefreshReused(t) PROVE LockInv'
  <2>1. Active(t) /\ refresh[t].pc = "sent"
    BY <1>25 DEF RefreshReused, Known, Active
  <2>2. holder = t /\ \A u \in Tab \ {t} : ~Active(u)
    BY <2>1 DEF LockInv
  <2>3. \A u \in Tab \ {t} : refresh[u].ans # "ok"
    BY <2>2 DEF Active, RefreshType
  <2>4. cookie.sid \in lost \/ cookie.age = 0
    BY <2>1, <2>3 DEF LockInv, CookieOK, RefreshType
  <2>5. \E a \in Answer : refresh' = [refresh EXCEPT ![t] = Reply(t, a, NoToken)]
    BY <1>25 DEF RefreshReused, Answer
  <2>6. UNCHANGED <<cookie, late, lost, holder>>
    BY <1>25 DEF RefreshReused, serverVars
  <2>7. LateOK' /\ reused' \subseteq lost'
    <3>1. refresh[t].tok.sid \in lost
      BY <1>25 DEF RefreshReused, Known, LockInv
    <3> QED
      BY <1>25, <2>6, <3>1 DEF RefreshReused, LockInv, LateOK
  <2>8. /\ refresh'[t].pc = "answered" /\ refresh'[t].tok.age = 0
        /\ \A u \in Tab \ {t} : refresh'[u].pc = refresh[u].pc
    BY <2>5, ReplyTyped, NothingTyped DEF RefreshType
  <2> QED
    BY <2>2, <2>4, <2>6, <2>7, <2>8, OneActive DEF CookieOK
<1>26. ASSUME NEW t \in Tab, RotateUserSessionRefresh(t) PROVE LockInv'
  <2>1. Active(t) /\ refresh[t].pc = "sent" /\ refresh[t].tok.age = 0
    BY <1>26 DEF RotateUserSessionRefresh, Known, Active
  <2>2. holder = t /\ \A u \in Tab \ {t} : ~Active(u)
    BY <2>1 DEF LockInv
  <2>3. \A u \in Tab \ {t} : refresh[u].ans # "ok"
    BY <2>2 DEF Active, RefreshType
  <2>4. cookie.sid \in lost \/ cookie.age = 0
    BY <2>1, <2>3 DEF LockInv, CookieOK, RefreshType
  <2> DEFINE k == Reply(t, "ok", refresh[t].tok)
           n(u) == [refresh[u] EXCEPT !.tok = Older(refresh[u].tok, refresh[t].tok.sid)]
  <2>5. refresh[t].tok \in Token /\ cookie \in Token
    BY DEF RefreshType, Refresh, BrowserType
  <2>6. k.pc = "answered" /\ k.ans = "ok" /\ k.tok = refresh[t].tok
    BY <2>5, ReplyTyped DEF RefreshType, Answer
  <2>7. \A u \in Tab : n(u).pc = refresh[u].pc
    BY DEF RefreshType, Refresh
  <2>8. refresh' = [u \in Tab |-> IF u = t THEN k ELSE n(u)]
    BY <1>26 DEF RotateUserSessionRefresh
  <2> HIDE DEF k, n
  <2>9. /\ refresh'[t].pc = "answered" /\ refresh'[t].ans = "ok"
        /\ refresh'[t].tok = refresh[t].tok
        /\ \A u \in Tab \ {t} : refresh'[u].pc = refresh[u].pc
    BY <2>6, <2>7, <2>8
  <2>10. /\ UNCHANGED <<holder, reused>> /\ cookie' = Older(cookie, refresh[t].tok.sid)
         /\ lost \subseteq lost' /\ late' = [i \in Slot |-> Older(late[i], refresh[t].tok.sid)]
         /\ \A i \in Slot : late[i].sid = refresh[t].tok.sid => refresh[t].tok.sid \in lost'
    BY <1>26 DEF RotateUserSessionRefresh, Aged
  <2>11. CookieOK'
    <3>1. CASE cookie.sid = refresh[t].tok.sid
      BY <2>5, <2>9, <2>10, <3>1, OlderTyped DEF CookieOK
    <3>2. CASE cookie.sid # refresh[t].tok.sid
      BY <2>4, <2>5, <2>10, <3>2, OlderTyped DEF CookieOK
    <3> QED
      BY <3>1, <3>2
  <2>12. reused' \subseteq lost'
    BY <2>10 DEF LockInv
  <2>13. LateOK'
    <3>1. ASSUME NEW i \in Slot PROVE late'[i].sid \in lost' \/ late'[i].age = 0
      <4>1. late[i] \in Token /\ late'[i] = Older(late[i], refresh[t].tok.sid)
        BY <2>10 DEF RestType
      <4>2. CASE late[i].sid = refresh[t].tok.sid
        BY <2>10, <4>1, <4>2, OlderTyped
      <4>3. CASE late[i].sid # refresh[t].tok.sid
        BY <2>10, <4>1, <4>3, OlderTyped DEF LockInv, LateOK
      <4> QED
        BY <4>2, <4>3
    <3> QED
      BY <3>1 DEF LateOK
  <2> QED
    BY <2>1, <2>2, <2>9, <2>10, <2>11, <2>12, <2>13, OneActive
<1>27. ASSUME NEW t \in Tab, RefreshReplayed(t) PROVE LockInv'
  <2>1. Active(t) /\ refresh[t].pc = "sent"
    BY <1>27 DEF RefreshReplayed, Known, Active
  <2>2. holder = t /\ \A u \in Tab \ {t} : ~Active(u)
    BY <2>1 DEF LockInv
  <2>3. \A u \in Tab \ {t} : refresh[u].ans # "ok"
    BY <2>2 DEF Active, RefreshType
  <2>4. cookie.sid \in lost \/ cookie.age = 0
    BY <2>1, <2>3 DEF LockInv, CookieOK, RefreshType
  <2> DEFINE k == [refresh[t].tok EXCEPT !.age = 0]
  <2>5. k \in Token /\ k.age = 0
    BY DEF RefreshType, Refresh, Token
  <2>6. refresh' = [refresh EXCEPT ![t] = Reply(t, "ok", k)]
    BY <1>27 DEF RefreshReplayed
  <2> HIDE DEF k
  <2>7. /\ refresh'[t].pc = "answered" /\ refresh'[t].tok.age = 0
        /\ \A u \in Tab \ {t} : refresh'[u].pc = refresh[u].pc
    BY <2>5, <2>6, ReplyTyped DEF RefreshType, Answer
  <2>8. UNCHANGED <<holder, cookie, late, lost, reused>>
    BY <1>27 DEF RefreshReplayed, serverVars
  <2>9. CookieOK' /\ LateOK' /\ reused' \subseteq lost'
    BY <2>4, <2>8 DEF CookieOK, LateOK, LockInv
  <2> QED
    BY <2>2, <2>7, <2>8, <2>9, OneActive
<1>28. ASSUME NEW t \in Tab, RefreshFails(t) PROVE LockInv'
  <2>1. Active(t) /\ refresh[t].pc \in {"sent", "answered"}
    BY <1>28 DEF RefreshFails, Known, Active
  <2>2. holder = t /\ \A u \in Tab \ {t} : ~Active(u)
    BY <2>1 DEF LockInv
  <2>3. \A u \in Tab \ {t} : refresh[u].ans # "ok"
    BY <2>2 DEF Active, RefreshType
  <2>4. \E a \in Answer : refresh' = [refresh EXCEPT ![t] = Reply(t, a, NoToken)]
    BY <1>28 DEF RefreshFails, Answer
  <2>5. /\ refresh'[t].pc = "answered" /\ refresh'[t].tok.age = 0
        /\ \A u \in Tab \ {t} : refresh'[u].pc = refresh[u].pc
    BY <2>4, ReplyTyped, NothingTyped DEF RefreshType
  <2>6. /\ UNCHANGED <<holder, cookie, reused>> /\ lost \subseteq lost'
        /\ refresh[t].ans = "ok" => refresh[t].tok.sid \in lost'
    BY <1>28 DEF RefreshFails
  <2>7. cookie'.sid \in lost' \/ cookie'.age = 0
    BY <2>3, <2>6 DEF LockInv, CookieOK
  <2>8. CookieOK' /\ reused' \subseteq lost'
    BY <2>6, <2>7 DEF CookieOK, LockInv
  <2>9. LateOK'
    <3>1. \A i \in Slot : \/ late'[i] = late[i]
                          \/ refresh[t].pc = "sent" /\ late'[i] = refresh[t].tok
      BY <1>28, AbandonedTyped DEF RefreshFails, RestType
    <3> QED
      BY <2>6, <3>1 DEF LockInv, LateOK
  <2> QED
    BY <2>2, <2>5, <2>6, <2>8, <2>9, OneActive
<1>29. ASSUME NEW t \in Tab, RefreshAnswered(t) PROVE LockInv'
  BY <1>29, AnsweredLock
<1>30. CASE UNCHANGED vars
  <2>1. UNCHANGED <<refresh, holder, cookie, late, lost, reused>>
    BY <1>30 DEF vars, serverVars
  <2> QED
    BY <2>1, CalmLock DEF CalmRefresh
<1>31. ASSUME NEW i \in Slot, AbandonedStep(i) PROVE LockInv'
  BY <1>31, AbandonedLock
<1> QED
  BY <1>1, <1>2, <1>3, <1>4, <1>5, <1>6, <1>7, <1>8, <1>9, <1>10, <1>11,
     <1>12, <1>13, <1>14, <1>15, <1>16, <1>17, <1>18, <1>19, <1>20, <1>21,
     <1>22, <1>23, <1>24, <1>25, <1>26, <1>27, <1>28, <1>29, <1>30, <1>31
     DEF Next, RefreshStep, OpStep, RefreshLoginSession

(* In a browser with locks, a session is revoked as stolen only if the     *)
(* browser was never told of one of its rotations, or if a page gave up a  *)
(* request for it that a rotation overtook before the server handled it:   *)
(* tabs that refresh together, and wait for their answers, never present a *)
(* token the server holds for a replay.                                    *)
THEOREM OnlyLossLooksLikeTheft == Spec => []ReuseNeedsLoss
<1>1. Init => Typed /\ (HasLocks => LockInv)
  <2>1. Init => LockInv
    <3> SUFFICES ASSUME Init PROVE LockInv
      OBVIOUS
    <3>1. /\ cookie.age = 0 /\ reused = {} /\ \A u \in Tab : refresh[u].pc = "none"
          /\ \A i \in Slot : late[i].age = 0
      BY NothingTyped DEF Init
    <3> QED
      BY <3>1 DEF LockInv, CookieOK, LateOK, Active
  <2> QED
    BY <2>1, InitTyped
<1>2. Typed /\ (HasLocks => LockInv) /\ [Next]_vars => Typed' /\ (HasLocks => LockInv)'
  BY TypeStep, LockStep
<1>3. (HasLocks => LockInv) => ReuseNeedsLoss
  BY DEF LockInv, ReuseNeedsLoss
<1> QED
  BY <1>1, <1>2, <1>3, PTL DEF Spec
=============================================================================
