------------------------- MODULE HmiOperations_proofs -------------------------
(* Proofs about the pages that operate the daemon: accounts, sessions, the    *)
(* alarm log, tuning proposals, projects and the OPC-UA connection. Each has  *)
(* an inductive invariant, named <page>Inv, that its Init implies and each of *)
(* its steps keeps; the theorems follow from it.                              *)
EXTENDS Accounts, Sessions, AlarmCenter, TuningDesk, ProjectDesk, OpcuaDesk,
        FiniteSetTheorems, TLAPS

-----------------------------------------------------------------------------
(* Accounts.                                                              *)

\* The calls of the model, and the accounts of its roster.
CallTypes == [b : Browsers \union {Nobody}, tok : Tokens,
              op : RosterOps \union {"login", "me"}, on : Accts \union {0},
              stage : Stages, got : Roles, raced : SUBSET {"gate", "check"}]
AccountRecs == [role : Roles, active : BOOLEAN]

\* What holds of a call, given the roster.
CallSound(c, r) ==
    /\ c.b = Nobody => c.stage \notin Final
    /\ c.stage \in {"passed", "checked"} => c.op \in RosterOps
    /\ c.stage \in {"passed", "checked"} /\ "gate" \notin c.raced =>
          c.tok \in Accts /\ IsActiveAdmin(r[c.tok])
    /\ c.stage = "checked" /\ "check" \notin c.raced /\ Narrows(c.op) /\ c.on \in ActiveAdmins(r) =>
          \E a \in ActiveAdmins(r) : a # c.on

\* The inductive invariant: the types, and what holds of each call.
AcctInv == AcctTypeOK /\ \A c \in calls : CallSound(c, roster)

\* The fields of a call.
LEMMA CallFields ==
  ASSUME NEW c \in CallTypes
  PROVE  /\ c.b \in Browsers \union {Nobody} /\ c.tok \in Tokens
         /\ c.op \in RosterOps \union {"login", "me"} /\ c.on \in Accts \union {0}
         /\ c.stage \in Stages /\ c.got \in Roles /\ c.raced \in SUBSET {"gate", "check"}
BY DEF CallTypes

\* A call just sent has passed nothing yet.
LEMMA SentCall ==
  ASSUME NEW b \in Browsers \union {Nobody}, NEW tok \in Tokens, NEW r,
         NEW op \in RosterOps \union {"login", "me"}, NEW on \in Accts \union {0}
  PROVE  LET c == Call(b, tok, op, on)
         IN  c \in CallTypes /\ c.stage = "sent" /\ CallSound(c, r)
<1> DEFINE c == Call(b, tok, op, on)
<1>1. c \in CallTypes
  BY DEF Call, CallTypes, Stages, Roles
<1>2. c.stage = "sent"
  BY DEF Call
<1> HIDE DEF c
<1>3. CallSound(c, r)
  BY <1>2 DEF CallSound, Final
<1> QED
  BY <1>1, <1>2, <1>3 DEF c

\* A call keeps its other fields as it moves to another stage.
LEMMA Staged ==
  ASSUME NEW c \in CallTypes, NEW s \in Stages
  PROVE  LET d == [c EXCEPT !.stage = s]
         IN  /\ d \in CallTypes /\ d.stage = s /\ d.b = c.b /\ d.tok = c.tok /\ d.op = c.op
             /\ d.on = c.on /\ d.raced = c.raced
BY DEF CallTypes

\* A call that becomes another one.
LEMMA BecomesSound ==
  ASSUME NEW c, NEW d \in CallTypes, AcctInv, Becomes(c, d), UNCHANGED roster,
         session' \in [Browsers -> Tokens], me' \in [Browsers -> [id : Accts \union {0}, role : Roles]],
         d.stage \notin Final => CallSound(d, roster)
  PROVE  AcctInv'
<1>1. calls' \subseteq calls \union {Remembered(d)}
      /\ (Remembered(d) \in calls' => Remembered(d) \in calls \/ d.b # Nobody \/ d.stage \notin Final)
  BY DEF Becomes, Kept
<1>2. Remembered(d) \in CallTypes /\ Remembered(d).b = d.b /\ Remembered(d).stage = d.stage
  BY DEF Remembered, CallTypes, Tokens
<1>3. d.b # Nobody \/ d.stage \notin Final => CallSound(Remembered(d), roster)
  <2>1. CASE d.stage \in Final
    BY <1>2, <2>1 DEF CallSound, Final
  <2>2. CASE d.stage \notin Final
    <3>1. Remembered(d) = d
      BY <2>2 DEF Remembered
    <3> QED
      BY <2>2, <3>1
  <2> QED
    BY <2>1, <2>2
<1>4. \A e \in calls' : e \in CallTypes /\ CallSound(e, roster)
  BY <1>1, <1>2, <1>3 DEF AcctInv, AcctTypeOK, CallTypes
<1> QED
  BY <1>4 DEF AcctInv, AcctTypeOK, CallTypes

\* Calls that are dropped.
LEMMA FewerCalls ==
  ASSUME AcctInv, calls' \subseteq calls, UNCHANGED roster,
         session' \in [Browsers -> Tokens], me' \in [Browsers -> [id : Accts \union {0}, role : Roles]]
  PROVE  AcctInv'
BY DEF AcctInv, AcctTypeOK

\* Sending a call keeps the invariant.
LEMMA IssueSound ==
  ASSUME AcctInv, NEW c \in CallTypes, CallSound(c, roster), Issue(c), UNCHANGED <<roster, session, me>>
  PROVE  AcctInv'
BY DEF AcctInv, AcctTypeOK, Issue, CallTypes

\* The invariant holds at first.
LEMMA AcctInitInv == AcctInit => AcctInv
<1> SUFFICES ASSUME AcctInit PROVE AcctInv
  OBVIOUS
<1>1. \A c \in calls : c \in CallTypes /\ CallSound(c, roster)
  <2> SUFFICES ASSUME NEW b \in Browsers
               PROVE  /\ Call(b, session[b], "me", 0) \in CallTypes
                      /\ CallSound(Call(b, session[b], "me", 0), roster)
    BY DEF AcctInit
  <2> QED
    BY SentCall DEF AcctInit
<1>2. /\ roster \in [Accts -> AccountRecs] /\ session \in [Browsers -> Tokens]
      /\ me \in [Browsers -> [id : Accts \union {0}, role : Roles]]
  <2>1. roster \in [Accts -> [role : Roles, active : {TRUE}]]
    BY DEF AcctInit
  <2> QED
    BY <2>1 DEF AcctInit, NoUser, Roles, AccountRecs
<1> QED
  BY <1>1, <1>2 DEF AcctInv, AcctTypeOK, CallTypes, AccountRecs

\* A check that passes leaves another active administrator.
LEMMA AnotherAdmin ==
  ASSUME AcctTypeOK, NEW a \in ActiveAdmins(roster), ~(Cardinality(ActiveAdmins(roster)) <= 1)
  PROVE  \E b \in ActiveAdmins(roster) : b # a
<1>1. SUFFICES ASSUME ActiveAdmins(roster) = {a} PROVE FALSE
  OBVIOUS
<1>2. Cardinality({a}) = 1
  BY FS_Singleton
<1> QED
  BY <1>1, <1>2

\* What a change may do to an account.
LEMMA ChangedAccount ==
  ASSUME NEW u \in AccountRecs, NEW op \in RosterOps
  PROVE  /\ Changed(op, u) \in AccountRecs
         /\ ~Narrows(op) /\ IsActiveAdmin(u) => IsActiveAdmin(Changed(op, u))
<1>1. CASE op = "demote"
  BY <1>1 DEF Changed, AccountRecs, Narrows, Roles
<1>2. CASE op = "promote"
  BY <1>2 DEF Changed, AccountRecs, Narrows, Roles, IsActiveAdmin
<1>3. CASE op = "deactivate"
  BY <1>3 DEF Changed, AccountRecs, Narrows
<1>4. CASE op = "reactivate"
  BY <1>4 DEF Changed, AccountRecs, Narrows, Roles, IsActiveAdmin
<1> QED
  BY <1>1, <1>2, <1>3, <1>4 DEF RosterOps

\* The roster after a change: one account of it differs.
LEMMA ChangedRoster ==
  ASSUME AcctInv, NEW c \in calls, ApplyChange(c)
  PROVE  /\ c.stage = "checked" /\ c.op \in RosterOps
         /\ roster' \in [Accts -> AccountRecs]
         /\ \A a \in Accts : a # c.on => roster'[a] = roster[a]
         /\ ~Narrows(c.op) => ActiveAdmins(roster) \subseteq ActiveAdmins(roster')
<1>1. c.stage = "checked" /\ roster' = [roster EXCEPT ![c.on] = Changed(c.op, @)]
  BY DEF ApplyChange
<1>2. c.op \in RosterOps /\ roster \in [Accts -> AccountRecs]
  BY <1>1 DEF AcctInv, AcctTypeOK, CallSound, AccountRecs
<1>3. c.on \in Accts => /\ Changed(c.op, roster[c.on]) \in AccountRecs
                        /\ ~Narrows(c.op) /\ IsActiveAdmin(roster[c.on]) =>
                              IsActiveAdmin(Changed(c.op, roster[c.on]))
  BY <1>2, ChangedAccount
<1>4. roster' \in [Accts -> AccountRecs]
  BY <1>1, <1>2, <1>3
<1>5. /\ \A a \in Accts : a # c.on => roster'[a] = roster[a]
      /\ c.on \in Accts => roster'[c.on] = Changed(c.op, roster[c.on])
  BY <1>1, <1>2
<1>6. ASSUME ~Narrows(c.op), NEW a \in ActiveAdmins(roster) PROVE a \in ActiveAdmins(roster')
  BY <1>3, <1>5, <1>6 DEF ActiveAdmins
<1> QED
  BY <1>1, <1>2, <1>4, <1>5, <1>6

\* A change that is applied keeps the invariant: the calls past a gate or a
\* check that it undoes are marked raced.
LEMMA ApplySound ==
  ASSUME AcctInv, NEW c \in calls, ApplyChange(c)
  PROVE  AcctInv'
<1>1. /\ roster' \in [Accts -> AccountRecs] /\ session' = session /\ me' = me
      /\ calls' = {IF roster' = roster THEN d ELSE RacedBy(d) : d \in calls \ {c}}
                  \union Kept([c EXCEPT !.stage = "ok"])
  BY ChangedRoster DEF ApplyChange
<1>2. \A d \in calls : d \in CallTypes /\ CallSound(d, roster)
  BY DEF AcctInv, AcctTypeOK, CallTypes
<1>3. ASSUME NEW d \in calls PROVE RacedBy(d) \in CallTypes /\ CallSound(RacedBy(d), roster')
  <2>1. CASE d.stage = "passed"
    <3>1. RacedBy(d) = [d EXCEPT !.raced = @ \union {"gate"}]
      BY <2>1 DEF RacedBy
    <3>2. /\ RacedBy(d) \in CallTypes /\ RacedBy(d).stage = "passed" /\ RacedBy(d).op = d.op
          /\ "gate" \in RacedBy(d).raced
      BY <1>2, <2>1, <3>1 DEF CallTypes
    <3> QED
      BY <1>2, <2>1, <3>2 DEF CallSound, Final
  <2>2. CASE d.stage = "checked"
    <3>1. RacedBy(d) = [d EXCEPT !.raced = {"gate", "check"}]
      BY <2>2 DEF RacedBy
    <3>2. /\ RacedBy(d) \in CallTypes /\ RacedBy(d).stage = "checked" /\ RacedBy(d).op = d.op
          /\ RacedBy(d).raced = {"gate", "check"}
      BY <1>2, <2>2, <3>1 DEF CallTypes
    <3> QED
      BY <1>2, <2>2, <3>2 DEF CallSound, Final
  <2>3. CASE d.stage \notin {"passed", "checked"}
    <3>1. RacedBy(d) = d
      BY <1>2, <2>3 DEF RacedBy, CallTypes
    <3> QED
      BY <1>2, <2>3, <3>1 DEF CallSound
  <2> QED
    BY <2>1, <2>2, <2>3
<1>4. ASSUME NEW e \in Kept([c EXCEPT !.stage = "ok"])
      PROVE  e \in CallTypes /\ CallSound(e, roster')
  <2> DEFINE d == [c EXCEPT !.stage = "ok"]
  <2>1. d \in CallTypes /\ d.stage = "ok" /\ d.b = c.b
    BY <1>2, Staged DEF Stages, Final
  <2> HIDE DEF d
  <2>2. e = Remembered(d) /\ d.b # Nobody
    BY <1>4, <2>1 DEF Kept, d, Final
  <2>3. e \in CallTypes /\ e.stage = "ok" /\ e.b = d.b
    BY <2>1, <2>2 DEF Remembered, CallTypes, Tokens
  <2> QED
    BY <2>2, <2>3 DEF CallSound
<1>5. \A e \in calls' : e \in CallTypes /\ CallSound(e, roster')
  <2> SUFFICES ASSUME NEW e \in calls' PROVE e \in CallTypes /\ CallSound(e, roster')
    OBVIOUS
  <2>1. CASE e \in Kept([c EXCEPT !.stage = "ok"])
    BY <1>4, <2>1
  <2>2. CASE roster' = roster /\ e \in calls
    BY <1>2, <2>2
  <2>3. CASE \E d \in calls : e = RacedBy(d)
    BY <1>3, <2>3
  <2> QED
    BY <1>1, <2>1, <2>2, <2>3
<1> QED
  BY <1>1, <1>5 DEF AcctInv, AcctTypeOK, CallTypes, AccountRecs

\* Every step keeps the invariant.
LEMMA AcctStepInv == AcctInv /\ [AcctNext]_acctVars => AcctInv'
<1> SUFFICES ASSUME AcctInv, [AcctNext]_acctVars PROVE AcctInv'
  OBVIOUS
<1>0. /\ \A c \in calls : c \in CallTypes /\ CallSound(c, roster)
      /\ session \in [Browsers -> Tokens] /\ roster \in [Accts -> AccountRecs]
      /\ me \in [Browsers -> [id : Accts \union {0}, role : Roles]]
  BY DEF AcctInv, AcctTypeOK, CallTypes, AccountRecs
<1>1. ASSUME NEW b \in Browsers, NEW a \in Accts, SubmitLogin(b, a) PROVE AcctInv'
  BY <1>1, SentCall, IssueSound DEF SubmitLogin, Tokens
<1>2. ASSUME NEW b \in Browsers, NEW a \in Accts, NEW op \in RosterOps, SubmitChange(b, op, a)
      PROVE  AcctInv'
  BY <1>0, <1>2, SentCall, IssueSound DEF SubmitChange
<1>3. ASSUME NEW b \in Browsers, ClickLogout(b) PROVE AcctInv'
  <2>1. session' \in [Browsers -> Tokens] /\ me' \in [Browsers -> [id : Accts \union {0}, role : Roles]]
    BY <1>0, <1>3 DEF ClickLogout, Tokens, NoUser, Roles
  <2> QED
    BY <1>3, <2>1, FewerCalls DEF ClickLogout
<1>4. ASSUME NEW b \in Browsers, Reload(b) PROVE AcctInv'
  <2>1. me' \in [Browsers -> [id : Accts \union {0}, role : Roles]]
    BY <1>0, <1>4 DEF Reload, NoUser, Roles
  <2>2. ASSUME NEW c \in calls, c.stage \notin Final
        PROVE  [c EXCEPT !.b = Nobody] \in CallTypes /\ CallSound([c EXCEPT !.b = Nobody], roster)
    <3> DEFINE d == [c EXCEPT !.b = Nobody]
    <3>1. /\ d \in CallTypes /\ d.stage = c.stage /\ d.op = c.op /\ d.raced = c.raced
          /\ d.tok = c.tok /\ d.on = c.on
      BY <1>0 DEF CallTypes
    <3> HIDE DEF d
    <3>2. d \in CallTypes /\ CallSound(d, roster)
      BY <1>0, <2>2, <3>1 DEF CallSound
    <3> QED
      BY <3>2 DEF d
  <2>3. \A c \in calls' : c \in CallTypes /\ CallSound(c, roster)
    BY <1>0, <1>4, <2>2, SentCall DEF Reload, Abandoned
  <2> QED
    BY <1>0, <1>4, <2>1, <2>3 DEF Reload, AcctInv, AcctTypeOK, CallTypes
<1>5. ASSUME NEW c \in calls, ServeLogin(c) PROVE AcctInv'
  <2>1. /\ [c EXCEPT !.stage = "ok", !.tok = c.on] \in CallTypes
        /\ [c EXCEPT !.stage = "ok", !.tok = c.on].stage = "ok"
        /\ [c EXCEPT !.stage = "401"] \in CallTypes
        /\ [c EXCEPT !.stage = "401"].stage = "401"
    BY <1>0 DEF CallTypes, Stages, Final, Tokens, NoToken
  <2> QED
    BY <1>0, <1>5, <2>1, BecomesSound DEF ServeLogin, Final
<1>6. ASSUME NEW c \in calls, Authenticate(c) PROVE AcctInv'
  <2>1. /\ c.op # "login" /\ c.stage = "sent" /\ UNCHANGED <<roster, session, me>> /\ c \in CallTypes
        /\ CallSound(c, roster)
    BY <1>0, <1>6 DEF Authenticate
  <2>2. CASE ~Known(c)
    <3>1. Becomes(c, [c EXCEPT !.stage = "401"])
      BY <1>6, <2>2 DEF Authenticate
    <3>2. [c EXCEPT !.stage = "401"] \in CallTypes /\ [c EXCEPT !.stage = "401"].stage = "401"
      BY <2>1, Staged DEF Stages, Final
    <3> QED
      BY <1>0, <2>1, <3>1, <3>2, BecomesSound DEF Final
  <2>3. CASE Known(c) /\ c.op = "me"
    <3>1. Becomes(c, [c EXCEPT !.stage = "ok", !.got = roster[c.tok].role])
      <4>1. c.op \notin RosterOps
        BY <2>3 DEF RosterOps
      <4> QED
        BY <1>6, <2>3, <4>1 DEF Authenticate
    <3>2. roster[c.tok].role \in Roles
      BY <1>0, <2>1, <2>3, CallFields DEF Known, Tokens, AccountRecs
    <3>3. /\ [c EXCEPT !.stage = "ok", !.got = roster[c.tok].role] \in CallTypes
          /\ [c EXCEPT !.stage = "ok", !.got = roster[c.tok].role].stage = "ok"
      BY <2>1, <3>2 DEF CallTypes, Stages, Final
    <3> QED
      BY <1>0, <2>1, <3>1, <3>3, BecomesSound DEF Final
  <2>4. CASE Known(c) /\ c.op \in RosterOps
    <3>0. c.tok \in Accts /\ roster[c.tok] \in AccountRecs /\ roster[c.tok].active
      BY <1>0, <2>1, <2>4, CallFields DEF Known, Tokens
    <3>1. CASE roster[c.tok].role = "admin"
      <4> DEFINE d == [c EXCEPT !.stage = "passed"]
      <4>1. Becomes(c, d)
        BY <1>6, <2>4, <3>1 DEF Authenticate, RosterOps
      <4>2. d \in CallTypes /\ d.stage = "passed" /\ d.tok = c.tok /\ d.op = c.op
        BY <2>1, Staged DEF Stages
      <4> HIDE DEF d
      <4>3. CallSound(d, roster)
        BY <2>4, <3>0, <3>1, <4>2 DEF CallSound, Final, IsActiveAdmin
      <4> QED
        BY <1>0, <2>1, <4>1, <4>2, <4>3, BecomesSound
    <3>2. CASE roster[c.tok].role # "admin"
      <4>1. Becomes(c, [c EXCEPT !.stage = "403"])
        BY <1>6, <2>4, <3>2 DEF Authenticate, RosterOps
      <4>2. [c EXCEPT !.stage = "403"] \in CallTypes /\ [c EXCEPT !.stage = "403"].stage = "403"
        BY <2>1, Staged DEF Stages, Final
      <4> QED
        BY <1>0, <2>1, <4>1, <4>2, BecomesSound DEF Final
    <3> QED
      BY <3>1, <3>2
  <2> QED
    BY <2>1, <2>2, <2>3, <2>4, CallFields
<1>7. ASSUME NEW c \in calls, CheckLastAdmin(c) PROVE AcctInv'
  <2>1. c.stage = "passed" /\ UNCHANGED <<roster, session, me>> /\ c \in CallTypes /\ CallSound(c, roster)
    BY <1>0, <1>7 DEF CheckLastAdmin
  <2>2. CASE /\ Narrows(c.op) /\ c.on \in ActiveAdmins(roster)
             /\ Cardinality(ActiveAdmins(roster)) <= 1
    <3>1. Becomes(c, [c EXCEPT !.stage = "409"])
      BY <1>7, <2>2 DEF CheckLastAdmin
    <3>2. [c EXCEPT !.stage = "409"] \in CallTypes /\ [c EXCEPT !.stage = "409"].stage = "409"
      BY <2>1, Staged DEF Stages, Final
    <3> QED
      BY <1>0, <2>1, <3>1, <3>2, BecomesSound DEF Final
  <2>3. CASE ~ (/\ Narrows(c.op) /\ c.on \in ActiveAdmins(roster)
                /\ Cardinality(ActiveAdmins(roster)) <= 1)
    <3> DEFINE d == [c EXCEPT !.stage = "checked"]
    <3>1. Becomes(c, d)
      BY <1>7, <2>3 DEF CheckLastAdmin
    <3>2. /\ d \in CallTypes /\ d.stage = "checked" /\ d.tok = c.tok /\ d.op = c.op
          /\ d.on = c.on /\ d.raced = c.raced
      BY <2>1, Staged DEF Stages
    <3> HIDE DEF d
    <3>3. Narrows(c.op) /\ c.on \in ActiveAdmins(roster) => \E a \in ActiveAdmins(roster) : a # c.on
      BY <2>3, AnotherAdmin DEF AcctInv
    <3>4. CallSound(d, roster)
      BY <2>1, <3>2, <3>3 DEF CallSound, Final
    <3> QED
      BY <1>0, <2>1, <3>1, <3>2, <3>4, BecomesSound
  <2> QED
    BY <2>2, <2>3
<1>8. ASSUME NEW c \in calls, ApplyChange(c) PROVE AcctInv'
  BY <1>8, ApplySound
<1>9. ASSUME NEW c \in calls, OnLogin(c) PROVE AcctInv'
  <2>1. /\ session' = [session EXCEPT ![c.b] = c.tok] /\ UNCHANGED <<roster, me>>
        /\ Becomes(c, Call(c.b, c.tok, "me", 0)) /\ c.tok \in Tokens /\ c.b \in Browsers \union {Nobody}
    BY <1>0, <1>9, CallFields DEF OnLogin
  <2>2. session' \in [Browsers -> Tokens]
    BY <1>0, <2>1
  <2>3. Call(c.b, c.tok, "me", 0) \in CallTypes /\ CallSound(Call(c.b, c.tok, "me", 0), roster)
    BY <2>1, SentCall
  <2> QED
    BY <1>0, <2>1, <2>2, <2>3, BecomesSound
<1>10. ASSUME NEW c \in calls, OnMe(c) PROVE AcctInv'
  <2>1. [id |-> c.tok, role |-> c.got] \in [id : Accts \union {0}, role : Roles]
    BY <1>0, CallFields DEF Tokens, NoToken
  <2>2. me' \in [Browsers -> [id : Accts \union {0}, role : Roles]]
    BY <1>0, <1>10, <2>1 DEF OnMe
  <2> QED
    BY <1>0, <1>10, <2>2, FewerCalls DEF OnMe
<1>11. ASSUME NEW c \in calls, OnChanged(c) PROVE AcctInv'
  BY <1>0, <1>11, FewerCalls DEF OnChanged
<1>12. ASSUME NEW c \in calls, OnUnauthorized(c) PROVE AcctInv'
  <2>1. session' \in [Browsers -> Tokens] /\ me' \in [Browsers -> [id : Accts \union {0}, role : Roles]]
    BY <1>0, <1>12 DEF OnUnauthorized, Tokens, NoUser, Roles
  <2> QED
    BY <1>12, <2>1, FewerCalls DEF OnUnauthorized
<1>13. ASSUME NEW c \in calls, OnForbidden(c) PROVE AcctInv'
  <2>1. /\ c.stage = "403" /\ UNCHANGED <<roster, session>> /\ CallSound(c, roster)
        /\ c.b \in Browsers
    BY <1>0, <1>13, CallFields DEF OnForbidden, CallSound, Final
  <2>2. CASE session[c.b] = NoToken
    <3>1. me' \in [Browsers -> [id : Accts \union {0}, role : Roles]] /\ calls' \subseteq calls
      BY <1>0, <1>13, <2>2 DEF OnForbidden, NoUser, Roles
    <3> QED
      BY <1>0, <2>1, <3>1, FewerCalls
  <2>3. CASE session[c.b] # NoToken
    <3>1. Becomes(c, Call(c.b, session[c.b], "me", 0)) /\ UNCHANGED me
      BY <1>13, <2>3 DEF OnForbidden
    <3>2. /\ Call(c.b, session[c.b], "me", 0) \in CallTypes
          /\ CallSound(Call(c.b, session[c.b], "me", 0), roster)
      BY <1>0, <2>1, SentCall
    <3> QED
      BY <1>0, <2>1, <3>1, <3>2, BecomesSound
  <2> QED
    BY <2>2, <2>3
<1>14. CASE UNCHANGED acctVars
  BY <1>14 DEF acctVars, AcctInv, AcctTypeOK
<1> QED
  BY <1>1, <1>2, <1>3, <1>4, <1>5, <1>6, <1>7, <1>8, <1>9, <1>10, <1>11, <1>12, <1>13, <1>14
  DEF AcctNext

\* Only a change that is applied touches the roster.
LEMMA RosterStep ==
  ASSUME [AcctNext]_acctVars, roster' # roster
  PROVE  \E c \in calls : ApplyChange(c)
BY DEF AcctNext, acctVars, SubmitLogin, SubmitChange, ClickLogout, Reload, ServeLogin, Authenticate,
       CheckLastAdmin, OnLogin, OnMe, OnChanged, OnUnauthorized, OnForbidden

\* A step that makes an account an active administrator is such a call.
LEMMA RevocationStep ==
  ASSUME AcctInv, [AcctNext]_acctVars, NEW a \in Accts,
         IsActiveAdmin(roster'[a]), ~IsActiveAdmin(roster[a])
  PROVE  \E c \in calls : c.stage = "checked" /\ (c.tok # a \/ "gate" \in c.raced)
<1>1. roster' # roster
  OBVIOUS
<1>2. PICK c \in calls : ApplyChange(c)
  BY <1>1, RosterStep
<1>3. c.stage = "checked" /\ CallSound(c, roster)
  BY <1>2 DEF ApplyChange, AcctInv
<1> QED
  BY <1>3 DEF CallSound

\* A step that removes the last administrator is such a call.
LEMMA LastAdminStep ==
  ASSUME AcctInv, [AcctNext]_acctVars, ActiveAdmins(roster') = {}, ActiveAdmins(roster) # {}
  PROVE  \E c \in calls : c.stage = "checked" /\ "check" \in c.raced
<1>1. roster' # roster
  OBVIOUS
<1>2. PICK c \in calls : ApplyChange(c)
  BY <1>1, RosterStep
<1>3. c.stage = "checked" /\ CallSound(c, roster) /\ Narrows(c.op)
      /\ \A a \in Accts : a # c.on => roster'[a] = roster[a]
  BY <1>2, ChangedRoster DEF AcctInv
<1>4. \A a \in ActiveAdmins(roster) : a = c.on
  BY <1>3 DEF ActiveAdmins
<1>5. c.on \in ActiveAdmins(roster)
  BY <1>4
<1> QED
  BY <1>3, <1>4, <1>5 DEF CallSound

\* The accounts, sessions and calls are typed, and an administrator demoted or
\* deactivated becomes active again only by a call of another account, or by
\* one already past its gate when the roster changed; for any number of
\* accounts and browsers (resolve_token_principal).
THEOREM RevokedStaysRevoked == AcctSpec => []AcctTypeOK /\ RevocationIsImmediate
<1>1. AcctSpec => []AcctInv
  BY AcctInitInv, AcctStepInv, PTL DEF AcctSpec
<1>2. AcctInv /\ [AcctNext]_acctVars =>
        [\A a \in Accts : IsActiveAdmin(roster'[a]) /\ ~IsActiveAdmin(roster[a]) =>
           \E c \in calls : c.stage = "checked" /\ (c.tok # a \/ "gate" \in c.raced)]_acctVars
  BY RevocationStep
<1>3. AcctInv => AcctTypeOK
  BY DEF AcctInv
<1> QED
  BY <1>1, <1>2, <1>3, PTL DEF AcctSpec, RevocationIsImmediate

\* The last active administrator is removed only by a call whose check no
\* longer describes the roster; for any number of accounts and calls (users.py
\* _reject_if_last_active_admin).
THEOREM LastAdminNeedsARace == AcctSpec => OnlyARaceRemovesTheLastAdmin
<1>1. AcctSpec => []AcctInv
  BY AcctInitInv, AcctStepInv, PTL DEF AcctSpec
<1>2. AcctInv /\ [AcctNext]_acctVars =>
        [ActiveAdmins(roster') = {} /\ ActiveAdmins(roster) # {} =>
           \E c \in calls : c.stage = "checked" /\ "check" \in c.raced]_acctVars
  BY LastAdminStep
<1> QED
  BY <1>1, <1>2, PTL DEF AcctSpec, OnlyARaceRemovesTheLastAdmin

-----------------------------------------------------------------------------
(* Sessions.                                                              *)

\* Sockets are attached to rows that were created, and so is the key's row.
RowsAreCreated == row.gen <= gens /\ \A t \in Tabs : sockets[t] <= gens

\* The sockets attached to a row.
SocketsOf(g, socks) == {t \in Tabs : socks[t] # 0 /\ socks[t] = g}

\* RowCountsItsSockets, named for the set it counts.
RowCount == row.open = Cardinality(SocketsOf(row.gen, sockets))

\* The inductive invariant: the types, rows that exist, the count of the set.
SessInv == SessTypeOK /\ RowsAreCreated /\ RowCount

\* The counts of the model hold the number of tabs.
LEMMA CountsType ==
  /\ Cardinality(Tabs) \in Nat /\ 0 \in Counts
  /\ \A n \in Counts : n \in Nat /\ OneLess(n) \in Counts
<1>1. Cardinality(Tabs) \in Nat
  BY SessionsAssumption, FS_CardinalityType
<1> QED
  BY <1>1 DEF Counts, OneLess

\* The sockets of a row are finitely many.
LEMMA SocketsFinite ==
  ASSUME NEW g, NEW socks
  PROVE  IsFiniteSet(SocketsOf(g, socks)) /\ Cardinality(SocketsOf(g, socks)) \in Counts
<1>1. SocketsOf(g, socks) \subseteq Tabs
  BY DEF SocketsOf
<1>2. Cardinality(SocketsOf(g, socks)) \in Nat
      /\ Cardinality(SocketsOf(g, socks)) <= Cardinality(Tabs)
      /\ IsFiniteSet(SocketsOf(g, socks))
  BY <1>1, SessionsAssumption, FS_Subset, FS_CardinalityType
<1> QED
  BY <1>2, CountsType DEF Counts

\* Nothing is attached to no row.
LEMMA NoSockets == \A socks : SocketsOf(0, socks) = {} /\ Cardinality(SocketsOf(0, socks)) = 0
<1>1. \A socks : SocketsOf(0, socks) = {}
  BY DEF SocketsOf
<1> QED
  BY <1>1, FS_EmptySet

\* The invariant holds at first.
LEMMA SessInitInv == SessInit => SessInv
<1> SUFFICES ASSUME SessInit PROVE SessInv
  OBVIOUS
<1>1. SessTypeOK
  BY CountsType, SessionsAssumption DEF SessInit, SessTypeOK, NoRow
<1>2. RowCount
  BY NoSockets DEF SessInit, NoRow, RowCount
<1> QED
  BY <1>1, <1>2, SessionsAssumption DEF SessInit, SessInv, RowsAreCreated, NoRow

\* touch answers the live row, or a new one that no socket is attached to.
LEMMA TouchedRow ==
  SessInv /\ Touched.gen <= MaxRows =>
         /\ Touched.gen \in 1 .. MaxRows /\ Touched.open \in Counts /\ Touched.idle = FALSE
         /\ Touched = [gen |-> Touched.gen, open |-> Touched.open, idle |-> FALSE]
         /\ Touched.open = Cardinality(SocketsOf(Touched.gen, sockets))
         /\ Touched.gen <= gens + 1 /\ gens \in Nat
<1> SUFFICES ASSUME SessInv, Touched.gen <= MaxRows
             PROVE  /\ Touched.gen \in 1 .. MaxRows /\ Touched.open \in Counts
                    /\ Touched.idle = FALSE
                    /\ Touched = [gen |-> Touched.gen, open |-> Touched.open, idle |-> FALSE]
                    /\ Touched.open = Cardinality(SocketsOf(Touched.gen, sockets))
                    /\ Touched.gen <= gens + 1 /\ gens \in Nat
  OBVIOUS
<1> USE CountsType, SessionsAssumption DEF SessInv, SessTypeOK
<1>1. CASE Pruned(row).gen # 0
  <2>1. Pruned(row) = row
    BY <1>1 DEF Pruned, NoRow
  <2>2. Touched = [row EXCEPT !.idle = FALSE]
    BY <1>1, <2>1 DEF Touched
  <2>3. Touched = [gen |-> row.gen, open |-> row.open, idle |-> FALSE]
    BY <2>2
  <2> QED
    BY <1>1, <2>1, <2>3 DEF RowCount, RowsAreCreated
<1>2. CASE Pruned(row).gen = 0
  <2>1. Touched = [gen |-> gens + 1, open |-> 0, idle |-> FALSE]
    BY <1>2 DEF Touched
  <2>2. SocketsOf(gens + 1, sockets) = {}
    BY DEF SocketsOf, RowsAreCreated
  <2>3. Cardinality(SocketsOf(gens + 1, sockets)) = 0
    BY <2>2, FS_EmptySet
  <2> QED
    BY <2>1, <2>3
<1> QED
  BY <1>1, <1>2

\* Every step keeps the invariant.
LEMMA SessStepInv == SessInv /\ [SessNext]_sessVars => SessInv'
<1> SUFFICES ASSUME SessInv, [SessNext]_sessVars PROVE SessInv'
  OBVIOUS
<1> USE CountsType, SessionsAssumption DEF SessInv
<1>1. CASE Request
  <2>1. Touched.gen <= MaxRows /\ row' = Touched /\ sockets' = sockets
        /\ orphans' = orphans /\ listed' = listed
        /\ gens' = IF Touched.gen > gens THEN Touched.gen ELSE gens
    BY <1>1 DEF Request
  <2>0. /\ Touched.gen \in 1 .. MaxRows /\ Touched.open \in Counts
        /\ Touched = [gen |-> Touched.gen, open |-> Touched.open, idle |-> FALSE]
        /\ Touched.open = Cardinality(SocketsOf(Touched.gen, sockets))
        /\ gens \in 0 .. MaxRows
    BY <2>1, TouchedRow, Zenon DEF SessTypeOK
  <2>2. gens' \in 0 .. MaxRows /\ gens <= gens' /\ Touched.gen <= gens'
    BY <2>0, <2>1
  <2>3. row'.gen \in 1 .. MaxRows /\ row'.open \in Counts
        /\ row' = [gen |-> row'.gen, open |-> row'.open, idle |-> FALSE]
        /\ row'.gen <= gens'
    BY <2>1, <2>2, <2>0
  <2>6. row' \in [gen : 0 .. MaxRows, open : Counts, idle : BOOLEAN]
    <3>1. Touched.gen \in 0 .. MaxRows
      BY <2>0
    <3>2. [gen |-> Touched.gen, open |-> Touched.open, idle |-> FALSE]
            \in [gen : 0 .. MaxRows, open : Counts, idle : BOOLEAN]
      BY <2>0, <3>1
    <3> QED
      BY <2>0, <2>1, <3>2, Zenon
  <2>4. SessTypeOK'
    BY <2>1, <2>2, <2>6 DEF SessTypeOK
  <2>5. RowCount'
    BY <2>1, <2>0 DEF RowCount
  <2> QED
    BY <2>1, <2>2, <2>3, <2>4, <2>5 DEF SessTypeOK, RowsAreCreated
<1>2. ASSUME NEW t \in Tabs, Attach(t) PROVE SessInv'
  <2>1. /\ Touched.gen <= MaxRows /\ sockets[t] = 0
        /\ row' = [Touched EXCEPT !.open = @ + 1]
        /\ sockets' = [sockets EXCEPT ![t] = Touched.gen]
        /\ gens' = IF Touched.gen > gens THEN Touched.gen ELSE gens
        /\ orphans' = orphans /\ listed' = listed
    BY <1>2 DEF Attach
  <2>0. /\ Touched.gen \in 1 .. MaxRows /\ Touched.open \in Counts
        /\ Touched = [gen |-> Touched.gen, open |-> Touched.open, idle |-> FALSE]
        /\ Touched.open = Cardinality(SocketsOf(Touched.gen, sockets))
        /\ gens \in 0 .. MaxRows
    BY <2>1, TouchedRow, Zenon DEF SessTypeOK
  <2>2. gens' \in 0 .. MaxRows /\ gens <= gens' /\ Touched.gen <= gens'
    BY <2>0, <2>1
  <2> DEFINE g == Touched.gen
  <2>3. row' = [gen |-> g, open |-> Touched.open + 1, idle |-> FALSE]
    <3>1. [gen |-> Touched.gen, open |-> Touched.open, idle |-> FALSE]
            \in [gen : 1 .. MaxRows, open : Counts, idle : BOOLEAN]
      BY <2>0
    <3>2. Touched \in [gen : 1 .. MaxRows, open : Counts, idle : BOOLEAN] /\ Touched.idle = FALSE
      BY <2>0, <2>1, <3>1, TouchedRow, Zenon
    <3> QED
      BY <2>1, <3>2
  <2>4. SocketsOf(g, sockets') = SocketsOf(g, sockets) \union {t}
        /\ t \notin SocketsOf(g, sockets)
    BY <2>1, <2>0 DEF SocketsOf, SessTypeOK
  <2>5. Touched.open + 1 = Cardinality(SocketsOf(g, sockets'))
    <3>1. IsFiniteSet(SocketsOf(g, sockets))
      BY SocketsFinite
    <3>2. Cardinality(SocketsOf(g, sockets) \union {t}) = Cardinality(SocketsOf(g, sockets)) + 1
      BY <2>4, <3>1, FS_AddElement
    <3>3. Touched.open = Cardinality(SocketsOf(g, sockets))
      BY <2>0
    <3> HIDE DEF g
    <3> QED
      BY <2>4, <3>2, <3>3
  <2>6. RowCount'
    BY <2>3, <2>5 DEF RowCount
  <2>7. Touched.open + 1 \in Counts
    BY <2>5, SocketsFinite
  <2>10. row' \in [gen : 0 .. MaxRows, open : Counts, idle : BOOLEAN]
    BY <2>0, <2>3, <2>7
  <2>11. sockets' \in [Tabs -> 0 .. MaxRows]
    BY <2>0, <2>1 DEF SessTypeOK
  <2>8. SessTypeOK'
    BY <2>1, <2>2, <2>10, <2>11 DEF SessTypeOK
  <2>9. RowsAreCreated'
    BY <2>1, <2>2, <2>3, <2>0 DEF SessTypeOK, RowsAreCreated
  <2> QED
    BY <2>6, <2>8, <2>9
<1>3. ASSUME NEW t \in Tabs, Detach(t) PROVE SessInv'
  <2> DEFINE g == sockets[t]
  <2>1. g \in 1 .. MaxRows /\ sockets' = [sockets EXCEPT ![t] = 0] /\ gens' = gens
        /\ listed' = listed
    BY <1>3 DEF Detach, DetachedFrom, SessTypeOK
  <2>2. SocketsOf(g, sockets') = SocketsOf(g, sockets) \ {t} /\ t \in SocketsOf(g, sockets)
    BY <2>1 DEF SocketsOf, SessTypeOK
  <2>3. sockets' \in [Tabs -> 0 .. MaxRows] /\ \A u \in Tabs : sockets'[u] <= gens
    BY <2>1 DEF SessTypeOK, RowsAreCreated
  <2>4. CASE g = row.gen
    <3>1. row' = [row EXCEPT !.open = OneLess(@), !.idle = FALSE] /\ orphans' = orphans
      BY <1>3, <2>4 DEF Detach, DetachedFrom
    <3>2. row' = [gen |-> g, open |-> OneLess(row.open), idle |-> FALSE]
      BY <2>4, <3>1 DEF SessTypeOK
    <3>3. Cardinality(SocketsOf(g, sockets')) = row.open - 1 /\ row.open # 0
      <4>1. row.open = Cardinality(SocketsOf(g, sockets))
        BY <2>4 DEF RowCount
      <4>2. Cardinality(SocketsOf(g, sockets')) = row.open - 1
        BY <2>2, <4>1, SocketsFinite, FS_RemoveElement
      <4>3. Cardinality(SocketsOf(g, sockets')) \in Nat
        BY SocketsFinite
      <4>4. row.open \in Nat
        BY DEF SessTypeOK
      <4> QED
        BY <4>2, <4>3, <4>4
    <3>4. RowCount'
      BY <3>2, <3>3 DEF RowCount, OneLess
    <3>5. SessTypeOK'
      BY <2>1, <2>3, <3>1, <3>2 DEF SessTypeOK
    <3> QED
      BY <2>1, <2>3, <2>4, <3>2, <3>4, <3>5 DEF RowsAreCreated
  <2>5. CASE g # row.gen
    <3>1. row' = row /\ orphans' = [orphans EXCEPT ![g] = OneLess(@)]
      BY <1>3, <2>5 DEF Detach, DetachedFrom
    <3>2. SocketsOf(row.gen, sockets') = SocketsOf(row.gen, sockets)
      BY <2>1, <2>5 DEF SocketsOf, SessTypeOK
    <3>3. orphans' \in [1 .. MaxRows -> Counts]
      BY <2>1, <3>1 DEF SessTypeOK
    <3>4. SessTypeOK'
      BY <2>1, <2>3, <3>1, <3>3 DEF SessTypeOK
    <3>5. RowCount'
      BY <3>1, <3>2 DEF RowCount
    <3> QED
      BY <2>1, <2>3, <3>1, <3>4, <3>5 DEF RowsAreCreated
  <2> QED
    BY <2>4, <2>5
<1>4. CASE Drop
  <2>1. row' = NoRow /\ sockets' = sockets /\ gens' = gens /\ listed' = listed
        /\ orphans' = [orphans EXCEPT ![row.gen] = row.open] /\ row.gen # 0
    BY <1>4 DEF Drop
  <2>2. SessTypeOK'
    BY <2>1 DEF SessTypeOK, NoRow
  <2>3. RowCount'
    BY <2>1, NoSockets DEF RowCount, NoRow
  <2> QED
    BY <2>1, <2>2, <2>3 DEF RowsAreCreated, NoRow, SessTypeOK
<1>5. CASE IdleTimePasses
  BY <1>5 DEF IdleTimePasses, SessTypeOK, RowsAreCreated, RowCount
<1>6. CASE PollSessions
  <2>1. row' = row \/ row' = NoRow
    BY <1>6 DEF PollSessions, Pruned
  <2>2. sockets' = sockets /\ gens' = gens /\ orphans' = orphans
        /\ listed' \in {"absent", "idle", "open"}
    BY <1>6 DEF PollSessions
  <2>3. CASE row' = row
    BY <2>2, <2>3 DEF SessTypeOK, RowsAreCreated, RowCount
  <2>4. CASE row' = NoRow
    <3>1. RowCount'
      BY <2>4, NoSockets DEF RowCount, NoRow
    <3> QED
      BY <2>2, <2>4, <3>1 DEF SessTypeOK, RowsAreCreated, NoRow
  <2> QED
    BY <2>1, <2>3, <2>4
<1>7. CASE UNCHANGED sessVars
  BY <1>7 DEF sessVars, SessTypeOK, RowsAreCreated, RowCount
<1> QED
  BY <1>1, <1>2, <1>3, <1>4, <1>5, <1>6, <1>7 DEF SessNext

\* The listed row counts the open sockets attached to it, however late a
\* socket of a dropped row closes; for any finite set of tabs and number of
\* rows (session_registry.py detach, touch).
THEOREM SessionRowsCount == SessSpec => [](SessTypeOK /\ RowCountsItsSockets)
<1>1. SessSpec => []SessInv
  BY SessInitInv, SessStepInv, PTL DEF SessSpec
<1>2. SessInv => SessTypeOK /\ RowCountsItsSockets
  BY DEF SessInv, RowCount, RowCountsItsSockets, SocketsOf
<1> QED
  BY <1>1, <1>2, PTL

-----------------------------------------------------------------------------
(* The alarm log and its page.                                            *)

\* Each occurrence has one row, and one insert that may still be on its way.
RowsAreOccurrences ==
    /\ \A r \in alarmLog : r.n <= raised
    /\ \A r \in alarmLog, s \in alarmLog : r.n = s.n => r = s
    /\ \A w \in writes : w.n <= raised /\ (w.op = "insert" => \A r \in alarmLog : r.n # w.n)

\* The log has a newest row.
IsNewest(r, rows) == r \in rows /\ \A s \in rows : s.n <= r.n
LogHasNewest == alarmLog # {} => \E r \in alarmLog : IsNewest(r, alarmLog)

\* A point that is active has been raised.
ActiveWasRaised == engine => raised # 0

\* EventIsReconciled, with what makes an event arm the window and the window's
\* end start a new read.
Reconciling == EventIsReconciled /\ (screen.behind => screen.loaded /\ screen.page = "alarms")

\* The inductive invariant: rows and inserts of distinct occurrences, the
\* newest of which tells the point.
AlarmInv ==
    AlarmTypeOK /\ RowsAreOccurrences /\ LogHasNewest /\ ActiveWasRaised /\ Reconciling

\* The states of a point, and the records of the page.
PointRange == {"NORMAL", "UNACKNOWLEDGED", "ACKNOWLEDGED", "CLEARED_UNACK"}
Screens == [page : {"dashboard", "alarms"}, loaded : BOOLEAN, rows : SUBSET AlarmRows,
            point : PointRange, timer : BOOLEAN, behind : BOOLEAN]
Fetches == [stage : {"idle", "asked", "answered"}, rows : SUBSET AlarmRows,
            fresh : BOOLEAN]

\* A row is of an occurrence.
LEMMA RowNumber == \A r \in AlarmRows : r.n \in Nat /\ r.n # 0 /\ r.n \in Occurrences
BY DEF AlarmRows, Occurrences

\* What the page makes of any rows is a state of the point.
LEMMA PointRanges ==
  /\ \A rows : PointOf(rows) \in PointRange
  /\ \A s \in PointRange, e \in {"TRIGGERED", "CLEARED"} : Machine!Transition(s, e) \in PointRange
BY DEF PointOf, RowState, PointRange, Machine!Transition

\* The newest row is the one CHOOSE picks.
LEMMA NewestIs ==
  ASSUME NEW rows, NEW r, IsNewest(r, rows), \A s \in rows : s.n \in Nat,
         \A s \in rows, t \in rows : s.n = t.n => s = t
  PROVE  Newest(rows) = r /\ PointOf(rows) = RowState(r)
<1>1. \A s \in rows : (\A t \in rows : t.n <= s.n) => s = r
  <2> SUFFICES ASSUME NEW s \in rows, \A t \in rows : t.n <= s.n PROVE s = r
    OBVIOUS
  <2>1. s.n <= r.n /\ r.n <= s.n /\ s.n \in Nat /\ r.n \in Nat /\ r \in rows
    BY DEF IsNewest
  <2>2. s.n = r.n
    BY <2>1
  <2> QED
    BY <2>1, <2>2
<1>2. Newest(rows) = r
  BY <1>1 DEF Newest, IsNewest
<1> QED
  BY <1>2 DEF PointOf, IsNewest

\* The invariant holds at first.
LEMMA AlarmInitInv == AlarmInit => AlarmInv
<1> SUFFICES ASSUME AlarmInit PROVE AlarmInv
  OBVIOUS
<1>1. AlarmTypeOK
  <2>1. raised \in 0 .. MaxAlarms /\ acks \subseteq [n : 0 .. MaxAlarms, served : BOOLEAN]
    BY AlarmAssumption DEF AlarmInit
  <2>2. screen \in Screens /\ fetch \in Fetches
    BY DEF AlarmInit, Asked, Screens, Fetches, PointRange
  <2>3. wire \in Seq({"TRIGGERED", "CLEARED"})
    BY DEF AlarmInit
  <2> QED
    BY <2>1, <2>2, <2>3 DEF AlarmInit, AlarmTypeOK, Screens, Fetches, PointRange
<1> QED
  BY <1>1 DEF AlarmInit, AlarmInv, RowsAreOccurrences, LogHasNewest, ActiveWasRaised, Reconciling, EventIsReconciled

\* What a row becomes when it is cleared or acknowledged.
LEMMA RowSteps ==
  ASSUME NEW r \in AlarmRows, NEW n
  PROVE  /\ [r EXCEPT !.cleared = TRUE] \in AlarmRows /\ [r EXCEPT !.cleared = TRUE].n = r.n
         /\ RowState([r EXCEPT !.cleared = TRUE]) = Machine!Transition(RowState(r), "CLEARED")
         /\ [r EXCEPT !.acked = @ \/ n \in {0, r.n}] \in AlarmRows
         /\ [r EXCEPT !.acked = @ \/ n \in {0, r.n}].n = r.n
         /\ RowState([r EXCEPT !.acked = @ \/ n \in {0, r.n}]) \in
               {RowState(r), Machine!Transition(RowState(r), "ACK")}
<1>1. r.cleared \in BOOLEAN /\ r.acked \in BOOLEAN /\ r = [n |-> r.n, cleared |-> r.cleared, acked |-> r.acked]
  BY DEF AlarmRows
<1>2. /\ [r EXCEPT !.cleared = TRUE] \in AlarmRows /\ [r EXCEPT !.cleared = TRUE].n = r.n
      /\ [r EXCEPT !.acked = @ \/ n \in {0, r.n}] \in AlarmRows
      /\ [r EXCEPT !.acked = @ \/ n \in {0, r.n}].n = r.n
  BY DEF AlarmRows
<1>3. /\ [r EXCEPT !.cleared = TRUE].cleared = TRUE /\ [r EXCEPT !.cleared = TRUE].acked = r.acked
      /\ [r EXCEPT !.acked = @ \/ n \in {0, r.n}].cleared = r.cleared
      /\ [r EXCEPT !.acked = @ \/ n \in {0, r.n}].acked = (r.acked \/ n \in {0, r.n})
  BY DEF AlarmRows
<1>4. RowState([r EXCEPT !.cleared = TRUE]) = Machine!Transition(RowState(r), "CLEARED")
  BY <1>1, <1>3 DEF RowState, Machine!Transition
<1>5. RowState([r EXCEPT !.acked = @ \/ n \in {0, r.n}]) \in
        {RowState(r), Machine!Transition(RowState(r), "ACK")}
  BY <1>1, <1>3 DEF RowState, Machine!Transition
<1> QED
  BY <1>2, <1>4, <1>5
\* A row that changes keeps its number.
LEMMA RewrittenLog ==
  ASSUME AlarmInv, NEW F \in [alarmLog -> AlarmRows], \A r \in alarmLog : F[r].n = r.n,
         alarmLog' = {F[r] : r \in alarmLog}, UNCHANGED raised, writes' \subseteq writes
  PROVE  alarmLog' \subseteq AlarmRows /\ RowsAreOccurrences' /\ LogHasNewest'
<1>1. \A s \in alarmLog' : \E r \in alarmLog : s = F[r] /\ s.n = r.n /\ s \in AlarmRows
  OBVIOUS
<1>2. RowsAreOccurrences'
  <2>1. \A s \in alarmLog' : s.n <= raised
    BY <1>1 DEF AlarmInv, RowsAreOccurrences
  <2>2. \A s \in alarmLog', t \in alarmLog' : s.n = t.n => s = t
    BY <1>1 DEF AlarmInv, RowsAreOccurrences
  <2>3. \A w \in writes' : w.n <= raised /\ (w.op = "insert" => \A s \in alarmLog' : s.n # w.n)
    BY <1>1 DEF AlarmInv, RowsAreOccurrences
  <2> QED
    BY <2>1, <2>2, <2>3 DEF RowsAreOccurrences
<1>3. LogHasNewest'
  <2> SUFFICES ASSUME alarmLog' # {} PROVE \E s \in alarmLog' : IsNewest(s, alarmLog')
    BY DEF LogHasNewest
  <2>1. PICK r \in alarmLog : IsNewest(r, alarmLog)
    BY <1>1 DEF AlarmInv, LogHasNewest
  <2>2. F[r] \in alarmLog' /\ F[r].n = r.n
    BY <2>1
  <2> QED
    BY <1>1, <2>1, <2>2 DEF IsNewest
<1> QED
  BY <1>1, <1>2, <1>3

\* Clearing rows keeps the invariant.
LEMMA ClearedLog ==
  ASSUME AlarmInv, alarmLog' = MarkCleared(alarmLog), UNCHANGED raised, writes' \subseteq writes
  PROVE  alarmLog' \subseteq AlarmRows /\ RowsAreOccurrences' /\ LogHasNewest'
<1> DEFINE F == [r \in alarmLog |-> [r EXCEPT !.cleared = TRUE]]
<1>1. alarmLog \subseteq AlarmRows
  BY DEF AlarmInv, AlarmTypeOK
<1>2. F \in [alarmLog -> AlarmRows] /\ \A r \in alarmLog : F[r].n = r.n
  BY <1>1, RowSteps
<1>3. alarmLog' = {F[r] : r \in alarmLog}
  BY DEF MarkCleared
<1> HIDE DEF F
<1> QED
  BY <1>2, <1>3, RewrittenLog

\* Acknowledging a row keeps it.
LEMMA AcknowledgedLog ==
  ASSUME AlarmInv, NEW n, alarmLog' = Acknowledged(alarmLog, n), UNCHANGED raised, writes' \subseteq writes
  PROVE  alarmLog' \subseteq AlarmRows /\ RowsAreOccurrences' /\ LogHasNewest'
<1> DEFINE F == [r \in alarmLog |-> [r EXCEPT !.acked = @ \/ n \in {0, r.n}]]
<1>1. alarmLog \subseteq AlarmRows
  BY DEF AlarmInv, AlarmTypeOK
<1>2. F \in [alarmLog -> AlarmRows] /\ \A r \in alarmLog : F[r].n = r.n
  BY <1>1, RowSteps
<1>3. alarmLog' = {F[r] : r \in alarmLog}
  BY DEF Acknowledged
<1> HIDE DEF F
<1> QED
  BY <1>2, <1>3, RewrittenLog

\* The insert of an occurrence that has no row yet keeps it.
LEMMA InsertedLog ==
  ASSUME AlarmInv, NEW w \in writes, w.op = "insert", alarmLog' = Inserted(alarmLog, w.n),
         UNCHANGED raised, writes' = writes \ {w}
  PROVE  /\ alarmLog' \subseteq AlarmRows /\ RowsAreOccurrences' /\ LogHasNewest'
         /\ \A r \in alarmLog : r.n # w.n
<1> DEFINE new == [n |-> w.n, cleared |-> FALSE, acked |-> FALSE]
<1>0. AlarmTypeOK /\ w \in [op : {"insert", "clear"}, n : Occurrences]
      /\ \A v \in writes : v \in [op : {"insert", "clear"}, n : Occurrences]
  BY DEF AlarmInv, AlarmTypeOK
<1>1. new \in AlarmRows /\ new.n = w.n /\ w.n \in Occurrences /\ alarmLog' = alarmLog \union {new}
  BY <1>0 DEF AlarmRows, Inserted
<1>2. alarmLog' \subseteq AlarmRows /\ (\A r \in alarmLog' : r.n \in Nat)
  BY <1>0, <1>1, RowNumber DEF AlarmTypeOK
<1>3. w.n <= raised /\ \A r \in alarmLog : r.n # w.n
  BY DEF AlarmInv, RowsAreOccurrences
<1> HIDE DEF new
<1>4. RowsAreOccurrences'
  <2>1. \A r \in alarmLog' : r.n <= raised
    BY <1>1, <1>3 DEF AlarmInv, RowsAreOccurrences
  <2>2. \A r \in alarmLog', s \in alarmLog' : r.n = s.n => r = s
    BY <1>1, <1>3 DEF AlarmInv, RowsAreOccurrences
  <2>3. ASSUME NEW v \in writes'
        PROVE  v.n <= raised /\ (v.op = "insert" => \A r \in alarmLog' : r.n # v.n)
    <3>1. v \in writes /\ v # w
      OBVIOUS
    <3>2. v.op = "insert" => v.n # w.n
      BY <1>0, <3>1
    <3> QED
      BY <1>1, <3>1, <3>2 DEF AlarmInv, RowsAreOccurrences
  <2> QED
    BY <2>1, <2>2, <2>3 DEF RowsAreOccurrences
<1>5. LogHasNewest'
  <2>1. CASE alarmLog = {}
    BY <1>1, <1>2, <2>1 DEF LogHasNewest, IsNewest
  <2>2. CASE alarmLog # {}
    <3>1. PICK r \in alarmLog : IsNewest(r, alarmLog)
      BY <2>2 DEF AlarmInv, LogHasNewest
    <3>2. CASE r.n <= w.n
      BY <1>1, <1>2, <3>1, <3>2 DEF LogHasNewest, IsNewest
    <3>3. CASE w.n <= r.n
      BY <1>1, <1>2, <3>1, <3>3 DEF LogHasNewest, IsNewest
    <3>4. r.n \in Nat /\ w.n \in Nat
      BY <1>1, <1>2
    <3> QED
      BY <3>2, <3>3, <3>4
  <2> QED
    BY <2>1, <2>2
<1> QED
  BY <1>2, <1>3, <1>4, <1>5

\* A step that leaves the log alone.
LEMMA SameLog ==
  ASSUME AlarmInv, AlarmTypeOK', Reconciling', ActiveWasRaised',
         UNCHANGED <<alarmLog, raised>>, writes' \subseteq writes
  PROVE  AlarmInv'
BY DEF AlarmInv, RowsAreOccurrences, LogHasNewest

\* A step of the page alone keeps it.
LEMMA TabTypes ==
  ASSUME AlarmTypeOK, screen' \in Screens, fetch' \in Fetches,
         UNCHANGED <<engine, raised, writes, alarmLog, acks>>,
         wire' \in Seq({"TRIGGERED", "CLEARED"})
  PROVE  AlarmTypeOK'
BY DEF AlarmTypeOK, Screens, Fetches, PointRange

\* Every step keeps the invariant.
LEMMA AlarmStepInv == AlarmInv /\ [AlarmNext]_alarmVars => AlarmInv'
<1> SUFFICES ASSUME AlarmInv, [AlarmNext]_alarmVars PROVE AlarmInv'
  OBVIOUS
<1>0. /\ AlarmTypeOK /\ Reconciling /\ ActiveWasRaised
      /\ screen \in Screens /\ fetch \in Fetches
      /\ wire \in Seq({"TRIGGERED", "CLEARED"})
      /\ NoFetch \in Fetches /\ Asked \in Fetches
      /\ raised \in Nat /\ alarmLog \subseteq AlarmRows
      /\ writes \subseteq [op : {"insert", "clear"}, n : Occurrences]
  BY AlarmAssumption DEF AlarmInv, AlarmTypeOK, Screens, Fetches, PointRange, NoFetch, Asked
<1>1. ASSUME NEW pv \in {"clear", "beyond"}, StatusFrame(pv) PROVE AlarmInv'
  <2>0. /\ UNCHANGED <<screen, fetch, acks, alarmLog>> /\ engine' = ~engine
        /\ engine' \in BOOLEAN /\ Reconciling'
    BY <1>0, <1>1 DEF StatusFrame, UiUnchanged, Reconciling, EventIsReconciled
  <2>1. CASE pv = "beyond"
    <3>1. /\ raised' = raised + 1 /\ raised < MaxAlarms /\ wire' = Append(wire, "TRIGGERED")
          /\ writes' = writes \union {[op |-> "insert", n |-> raised + 1]}
      BY <1>1, <2>1 DEF StatusFrame, Announce
    <3>2. raised + 1 \in Occurrences /\ raised' \in 0 .. MaxAlarms /\ ActiveWasRaised'
      BY <1>0, <3>1, AlarmAssumption DEF Occurrences, ActiveWasRaised
    <3>3. wire' \in Seq({"TRIGGERED", "CLEARED"})
      BY <1>0, <3>1
    <3>4. writes' \subseteq [op : {"insert", "clear"}, n : Occurrences]
      BY <1>0, <3>1, <3>2
    <3>5. AlarmTypeOK'
      BY <1>0, <2>0, <3>2, <3>3, <3>4 DEF AlarmTypeOK
    <3>6. RowsAreOccurrences'
      <4>1. \A r \in alarmLog : r.n <= raised /\ r.n \in Nat
        BY <1>0, RowNumber DEF AlarmInv, RowsAreOccurrences
      <4>2. \A w \in writes : w.n <= raised /\ w.n \in Nat
                               /\ (w.op = "insert" => \A r \in alarmLog : r.n # w.n)
        BY <1>0 DEF AlarmInv, RowsAreOccurrences, Occurrences
      <4>3. \A w \in writes' : w \in writes \/ w.n = raised + 1
        BY <3>1
      <4>4. \A w \in writes' : w.n <= raised + 1 /\ (w.op = "insert" => \A r \in alarmLog : r.n # w.n)
        BY <1>0, <4>1, <4>2, <4>3
      <4>5. \A r \in alarmLog : r.n <= raised + 1
        BY <1>0, <4>1
      <4> QED
        BY <2>0, <3>1, <4>5, <4>4 DEF AlarmInv, RowsAreOccurrences
    <3> QED
      BY <2>0, <3>2, <3>5, <3>6 DEF AlarmInv, LogHasNewest
  <2>2. CASE pv = "clear"
    <3>1. /\ raised' = raised /\ engine /\ wire' = Append(wire, "CLEARED")
          /\ writes' = writes \union {[op |-> "clear", n |-> raised]}
      BY <1>1, <2>2 DEF StatusFrame, Announce
    <3>2. raised \in Occurrences /\ ActiveWasRaised'
      BY <1>0, <2>0, <3>1 DEF AlarmTypeOK, ActiveWasRaised, Occurrences
    <3>3. wire' \in Seq({"TRIGGERED", "CLEARED"})
      BY <1>0, <3>1
    <3>4. writes' \subseteq [op : {"insert", "clear"}, n : Occurrences]
      BY <1>0, <3>1, <3>2
    <3>5. AlarmTypeOK'
      BY <1>0, <2>0, <3>1, <3>3, <3>4 DEF AlarmTypeOK
    <3>6. RowsAreOccurrences'
      <4>1. \A w \in writes' : w \in writes \/ (w.op = "clear" /\ w.n = raised)
        BY <3>1
      <4> QED
        BY <1>0, <2>0, <3>1, <4>1 DEF AlarmInv, RowsAreOccurrences
    <3> QED
      BY <2>0, <3>2, <3>5, <3>6 DEF AlarmInv, LogHasNewest
  <2> QED
    BY <2>1, <2>2
<1>2. CASE Silence
  <2>1. AlarmTypeOK' /\ Reconciling' /\ ActiveWasRaised' /\ UNCHANGED <<alarmLog, raised, writes>>
    BY <1>0, <1>2 DEF Silence, UiUnchanged, AlarmTypeOK, Reconciling, EventIsReconciled, ActiveWasRaised
  <2> QED
    BY <2>1, SameLog
<1>3. CASE Restart
  <2>1. ActiveWasRaised'
    <3>1. engine' => \E r \in alarmLog : r.n <= raised
      BY <1>3 DEF Restart, OpenRows, ActiveRows, AlarmInv, RowsAreOccurrences
    <3> QED
      BY <1>0, <1>3, <3>1, RowNumber DEF Restart, ActiveWasRaised
  <2>2. /\ UNCHANGED <<raised, alarmLog, screen, acks>> /\ fetch' \in Fetches /\ engine' \in BOOLEAN
        /\ writes' = {} /\ wire' = <<>>
    BY <1>0, <1>3 DEF Restart
  <2>3. AlarmTypeOK'
    BY <1>0, <2>2 DEF AlarmTypeOK, Fetches
  <2>4. Reconciling'
    BY <1>0, <1>3, <2>2 DEF Restart, Asked, Reconciling, EventIsReconciled
  <2> QED
    BY <2>1, <2>2, <2>3, <2>4, SameLog
<1>4. ASSUME NEW w \in writes, Persist(w) PROVE AlarmInv'
  <2>1. /\ writes' = writes \ {w} /\ UNCHANGED <<screen, fetch, acks, engine, raised, wire>>
        /\ \/ alarmLog' = alarmLog
           \/ w.op = "insert" /\ alarmLog' = Inserted(alarmLog, w.n)
           \/ alarmLog' = MarkCleared(alarmLog)
    BY <1>4 DEF Persist, UiUnchanged
  <2>2. alarmLog' \subseteq AlarmRows /\ RowsAreOccurrences' /\ LogHasNewest'
    <3>1. CASE alarmLog' = alarmLog
      BY <1>0, <2>1, <3>1 DEF AlarmInv, RowsAreOccurrences, LogHasNewest
    <3>2. CASE w.op = "insert" /\ alarmLog' = Inserted(alarmLog, w.n)
      BY <2>1, <3>2, InsertedLog
    <3>3. CASE alarmLog' = MarkCleared(alarmLog)
      BY <2>1, <3>3, ClearedLog
    <3> QED
      BY <2>1, <3>1, <3>2, <3>3
  <2>3. AlarmTypeOK' /\ Reconciling' /\ ActiveWasRaised'
    BY <1>0, <2>1, <2>2 DEF AlarmTypeOK, Reconciling, EventIsReconciled, ActiveWasRaised
  <2> QED
    BY <2>2, <2>3 DEF AlarmInv
<1>5. ASSUME NEW n, OtherOperatorAcks(n) PROVE AlarmInv'
  <2>1. /\ alarmLog' = Acknowledged(alarmLog, n)
        /\ UNCHANGED <<screen, fetch, acks, engine, raised, writes, wire>>
    BY <1>5 DEF OtherOperatorAcks, UiUnchanged
  <2>2. alarmLog' \subseteq AlarmRows /\ RowsAreOccurrences' /\ LogHasNewest'
    BY <2>1, AcknowledgedLog
  <2>3. AlarmTypeOK' /\ Reconciling' /\ ActiveWasRaised'
    BY <1>0, <2>1, <2>2 DEF AlarmTypeOK, Reconciling, EventIsReconciled, ActiveWasRaised
  <2> QED
    BY <2>2, <2>3 DEF AlarmInv
<1>6. ASSUME NEW n \in 0 .. raised, ClickAck(n) PROVE AlarmInv'
  <2>1. /\ acks' = acks \union {[n |-> n, served |-> FALSE]}
        /\ UNCHANGED <<engine, raised, writes, alarmLog, wire, screen, fetch>>
    BY <1>6 DEF ClickAck, DaemonUnchanged
  <2>2. n \in 0 .. MaxAlarms
    BY <1>0, AlarmAssumption DEF AlarmTypeOK
  <2>5. [n |-> n, served |-> FALSE] \in [n : 0 .. MaxAlarms, served : BOOLEAN]
    BY <2>2
  <2>4. acks' \subseteq [n : 0 .. MaxAlarms, served : BOOLEAN]
    BY <1>0, <2>1, <2>5, Zenon DEF AlarmTypeOK
  <2>3. AlarmTypeOK' /\ Reconciling' /\ ActiveWasRaised'
    BY <1>0, <2>1, <2>4 DEF AlarmTypeOK, Reconciling, EventIsReconciled, ActiveWasRaised
  <2> QED
    BY <2>1, <2>3, SameLog
<1>7. ASSUME NEW a \in acks, ServeAck(a) PROVE AlarmInv'
  <2>1. /\ alarmLog' = Acknowledged(alarmLog, a.n)
        /\ acks' = (acks \ {a}) \union {[n |-> 0, served |-> TRUE]}
        /\ UNCHANGED <<screen, fetch, engine, raised, writes, wire>>
    BY <1>7 DEF ServeAck
  <2>2. alarmLog' \subseteq AlarmRows /\ RowsAreOccurrences' /\ LogHasNewest'
    BY <2>1, AcknowledgedLog
  <2>4. 0 \in 0 .. MaxAlarms
    BY AlarmAssumption
  <2>6. [n |-> 0, served |-> TRUE] \in [n : 0 .. MaxAlarms, served : BOOLEAN]
    BY <2>4
  <2>5. acks' \subseteq [n : 0 .. MaxAlarms, served : BOOLEAN]
    BY <1>0, <2>1, <2>6, Zenon DEF AlarmTypeOK
  <2>3. AlarmTypeOK' /\ Reconciling' /\ ActiveWasRaised'
    BY <1>0, <2>1, <2>2, <2>5 DEF AlarmTypeOK, Reconciling, EventIsReconciled, ActiveWasRaised
  <2> QED
    BY <2>2, <2>3 DEF AlarmInv
<1>8. ASSUME NEW a \in acks, AckSettles(a) PROVE AlarmInv'
  <2>1. /\ acks' = acks \ {a} /\ fetch' \in {fetch, Asked}
        /\ UNCHANGED <<screen, engine, raised, writes, alarmLog, wire>>
    BY <1>8 DEF AckSettles, Invalidate, DaemonUnchanged
  <2>2. AlarmTypeOK' /\ ActiveWasRaised'
    BY <1>0, <2>1 DEF AlarmTypeOK, ActiveWasRaised, Fetches
  <2>3. Reconciling'
    BY <1>0, <2>1 DEF Asked, Reconciling, EventIsReconciled
  <2> QED
    BY <2>1, <2>2, <2>3, SameLog
<1>9. CASE HearAlarm
  <2>1. /\ wire # <<>> /\ wire' = Tail(wire)
        /\ screen' = [screen EXCEPT !.point = Machine!Transition(screen.point, Head(wire)),
                                    !.timer = @ \/ Arms,
                                    !.behind = @ \/ (screen.page = "alarms" /\ screen.loaded)]
        /\ fetch' = [fetch EXCEPT !.fresh = FALSE]
        /\ UNCHANGED <<engine, raised, writes, alarmLog, acks>>
    BY <1>9 DEF HearAlarm, DaemonUnchanged
  <2>2. Head(wire) \in {"TRIGGERED", "CLEARED"} /\ wire' \in Seq({"TRIGGERED", "CLEARED"})
    BY <1>0, <2>1
  <2>3. Machine!Transition(screen.point, Head(wire)) \in PointRange
    BY <1>0, <2>2, PointRanges DEF Screens
  <2>4. screen' \in Screens /\ fetch' \in Fetches /\ Reconciling'
    <3> DEFINE q == Machine!Transition(screen.point, Head(wire))
    <3>1. /\ screen' = [page |-> screen.page, loaded |-> screen.loaded, rows |-> screen.rows, point |-> q,
                        timer |-> screen.timer \/ screen.page = "alarms",
                        behind |-> screen.behind \/ (screen.page = "alarms" /\ screen.loaded)]
          /\ q \in PointRange
      BY <1>0, <2>1, <2>3 DEF Screens, Arms
    <3>2. fetch' = [stage |-> fetch.stage, rows |-> fetch.rows, fresh |-> FALSE]
      BY <1>0, <2>1 DEF Fetches
    <3> HIDE DEF q
    <3>3. screen' \in Screens /\ fetch' \in Fetches
      BY <1>0, <3>1, <3>2 DEF Screens, Fetches
    <3> QED
      BY <1>0, <3>1, <3>2, <3>3 DEF Reconciling, EventIsReconciled
  <2>5. AlarmTypeOK' /\ ActiveWasRaised'
    BY <1>0, <2>1, <2>2, <2>4, TabTypes DEF ActiveWasRaised
  <2> QED
    BY <2>1, <2>4, <2>5, SameLog
<1>10. CASE CoalesceEnds
  <2>1. /\ screen' = [screen EXCEPT !.timer = FALSE] /\ fetch' \in {fetch, Asked}
        /\ screen.loaded => fetch' = Asked
        /\ UNCHANGED <<engine, raised, writes, alarmLog, wire, acks>>
    BY <1>10 DEF CoalesceEnds, Invalidate, DaemonUnchanged
  <2>2. screen' \in Screens /\ fetch' \in Fetches /\ Reconciling'
    BY <1>0, <2>1 DEF Screens, Fetches, Reconciling, EventIsReconciled, Asked
  <2>3. AlarmTypeOK' /\ ActiveWasRaised'
    BY <1>0, <2>1, <2>2, TabTypes DEF ActiveWasRaised
  <2> QED
    BY <2>1, <2>2, <2>3, SameLog
<1>11. CASE ServeActive \/ FetchFails \/ RetryFetch \/ LoseFrames
  <2>1. /\ UNCHANGED <<engine, raised, writes, alarmLog, acks>>
        /\ wire' \in Seq({"TRIGGERED", "CLEARED"})
    <3>1. /\ UNCHANGED <<engine, raised, writes, alarmLog, acks>>
          /\ wire' = wire \/ wire' = <<>>
      BY <1>11 DEF ServeActive, FetchFails, RetryFetch, LoseFrames, DaemonUnchanged
    <3>2. <<>> \in Seq({"TRIGGERED", "CLEARED"})
      OBVIOUS
    <3> QED
      BY <1>0, <3>1, <3>2, Zenon
  <2>2. fetch' \in Fetches /\ screen' \in Screens /\ Reconciling'
    <3>1. ActiveRows(alarmLog) \subseteq AlarmRows
      BY <1>0 DEF ActiveRows
    <3>2. CASE ServeActive
      BY <1>0, <3>1, <3>2 DEF ServeActive, DaemonUnchanged, Fetches, Reconciling, EventIsReconciled
    <3>3. CASE FetchFails
      BY <1>0, <3>3 DEF FetchFails, DaemonUnchanged, Screens, Fetches, NoFetch, Reconciling, EventIsReconciled
    <3>4. CASE RetryFetch \/ LoseFrames
      <4>1. fetch' \in {fetch, Asked} /\ screen' = screen /\ (screen.behind => fetch' = Asked)
        BY <1>0, <3>4 DEF RetryFetch, LoseFrames, DaemonUnchanged, Invalidate, Reconciling
      <4>2. fetch' \in Fetches /\ screen' \in Screens
        BY <1>0, <4>1
      <4>3. Asked.stage # "idle" /\ Asked.fresh
        BY DEF Asked
      <4> QED
        BY <1>0, <4>1, <4>2, <4>3 DEF Reconciling, EventIsReconciled
    <3> QED
      BY <1>11, <3>2, <3>3, <3>4
  <2>3. AlarmTypeOK' /\ ActiveWasRaised'
    BY <1>0, <2>1, <2>2, TabTypes DEF ActiveWasRaised
  <2> QED
    BY <2>1, <2>2, <2>3, SameLog
<1>12. CASE LandSnapshot
  <2>1. /\ UNCHANGED <<engine, raised, writes, alarmLog, wire, acks>> /\ fetch' = NoFetch
        /\ \E q \in {screen.point, PointOf(fetch.rows)} :
              screen' = [screen EXCEPT !.loaded = TRUE, !.rows = fetch.rows,
                                       !.behind = @ /\ ~fetch.fresh, !.point = q]
    BY <1>12 DEF LandSnapshot, DaemonUnchanged
  <2>2. screen.point \in PointRange /\ PointOf(fetch.rows) \in PointRange /\ fetch.rows \in SUBSET AlarmRows
    BY <1>0, PointRanges DEF Screens, Fetches
  <2>3. screen' \in Screens /\ Reconciling'
    <3>1. PICK q \in PointRange :
             screen' = [screen EXCEPT !.loaded = TRUE, !.rows = fetch.rows,
                                       !.behind = @ /\ ~fetch.fresh, !.point = q]
      BY <2>1, <2>2
    <3>2. screen' = [page |-> screen.page, loaded |-> TRUE, rows |-> fetch.rows, point |-> q,
                     timer |-> screen.timer, behind |-> screen.behind /\ ~fetch.fresh]
      BY <1>0, <3>1 DEF Screens
    <3> QED
      BY <1>0, <2>2, <3>2 DEF Screens, Reconciling, EventIsReconciled
  <2>4. AlarmTypeOK' /\ ActiveWasRaised'
    BY <1>0, <2>1, <2>3, TabTypes DEF ActiveWasRaised
  <2> QED
    BY <2>1, <2>3, <2>4, SameLog
<1>13. CASE SwitchPage
  <2>1. /\ UNCHANGED <<engine, raised, writes, alarmLog, wire, acks>> /\ fetch' \in {fetch, Asked}
        /\ \E g \in {"dashboard", "alarms"} :
              screen' = [screen EXCEPT !.page = g, !.point = PointOf(screen.rows),
                                       !.timer = FALSE, !.behind = FALSE]
    BY <1>13 DEF SwitchPage, DaemonUnchanged
  <2>2. screen' \in Screens /\ Reconciling'
    <3>1. PICK g \in {"dashboard", "alarms"} :
              screen' = [screen EXCEPT !.page = g, !.point = PointOf(screen.rows),
                                       !.timer = FALSE, !.behind = FALSE]
      BY <2>1
    <3>2. screen' = [page |-> g, loaded |-> screen.loaded, rows |-> screen.rows,
                     point |-> PointOf(screen.rows), timer |-> FALSE, behind |-> FALSE]
      BY <1>0, <3>1 DEF Screens
    <3> QED
      BY <1>0, <3>2, PointRanges DEF Screens, Reconciling, EventIsReconciled
  <2>3. AlarmTypeOK' /\ ActiveWasRaised'
    BY <1>0, <2>1, <2>2, TabTypes DEF ActiveWasRaised
  <2> QED
    BY <2>1, <2>2, <2>3, SameLog
<1>14. CASE UNCHANGED alarmVars
  BY <1>14 DEF alarmVars, AlarmInv, AlarmTypeOK, RowsAreOccurrences, LogHasNewest,
               ActiveWasRaised, Reconciling, EventIsReconciled
<1> QED
  BY <1>1, <1>2, <1>3, <1>4, <1>5, <1>6, <1>7, <1>8, <1>9, <1>10, <1>11, <1>12, <1>13, <1>14
  DEF AlarmNext

\* The point is what the newest row says.
LEMMA PointIsNewest ==
  ASSUME AlarmInv, NEW r, IsNewest(r, alarmLog)
  PROVE  PointOf(alarmLog) = RowState(r)
<1>1. \A t \in alarmLog : t.n \in Nat
  BY RowNumber DEF AlarmInv, AlarmTypeOK
<1> QED
  BY <1>1, NewestIs DEF AlarmInv, RowsAreOccurrences

\* And so it is after a step.
LEMMA PointIsNewestNext ==
  ASSUME AlarmInv', NEW r, IsNewest(r, alarmLog')
  PROVE  PointOf(alarmLog') = RowState(r)
<1>1. \A t \in alarmLog' : t.n \in Nat
  BY RowNumber DEF AlarmInv, AlarmTypeOK
<1> QED
  BY <1>1, NewestIs DEF AlarmInv, RowsAreOccurrences

\* With no row, nothing is cleared or acknowledged.
LEMMA EmptyLogStep ==
  ASSUME alarmLog = {}
  PROVE  PointOf(alarmLog) = "NORMAL" /\ MarkCleared(alarmLog) = {} /\ \A n : Acknowledged(alarmLog, n) = {}
BY DEF PointOf, MarkCleared, Acknowledged

\* Clearing the rows is a return to normal of the point, or no event of it.
LEMMA ClearedPoint ==
  ASSUME AlarmInv, AlarmInv', alarmLog' = MarkCleared(alarmLog)
  PROVE  PointOf(alarmLog') = Machine!Transition(PointOf(alarmLog), "CLEARED")
<1>1. CASE alarmLog = {}
  BY <1>1, EmptyLogStep DEF Machine!Transition
<1>2. CASE alarmLog # {}
  <2>1. PICK r \in alarmLog : IsNewest(r, alarmLog)
    BY <1>2 DEF AlarmInv, LogHasNewest
  <2> DEFINE c == [r EXCEPT !.cleared = TRUE]
  <2>2. ASSUME NEW s \in alarmLog' PROVE \E t \in alarmLog : s.n = t.n
    <3>1. PICK t \in alarmLog : s = [t EXCEPT !.cleared = TRUE]
      BY DEF MarkCleared
    <3>2. t \in AlarmRows
      BY DEF AlarmInv, AlarmTypeOK
    <3> QED
      BY <3>1, <3>2, RowSteps
  <2>3. c.n = r.n /\ c \in alarmLog'
    <3>1. r \in AlarmRows
      BY <2>1 DEF AlarmInv, AlarmTypeOK
    <3>2. c.n = r.n
      BY <3>1, RowSteps
    <3> QED
      BY <2>1, <3>2 DEF MarkCleared
  <2>4. RowState(c) = Machine!Transition(RowState(r), "CLEARED")
    BY RowSteps DEF AlarmInv, AlarmTypeOK
  <2> HIDE DEF c
  <2>5. IsNewest(c, alarmLog')
    BY <2>1, <2>2, <2>3 DEF IsNewest
  <2> QED
    BY <2>1, <2>4, <2>5, PointIsNewest, PointIsNewestNext
<1> QED
  BY <1>1, <1>2

\* Acknowledging a row acknowledges the point, or is no event of it.
LEMMA AcknowledgedPoint ==
  ASSUME AlarmInv, AlarmInv', NEW n, alarmLog' = Acknowledged(alarmLog, n)
  PROVE  PointOf(alarmLog') \in {PointOf(alarmLog), Machine!Transition(PointOf(alarmLog), "ACK")}
<1>1. CASE alarmLog = {}
  BY <1>1, EmptyLogStep
<1>2. CASE alarmLog # {}
  <2>1. PICK r \in alarmLog : IsNewest(r, alarmLog)
    BY <1>2 DEF AlarmInv, LogHasNewest
  <2> DEFINE c == [r EXCEPT !.acked = @ \/ n \in {0, r.n}]
  <2>2. ASSUME NEW s \in alarmLog' PROVE \E t \in alarmLog : s.n = t.n
    <3>1. PICK t \in alarmLog : s = [t EXCEPT !.acked = @ \/ n \in {0, t.n}]
      BY DEF Acknowledged
    <3>2. t \in AlarmRows
      BY DEF AlarmInv, AlarmTypeOK
    <3> QED
      BY <3>1, <3>2, RowSteps
  <2>3. c.n = r.n /\ c \in alarmLog'
    <3>1. r \in AlarmRows
      BY <2>1 DEF AlarmInv, AlarmTypeOK
    <3>2. c.n = r.n
      BY <3>1, RowSteps
    <3> QED
      BY <2>1, <3>2 DEF Acknowledged
  <2>4. RowState(c) \in {RowState(r), Machine!Transition(RowState(r), "ACK")}
    BY RowSteps DEF AlarmInv, AlarmTypeOK
  <2> HIDE DEF c
  <2>5. IsNewest(c, alarmLog')
    BY <2>1, <2>2, <2>3 DEF IsNewest
  <2> QED
    BY <2>1, <2>4, <2>5, PointIsNewest, PointIsNewestNext
<1> QED
  BY <1>1, <1>2

\* An insert raises the point, or is older than its newest row.
LEMMA InsertedPoint ==
  ASSUME AlarmInv, AlarmInv', NEW n \in Occurrences, alarmLog' = Inserted(alarmLog, n)
  PROVE  PointOf(alarmLog') \in {PointOf(alarmLog), Machine!Transition(PointOf(alarmLog), "TRIGGERED")}
<1> DEFINE new == [n |-> n, cleared |-> FALSE, acked |-> FALSE]
<1>1. /\ alarmLog' = alarmLog \union {new} /\ new.n = n /\ RowState(new) = "UNACKNOWLEDGED"
      /\ new \in AlarmRows
  BY DEF Inserted, RowState, AlarmRows
<1>2. Machine!Transition(PointOf(alarmLog), "TRIGGERED") = "UNACKNOWLEDGED"
  BY DEF Machine!Transition
<1> HIDE DEF new
<1>3. PICK r \in alarmLog' : IsNewest(r, alarmLog')
  BY <1>1 DEF AlarmInv, LogHasNewest
<1>4. PointOf(alarmLog') = RowState(r)
  BY <1>3, PointIsNewestNext
<1>5. CASE r = new
  BY <1>1, <1>2, <1>4, <1>5
<1>6. CASE r \in alarmLog
  <2>1. IsNewest(r, alarmLog)
    BY <1>1, <1>3, <1>6 DEF IsNewest
  <2> QED
    BY <1>4, <2>1, PointIsNewest
<1> QED
  BY <1>1, <1>3, <1>5, <1>6

\* Every step of the log is one of the alarm state machine, or leaves the
\* point.
LEMMA LogStep ==
  ASSUME AlarmInv, AlarmInv', [AlarmNext]_alarmVars
  PROVE  [PointOf(alarmLog') \in {Machine!Transition(PointOf(alarmLog), e) : e \in {"TRIGGERED", "CLEARED", "ACK"}}]_(PointOf(alarmLog))
<1>1. \/ alarmLog' = alarmLog
      \/ \E w \in writes : alarmLog' = Inserted(alarmLog, w.n)
      \/ alarmLog' = MarkCleared(alarmLog)
      \/ \E n : alarmLog' = Acknowledged(alarmLog, n)
  BY DEF AlarmNext, alarmVars, StatusFrame, UiUnchanged, Silence, Restart, Persist, OtherOperatorAcks,
         ClickAck, DaemonUnchanged, ServeAck, AckSettles, HearAlarm, CoalesceEnds, ServeActive,
         LandSnapshot, FetchFails, RetryFetch, LoseFrames, SwitchPage
<1>2. CASE alarmLog' = alarmLog
  BY <1>2
<1>3. CASE \E w \in writes : alarmLog' = Inserted(alarmLog, w.n)
  <2>1. \A w \in writes : w.n \in Occurrences
    BY DEF AlarmInv, AlarmTypeOK
  <2> QED
    BY <1>3, <2>1, InsertedPoint
<1>4. CASE alarmLog' = MarkCleared(alarmLog)
  BY <1>4, ClearedPoint
<1>5. CASE \E n : alarmLog' = Acknowledged(alarmLog, n)
  BY <1>5, AcknowledgedPoint
<1> QED
  BY <1>1, <1>2, <1>3, <1>4, <1>5

\* While the alarm list is open, an event whose row it may lack has a refetch
\* ahead: one whose timer runs, or one under way that started after the event.
\* For any number of occurrences, frames and writes (useAlarmRealtimeSync).
THEOREM AlarmEventsReconciled == AlarmSpec => [](AlarmTypeOK /\ EventIsReconciled)
<1>1. AlarmSpec => []AlarmInv
  BY AlarmInitInv, AlarmStepInv, PTL DEF AlarmSpec
<1>2. AlarmInv => AlarmTypeOK /\ EventIsReconciled
  BY DEF AlarmInv, Reconciling
<1> QED
  BY <1>1, <1>2, PTL

\* Whatever order its writes land in, the newest row of a point moves only as
\* lib/alarmMachine.ts says, for any number of occurrences and of writes at
\* once (AlarmWorker, alarm_repo.py).
THEOREM LogImplementsMachine == AlarmSpec => LogIsAlarmMachine
<1>1. AlarmSpec => []AlarmInv
  BY AlarmInitInv, AlarmStepInv, PTL DEF AlarmSpec
<1>2. AlarmInit => Machine!PointInit
  BY DEF AlarmInit, Machine!PointInit, PointOf
<1>3. AlarmInv /\ AlarmInv' /\ [AlarmNext]_alarmVars => [Machine!PointNext]_(PointOf(alarmLog))
  BY LogStep DEF Machine!PointNext, Machine!AlarmEvents
<1> QED
  BY <1>1, <1>2, <1>3, PTL DEF AlarmSpec, LogIsAlarmMachine, Machine!PointSpec

-----------------------------------------------------------------------------
(* Tuning proposals.                                                      *)

\* What has not been proposed yet has not been written.
ToComeAreUnwritten == \A r \in Recs : r > store.rec => written[r] = 0

\* What may be applied has not been written.
ApplicableIsUnwritten == Applicable(store) => written[store.rec] = 0

\* What a handler is writing was proposed and has not been written.
WritingIsUnwritten == writing.rec # 0 => writing.rec <= store.rec /\ written[writing.rec] = 0

\* The inductive invariant: the types, and what has not been written yet.
TuneInv ==
    /\ TuneTypeOK /\ WrittenAtMostOnce
    /\ ToComeAreUnwritten /\ ApplicableIsUnwritten /\ WritingIsUnwritten

\* The invariant holds at first.
LEMMA TuneInitInv == TuneInit => TuneInv
<1> SUFFICES ASSUME TuneInit PROVE TuneInv
  OBVIOUS
<1> USE DEF TuneInit
<1>1. TuneTypeOK
  <2>1. 0 \in 0 .. MaxRecs
    BY TuningAssumption
  <2>2. /\ store \in [rec : 0 .. MaxRecs, status : {"pending", "applied", "expired"}]
        /\ writing \in [rec : 0 .. MaxRecs, by : {"nobody", "panel", "other"}]
    BY <2>1 DEF NoWriting
  <2>3. written \in [Recs -> 0 .. 2]
    OBVIOUS
  <2>4. desk \in [rec : 0 .. MaxRecs, pending : BOOLEAN, due : BOOLEAN, auto : BOOLEAN,
                 dialog : BOOLEAN, call : {"none", "posted", "applied", "refused"},
                 shown : 0 .. MaxRecs, last : 0 .. MaxRecs]
    BY <2>1 DEF FreshDesk
  <2> QED
    BY <2>2, <2>3, <2>4 DEF TuneTypeOK
<1>2. WrittenAtMostOnce /\ ToComeAreUnwritten
  BY DEF WrittenAtMostOnce, ToComeAreUnwritten
<1>3. ApplicableIsUnwritten /\ WritingIsUnwritten
  BY DEF ApplicableIsUnwritten, Applicable, WritingIsUnwritten, NoWriting
<1> QED
  BY <1>1, <1>2, <1>3 DEF TuneInv

\* A step of the desk that keeps its fields in range is well typed.
LEMMA TuneDeskType ==
  ASSUME TuneTypeOK, DaemonSame,
         \/ LoadRecommendation \/ RefreshRoster \/ OpenApplyDialog \/ CancelApply
         \/ ConfirmApply \/ AutoApply \/ ApplySettles \/ RemountPanel
  PROVE  TuneTypeOK'
<1>1. store' = store /\ writing' = writing /\ written' = written /\ setting' = setting
  BY DEF DaemonSame
<1>2. desk' \in [rec : 0 .. MaxRecs, pending : BOOLEAN, due : BOOLEAN, auto : BOOLEAN,
                 dialog : BOOLEAN, call : {"none", "posted", "applied", "refused"},
                 shown : 0 .. MaxRecs, last : 0 .. MaxRecs]
  <2> USE DEF TuneTypeOK
  <2>0. 0 \in 0 .. MaxRecs
    BY TuningAssumption
  <2>1. CASE LoadRecommendation
    BY <2>1 DEF LoadRecommendation
  <2>2. CASE RefreshRoster
    BY <2>2 DEF RefreshRoster
  <2>3. CASE OpenApplyDialog
    BY <2>3 DEF OpenApplyDialog
  <2>4. CASE CancelApply
    BY <2>4 DEF CancelApply
  <2>5. CASE ConfirmApply
    BY <2>5 DEF ConfirmApply
  <2>6. CASE AutoApply
    BY <2>6 DEF AutoApply
  <2>7. CASE ApplySettles
    <3>1. CASE desk' = [desk EXCEPT !.call = "none", !.shown = 0, !.dialog = FALSE,
                                    !.due = TRUE, !.auto = setting]
      BY <2>0, <3>1
    <3>2. CASE desk' = [desk EXCEPT !.call = "none", !.shown = 0]
      BY <2>0, <3>2
    <3> QED
      BY <2>7, <3>1, <3>2 DEF ApplySettles
  <2>8. CASE RemountPanel
    <3>1. desk' = [rec |-> desk.rec, pending |-> desk.pending, due |-> TRUE, auto |-> desk.auto,
                   dialog |-> FALSE, call |-> "none", shown |-> 0, last |-> 0]
      BY <2>8 DEF RemountPanel, FreshDesk
    <3> QED
      BY <2>0, <3>1
  <2> QED
    BY <2>1, <2>2, <2>3, <2>4, <2>5, <2>6, <2>7, <2>8
<1> QED
  BY <1>1, <1>2 DEF TuneTypeOK

\* A step of the desk alone keeps the invariant.
LEMMA TuneDeskSame ==
  ASSUME TuneInv, TuneTypeOK', UNCHANGED <<store, writing, written>>
  PROVE  TuneInv'
BY DEF TuneInv, WrittenAtMostOnce, ToComeAreUnwritten, ApplicableIsUnwritten, Applicable,
       WritingIsUnwritten

\* An answered call keeps the types.
LEMMA TuneAnswered ==
  ASSUME TuneTypeOK, NEW call \in {"applied", "refused"}, desk' = Answered(call)
  PROVE  desk' \in [rec : 0 .. MaxRecs, pending : BOOLEAN, due : BOOLEAN, auto : BOOLEAN,
                    dialog : BOOLEAN, call : {"none", "posted", "applied", "refused"},
                    shown : 0 .. MaxRecs, last : 0 .. MaxRecs]
BY DEF TuneTypeOK, Answered

\* Every step keeps the invariant.
LEMMA TuneStepInv == TuneInv /\ [TuneNext]_tuneVars => TuneInv'
<1> SUFFICES ASSUME TuneInv, [TuneNext]_tuneVars PROVE TuneInv'
  OBVIOUS
<1>0. TuneTypeOK /\ store.rec \in 0 .. MaxRecs /\ MaxRecs \in Nat
  BY TuningAssumption DEF TuneInv, TuneTypeOK
<1> USE DEF ToComeAreUnwritten, ApplicableIsUnwritten, WritingIsUnwritten, WrittenAtMostOnce
<1>1. CASE Propose
  <2>1. /\ store' = [rec |-> store.rec + 1, status |-> "pending"] /\ store.rec + 1 \in Recs
        /\ UNCHANGED <<writing, written, setting, desk>>
    BY <1>0, <1>1 DEF Propose, Recs
  <2>2. TuneTypeOK'
    BY <1>0, <2>1 DEF TuneTypeOK, Recs
  <2>3. written[store.rec + 1] = 0 /\ writing.rec \in Nat
    BY <1>0, <2>1 DEF TuneInv, TuneTypeOK
  <2> QED
    BY <1>0, <2>1, <2>2, <2>3 DEF TuneInv, Applicable, Recs
<1>2. CASE Expire
  <2>1. store' = [store EXCEPT !.status = "expired"] /\ UNCHANGED <<writing, written, setting, desk>>
    BY <1>2 DEF Expire
  <2>2. store'.rec = store.rec /\ store'.status = "expired"
    BY <1>0, <2>1 DEF TuneTypeOK
  <2>3. TuneTypeOK'
    BY <1>0, <2>1 DEF TuneTypeOK
  <2> QED
    BY <2>1, <2>2, <2>3 DEF TuneInv, Applicable
<1>3. CASE \E by \in {"panel", "other"} : BeginApply(by)
  <2>1. PICK by \in {"panel", "other"} : BeginApply(by)
    BY <1>3
  <2>2. /\ writing' = [rec |-> store.rec, by |-> by] /\ Applicable(store)
        /\ UNCHANGED <<store, written, setting, desk>>
    BY <2>1 DEF BeginApply
  <2>3. TuneTypeOK'
    BY <1>0, <2>2 DEF TuneTypeOK
  <2> QED
    BY <1>0, <2>2, <2>3 DEF TuneInv
<1>4. CASE WriteDone
  <2> DEFINE w == writing.rec
  <2>1. /\ w # 0 /\ written' = [written EXCEPT ![w] = IF @ = 0 THEN 1 ELSE 2]
        /\ store' = [store EXCEPT !.status = "applied"]
        /\ writing' = NoWriting /\ desk' = Answered("applied") /\ setting' = setting
    BY <1>4 DEF WriteDone
  <2>2. w \in Recs /\ w <= store.rec /\ written[w] = 0 /\ written \in [Recs -> 0 .. 2]
    BY <1>0, <2>1 DEF TuneInv, TuneTypeOK, Recs
  <2> HIDE DEF w
  <2>3. written' = [written EXCEPT ![w] = 1] /\ written' \in [Recs -> 0 .. 2]
    BY <2>1, <2>2
  <2>4. store'.rec = store.rec /\ store'.status = "applied"
        /\ store' \in [rec : 0 .. MaxRecs, status : {"pending", "applied", "expired"}]
    BY <1>0, <2>1 DEF TuneTypeOK
  <2>5. TuneTypeOK'
    BY <1>0, <2>1, <2>3, <2>4, TuneAnswered DEF TuneTypeOK, NoWriting
  <2>6. WrittenAtMostOnce' /\ ToComeAreUnwritten'
    BY <1>0, <2>2, <2>3, <2>4 DEF TuneInv, Recs
  <2>7. ApplicableIsUnwritten' /\ WritingIsUnwritten'
    BY <2>1, <2>4 DEF Applicable, NoWriting
  <2> QED
    BY <2>5, <2>6, <2>7 DEF TuneInv
<1>5. CASE WriteRaises
  <2>1. /\ writing' = NoWriting /\ desk' = Answered("refused")
        /\ UNCHANGED <<store, written, setting>>
    BY <1>5 DEF WriteRaises
  <2>2. TuneTypeOK'
    BY <1>0, <2>1, TuneAnswered DEF TuneTypeOK, NoWriting
  <2> QED
    BY <2>1, <2>2 DEF TuneInv, Applicable, NoWriting
<1>6. CASE RefuseApply
  <2>1. TuneTypeOK' /\ UNCHANGED <<store, writing, written>>
    BY <1>0, <1>6 DEF RefuseApply, TuneTypeOK
  <2> QED
    BY <2>1, TuneDeskSame
<1>7. CASE OtherAdminSwitches \/ ToggleAutoApply
  <2>1. TuneTypeOK' /\ UNCHANGED <<store, writing, written>>
    BY <1>0, <1>7 DEF OtherAdminSwitches, ToggleAutoApply, TuneTypeOK
  <2> QED
    BY <2>1, TuneDeskSame
<1>8. CASE \/ LoadRecommendation \/ RefreshRoster \/ OpenApplyDialog \/ CancelApply
           \/ ConfirmApply \/ AutoApply \/ ApplySettles \/ RemountPanel
  <2>1. DaemonSame
    BY <1>8 DEF LoadRecommendation, RefreshRoster, OpenApplyDialog, CancelApply,
                ConfirmApply, AutoApply, ApplySettles, RemountPanel
  <2>2. TuneTypeOK'
    BY <1>0, <1>8, <2>1, TuneDeskType
  <2> QED
    BY <2>1, <2>2, TuneDeskSame DEF DaemonSame
<1>9. CASE UNCHANGED tuneVars
  <2>1. TuneTypeOK' /\ UNCHANGED <<store, writing, written>>
    BY <1>0, <1>9 DEF tuneVars, TuneTypeOK
  <2> QED
    BY <2>1, TuneDeskSame
<1> QED
  BY <1>1, <1>2, <1>3, <1>4, <1>5, <1>6, <1>7, <1>8, <1>9 DEF TuneNext

\* One proposal reaches the DCS at most once, however many administrators and
\* auto-applying panels post for it, for any number of proposals (commands.py
\* apply_tuning).
THEOREM ProposalsAreWrittenOnce == TuneSpec => [](TuneTypeOK /\ WrittenAtMostOnce)
<1>1. TuneSpec => []TuneInv
  BY TuneInitInv, TuneStepInv, PTL DEF TuneSpec
<1>2. TuneInv => TuneTypeOK /\ WrittenAtMostOnce
  BY DEF TuneInv
<1> QED
  BY <1>1, <1>2, PTL

-----------------------------------------------------------------------------
(* Projects.                                                              *)

\* The records of the model.
FilesType == [Projects -> {"absent", "empty", "plant"}]
Daemons   == [open : Projects, alarms : Projects, name : Projects,
              writer : Projects \union {NoProject}, loops : Projects \union {NoProject},
              tangled : BOOLEAN, asked : 0 .. MaxRequests]
Requests  == [stage : SwitchStages, kind : Kinds, to : Projects, read : Projects \union {NoProject}]
Halls     == [route : {"dashboard", "projects"}, gate : BOOLEAN, label : Projects, drift : BOOLEAN]
LoopLists == [stage : {"idle", "asked", "answered"}, got : Projects \union {NoProject},
              shown : Projects \union {NoProject}]

\* The stages of a switch past the drained writer.
Midway   == {"reopening", "loops", "limits", "reload"}
Reopened == {"loops", "limits", "reload", "answered"}

\* Unless switches ran into each other: one runs at a time; the parts of the
\* daemon agree before its writer stops and after it resumes; in between the
\* open project is the one switched to, and the limits read are of it.
SwitchIsAlone ==
    ~daemon.tangled =>
        /\ \A a, b \in Admins : Switching(a) /\ Switching(b) => a = b
        /\ (\A a \in Admins : switch[a].stage \notin Midway) =>
              daemon.alarms = daemon.open /\ daemon.name = daemon.open /\ daemon.writer = daemon.open
        /\ \A a \in Admins :
              /\ switch[a].stage \in Midway \ {"reopening"} => daemon.open = switch[a].to
              /\ switch[a].stage = "reload" => switch[a].read = daemon.open

\* A page that no other switch drifted from: none of the other administrator is
\* under way, and until its own has reopened the database what it shows, and the
\* answer on its way, are of the open project.
PageKnowsThePlant ==
    ~hall.drift /\ ~daemon.tangled =>
        /\ switch["there"].stage \notin Busy \union {"posted"}
        /\ switch["here"].stage \notin Reopened =>
              /\ hall.route = "dashboard" /\ loopList.stage = "idle" => loopList.shown = daemon.open
              /\ loopList.stage = "answered" => loopList.got = daemon.open

\* The limits reloaded are of a project that was open.
LimitsWereRead == \A a \in Admins : switch[a].stage = "reload" => switch[a].read \in Projects

\* The inductive invariant: a switch runs alone, or it is tangled.
ProjectInv == ProjectTypeOK /\ SwitchIsAlone /\ PageKnowsThePlant /\ LimitsWereRead

\* The types, of records.
LEMMA ProjectTypes ==
  ProjectTypeOK <=> /\ files \in FilesType /\ daemon \in Daemons /\ switch \in [Admins -> Requests]
                    /\ hall \in Halls /\ loopList \in LoopLists
BY DEF ProjectTypeOK, FilesType, Daemons, Requests, Halls, LoopLists

\* And after a step.
LEMMA ProjectTypesNext ==
  ProjectTypeOK' <=> /\ files' \in FilesType /\ daemon' \in Daemons /\ switch' \in [Admins -> Requests]
                     /\ hall' \in Halls /\ loopList' \in LoopLists
BY DEF ProjectTypeOK, FilesType, Daemons, Requests, Halls, LoopLists

\* The fields.
LEMMA ProjectFacts ==
  ASSUME ProjectInv
  PROVE  /\ files \in FilesType /\ daemon \in Daemons /\ switch \in [Admins -> Requests]
         /\ hall \in Halls /\ loopList \in LoopLists
         /\ daemon.open \in Projects /\ daemon.alarms \in Projects
         /\ daemon.loops \in Projects \union {NoProject} /\ daemon.asked \in 0 .. MaxRequests
         /\ \A n \in 0 .. MaxRequests : n < MaxRequests => n + 1 \in 0 .. MaxRequests
         /\ daemon.name \in Projects /\ daemon.tangled \in BOOLEAN /\ hall.drift \in BOOLEAN
         /\ \A a \in Admins : /\ switch[a] \in Requests /\ switch[a].stage \in SwitchStages
                              /\ switch[a].kind \in Kinds /\ switch[a].to \in Projects
                              /\ switch[a].read \in Projects \union {NoProject}
         /\ NoSwitch \in Requests /\ "here" \in Admins /\ "there" \in Admins
<1>1. /\ files \in FilesType /\ daemon \in Daemons /\ switch \in [Admins -> Requests]
      /\ hall \in Halls /\ loopList \in LoopLists
  BY ProjectTypes DEF ProjectInv
<1>2. /\ daemon.open \in Projects /\ daemon.alarms \in Projects /\ daemon.name \in Projects
      /\ daemon.loops \in Projects \union {NoProject} /\ daemon.asked \in 0 .. MaxRequests
      /\ daemon.tangled \in BOOLEAN
  BY <1>1 DEF Daemons
<1>3. \A a \in Admins : switch[a] \in Requests
  BY <1>1
<1>4. \A a \in Admins : /\ switch[a].stage \in SwitchStages
                        /\ switch[a].kind \in Kinds /\ switch[a].to \in Projects
                        /\ switch[a].read \in Projects \union {NoProject}
  BY <1>3 DEF Requests
<1>5. NoSwitch \in Requests
  BY ProjectAssumption DEF NoSwitch, Requests, SwitchStages, Kinds
<1>6. "here" \in Admins /\ "there" \in Admins
  BY DEF Admins
<1>7. \A n \in 0 .. MaxRequests : n < MaxRequests => n + 1 \in 0 .. MaxRequests
  BY ProjectAssumption
<1>8. hall.drift \in BOOLEAN
  BY <1>1 DEF Halls
<1> QED
  BY <1>1, <1>2, <1>3, <1>4, <1>5, <1>6, <1>7, <1>8

\* The invariant holds at first.
LEMMA ProjectInitInv == ProjectInit => ProjectInv
<1> SUFFICES ASSUME ProjectInit PROVE ProjectInv
  OBVIOUS
<1>0. 1 \in Projects /\ 0 \in 0 .. MaxRequests
  BY ProjectAssumption
<1>1. files \in FilesType
  BY DEF ProjectInit, FilesType
<1>2. /\ daemon \in Daemons /\ daemon.open = 1 /\ daemon.alarms = 1 /\ daemon.name = 1
      /\ daemon.writer = 1
  BY <1>0 DEF ProjectInit, Daemons
<1>3. switch \in [Admins -> Requests] /\ \A a \in Admins : switch[a].stage = "none"
  BY <1>0 DEF ProjectInit, NoSwitch, Requests, SwitchStages, Kinds
<1>4. hall \in Halls
  BY <1>0 DEF ProjectInit, Halls
<1>5. loopList \in LoopLists /\ loopList.stage = "asked"
  BY DEF ProjectInit, LoopLists
<1>6. SwitchIsAlone
  BY <1>2, <1>3 DEF SwitchIsAlone, Switching, Busy, Midway
<1>7. PageKnowsThePlant
  BY <1>3, <1>5 DEF PageKnowsThePlant, Busy, Admins
<1>8. LimitsWereRead
  BY <1>3 DEF LimitsWereRead
<1> QED
  BY <1>1, <1>2, <1>3, <1>4, <1>5, <1>6, <1>7, <1>8, ProjectTypes DEF ProjectInv

\* A request at another stage of its switch.
LEMMA WentOn ==
  ASSUME switch \in [Admins -> Requests], NEW a \in Admins, NEW s \in SwitchStages, Goes(a, s)
  PROVE  /\ switch' \in [Admins -> Requests]
         /\ switch'[a].stage = s /\ switch'[a].to = switch[a].to /\ switch'[a].read = switch[a].read
         /\ switch'[a].kind = switch[a].kind
         /\ \A b \in Admins : b # a => switch'[b] = switch[b]
<1>1. switch' = [switch EXCEPT ![a] = [switch[a] EXCEPT !.stage = s]]
  BY DEF Goes
<1>2. switch[a] \in Requests
  OBVIOUS
<1>3. PICK r : r = [switch[a] EXCEPT !.stage = s]
  OBVIOUS
<1>4. r \in Requests /\ r.stage = s /\ r.to = switch[a].to /\ r.read = switch[a].read /\ r.kind = switch[a].kind
  BY <1>2, <1>3 DEF Requests
<1> QED
  BY <1>1, <1>3, <1>4

\* The stages named in the steps below.
LEMMA StageNames ==
  /\ {"posted", "refused", "probing", "draining", "reopening", "loops", "limits", "reload", "answered",
      "none"} \subseteq SwitchStages
  /\ Busy = {"probing", "draining", "reopening", "loops", "limits", "reload"}
BY DEF SwitchStages, Busy

\* Steps of a switch that leave hall and list alone.
LEMMA SwitchSteps ==
  ASSUME ProjectInv, NEW a \in Admins, Switches(a)
  PROVE  ProjectInv'
<1> USE ProjectFacts
<1>i. SwitchIsAlone /\ PageKnowsThePlant /\ LimitsWereRead
  BY DEF ProjectInv
<1>h. UNCHANGED <<hall, loopList>>
  BY DEF Switches, Begin, Install, DrainWriter, ReopenDb, ReopenRaises, StartLoops, ReadLimits, Resume
<1>n. ASSUME files' \in FilesType, daemon' \in Daemons, switch' \in [Admins -> Requests],
             SwitchIsAlone', PageKnowsThePlant', LimitsWereRead'
      PROVE  ProjectInv'
  BY <1>h, <1>n, ProjectTypesNext DEF ProjectInv
<1>l. ASSUME switch'[a].stage # "reload", \A b \in Admins : b # a => switch'[b] = switch[b]
      PROVE  LimitsWereRead'
  BY <1>i, <1>l DEF LimitsWereRead
\* A page that has not drifted only sees its own switch.
<1>k. ASSUME switch[a].stage \in Busy \union {"posted"},
             ~daemon'.tangled => ~daemon.tangled,
             \A b \in Admins : b # a => switch'[b] = switch[b],
             a = "here" => \/ switch'[a].stage \in Reopened
                           \/ switch[a].stage \notin Reopened /\ (~daemon'.tangled => daemon'.open = daemon.open)
      PROVE  PageKnowsThePlant'
  <2>1. SUFFICES ASSUME ~hall.drift, ~daemon'.tangled
        PROVE  /\ switch'["there"].stage \notin Busy \union {"posted"}
               /\ switch'["here"].stage \notin Reopened =>
                     /\ hall.route = "dashboard" /\ loopList.stage = "idle" => loopList.shown = daemon'.open
                     /\ loopList.stage = "answered" => loopList.got = daemon'.open
    BY <1>h DEF PageKnowsThePlant
  <2>2. switch["there"].stage \notin Busy \union {"posted"} /\ a = "here"
    BY <1>i, <1>k, <2>1 DEF PageKnowsThePlant, Admins
  <2> QED
    BY <1>i, <1>k, <2>1, <2>2 DEF PageKnowsThePlant
<1>1. CASE Begin(a)
  <2>1. switch[a].stage = "posted"
    BY <1>1 DEF Begin, At
  <2>2. CASE Exists(To(a)) # (Kind(a) = "open")
    <3>1. Goes(a, "refused") /\ UNCHANGED <<files, daemon>>
      BY <1>1, <2>2 DEF Begin
    <3>2. /\ switch' \in [Admins -> Requests] /\ switch'[a].stage = "refused"
          /\ \A b \in Admins : b # a => switch'[b] = switch[b]
      BY <3>1, WentOn, StageNames
    <3>3. SwitchIsAlone'
      BY <1>i, <2>1, <3>1, <3>2, StageNames DEF SwitchIsAlone, Switching, Midway
    <3>4. PageKnowsThePlant'
      BY <1>k, <2>1, <3>1, <3>2 DEF Reopened
    <3> QED
      BY <1>l, <1>n, <3>1, <3>2, <3>3, <3>4
  <2>3. CASE ~(Exists(To(a)) # (Kind(a) = "open"))
    <3> DEFINE s == IF Kind(a) = "import" THEN "probing" ELSE "draining"
               t == daemon.tangled \/ Tangles(a)
    <3>1. Goes(a, s) /\ daemon' = [daemon EXCEPT !.tangled = t] /\ UNCHANGED files
      BY <1>1, <2>3 DEF Begin
    <3>2. s \in {"probing", "draining"} /\ t \in BOOLEAN /\ s \in SwitchStages
      BY StageNames
    <3>3. ~t => ~daemon.tangled /\ \A b \in Admins \ {a} : ~Switching(b)
      BY DEF Tangles
    <3> HIDE DEF s, t
    <3>4. /\ switch' \in [Admins -> Requests] /\ switch'[a].stage = s
          /\ \A b \in Admins : b # a => switch'[b] = switch[b]
      BY <3>1, <3>2, WentOn
    <3>5. /\ daemon' \in Daemons /\ daemon'.tangled = t /\ daemon'.open = daemon.open
          /\ daemon'.alarms = daemon.alarms /\ daemon'.name = daemon.name /\ daemon'.writer = daemon.writer
      BY <3>1, <3>2 DEF Daemons
    <3>6. SwitchIsAlone'
      <4>1. SUFFICES ASSUME ~daemon'.tangled
            PROVE  /\ \A c, b \in Admins : Switching(c)' /\ Switching(b)' => c = b
                   /\ daemon.alarms = daemon.open /\ daemon.name = daemon.open /\ daemon.writer = daemon.open
                   /\ \A b \in Admins : switch'[b].stage \notin Midway
        BY <3>5 DEF SwitchIsAlone, Midway
      <4>2. \A b \in Admins \ {a} : switch[b].stage \notin Busy
        BY <3>3, <3>5, <4>1 DEF Switching
      <4>3. \A b \in Admins : switch[b].stage \notin Midway
        BY <2>1, <4>2, StageNames DEF Midway
      <4>4. \A b \in Admins : switch'[b].stage \notin Midway
        BY <3>2, <3>4, <4>3 DEF Midway
      <4>5. \A c, b \in Admins : Switching(c)' /\ Switching(b)' => c = b
        BY <3>4, <4>2 DEF Switching
      <4>6. ~daemon.tangled
        BY <3>3, <3>5, <4>1
      <4> QED
        BY <1>i, <4>3, <4>4, <4>5, <4>6 DEF SwitchIsAlone
    <3>7. PageKnowsThePlant'
      BY <1>k, <2>1, <3>3, <3>4, <3>5 DEF Reopened
    <3> QED
      BY <1>l, <1>n, <3>1, <3>2, <3>4, <3>5, <3>6, <3>7
  <2> QED
    BY <2>2, <2>3
\* The steps of a switch under way.
<1>b. ASSUME Switching(a), ~daemon.tangled
      PROVE  \A b \in Admins : b # a => switch[b].stage \notin Busy /\ switch[b].stage \notin Midway
  BY <1>b, <1>i, StageNames DEF SwitchIsAlone, Switching, Midway
<1>2. CASE Install(a)
  <2>1. switch[a].stage = "probing" /\ UNCHANGED daemon
    BY <1>2 DEF Install, At
  <2>2. files' \in FilesType
    BY <1>2 DEF Install, FilesType
  <2>3. PICK s \in {"refused", "draining"} : Goes(a, s)
    BY <1>2 DEF Install
  <2>4. /\ switch' \in [Admins -> Requests] /\ switch'[a].stage = s
        /\ \A b \in Admins : b # a => switch'[b] = switch[b]
    BY <2>3, WentOn, StageNames
  <2>5. SwitchIsAlone'
    BY <1>i, <2>1, <2>4, StageNames DEF SwitchIsAlone, Switching, Midway
  <2>6. PageKnowsThePlant'
    BY <1>k, <2>1, <2>4, StageNames DEF Reopened
  <2> QED
    BY <1>l, <1>n, <2>1, <2>2, <2>4, <2>5, <2>6
<1>3. CASE DrainWriter(a)
  <2>1. switch[a].stage = "draining" /\ Goes(a, "reopening") /\ UNCHANGED files
        /\ daemon' = [daemon EXCEPT !.writer = NoProject]
    BY <1>3 DEF DrainWriter, At
  <2>2. /\ daemon' \in Daemons /\ daemon'.tangled = daemon.tangled /\ daemon'.open = daemon.open
    BY <2>1 DEF Daemons
  <2>3. /\ switch' \in [Admins -> Requests] /\ switch'[a].stage = "reopening"
        /\ \A b \in Admins : b # a => switch'[b] = switch[b]
    BY <2>1, WentOn, StageNames
  <2>4. SwitchIsAlone'
    BY <1>b, <1>i, <2>1, <2>2, <2>3, StageNames DEF SwitchIsAlone, Switching, Midway
  <2>5. PageKnowsThePlant'
    BY <1>k, <2>1, <2>2, <2>3, StageNames DEF Reopened
  <2> QED
    BY <1>l, <1>n, <2>1, <2>2, <2>3, <2>4, <2>5
<1>4. CASE ReopenDb(a)
  <2> DEFINE s == IF Kind(a) = "new" THEN "limits" ELSE "loops"
  <2>1. switch[a].stage = "reopening" /\ Goes(a, s) /\ daemon' = [daemon EXCEPT !.open = To(a)]
        /\ files' = [files EXCEPT ![To(a)] = IF Exists(To(a)) THEN @ ELSE "empty"]
    BY <1>4 DEF ReopenDb, At
  <2>2. s \in {"limits", "loops"} /\ s \in SwitchStages
    BY StageNames
  <2> HIDE DEF s
  <2>3. /\ daemon' \in Daemons /\ daemon'.tangled = daemon.tangled /\ daemon'.open = switch[a].to
    BY <2>1 DEF Daemons, To
  <2>4. files' \in FilesType
    BY <2>1 DEF FilesType, To
  <2>5. /\ switch' \in [Admins -> Requests] /\ switch'[a].stage = s /\ switch'[a].to = switch[a].to
        /\ \A b \in Admins : b # a => switch'[b] = switch[b]
    BY <2>1, <2>2, WentOn
  <2>6. SwitchIsAlone'
    BY <1>b, <1>i, <2>1, <2>2, <2>3, <2>5, StageNames DEF SwitchIsAlone, Switching, Midway
  <2>7. PageKnowsThePlant'
    BY <1>k, <2>1, <2>2, <2>3, <2>5, StageNames DEF Reopened
  <2> QED
    BY <1>l, <1>n, <2>2, <2>3, <2>4, <2>5, <2>6, <2>7
<1>5. CASE ReopenRaises(a)
  <2>1. switch[a].stage = "reopening" /\ Goes(a, "refused") /\ UNCHANGED files
        /\ daemon' = [daemon EXCEPT !.open = To(a), !.tangled = TRUE]
    BY <1>5 DEF ReopenRaises, At
  <2>2. daemon' \in Daemons /\ daemon'.tangled = TRUE
    BY <2>1 DEF Daemons, To
  <2>3. /\ switch' \in [Admins -> Requests] /\ switch'[a].stage = "refused"
        /\ \A b \in Admins : b # a => switch'[b] = switch[b]
    BY <2>1, WentOn, StageNames
  <2> QED
    BY <1>l, <1>n, <2>1, <2>2, <2>3 DEF SwitchIsAlone, PageKnowsThePlant
<1>6. CASE StartLoops(a)
  <2> DEFINE l == IF files[daemon.open] = "plant" /\ daemon.loops = NoProject THEN daemon.open ELSE daemon.loops
  <2>1. switch[a].stage = "loops" /\ Goes(a, "limits") /\ UNCHANGED files
        /\ daemon' = [daemon EXCEPT !.loops = l]
    BY <1>6 DEF StartLoops, At
  <2>2. l \in Projects \union {NoProject}
    OBVIOUS
  <2> HIDE DEF l
  <2>3. /\ daemon' \in Daemons /\ daemon'.tangled = daemon.tangled /\ daemon'.open = daemon.open
    BY <2>1, <2>2 DEF Daemons
  <2>4. /\ switch' \in [Admins -> Requests] /\ switch'[a].stage = "limits" /\ switch'[a].to = switch[a].to
        /\ \A b \in Admins : b # a => switch'[b] = switch[b]
    BY <2>1, WentOn, StageNames
  <2>5. SwitchIsAlone'
    BY <1>b, <1>i, <2>1, <2>3, <2>4, StageNames DEF SwitchIsAlone, Switching, Midway
  <2>6. PageKnowsThePlant'
    BY <1>k, <2>1, <2>3, <2>4, StageNames DEF Reopened
  <2> QED
    BY <1>l, <1>n, <2>1, <2>3, <2>4, <2>5, <2>6
<1>7. CASE ReadLimits(a)
  <2>1. switch[a].stage = "limits" /\ UNCHANGED <<files, daemon>>
        /\ switch' = [switch EXCEPT ![a].stage = "reload", ![a].read = daemon.open]
    BY <1>7 DEF ReadLimits, At
  <2>2. PICK r : r = [switch[a] EXCEPT !.stage = "reload", !.read = daemon.open]
    OBVIOUS
  <2>3. r \in Requests /\ r.stage = "reload" /\ r.read = daemon.open /\ r.to = switch[a].to
    BY <2>2, StageNames DEF Requests
  <2>4. switch' = [switch EXCEPT ![a] = r]
    BY <2>1, <2>2
  <2>5. /\ switch' \in [Admins -> Requests] /\ switch'[a] = r
        /\ \A b \in Admins : b # a => switch'[b] = switch[b]
    BY <2>3, <2>4
  <2>6. SwitchIsAlone'
    BY <1>b, <1>i, <2>1, <2>3, <2>5, StageNames DEF SwitchIsAlone, Switching, Midway
  <2>7. PageKnowsThePlant'
    BY <1>k, <2>1, <2>3, <2>5, StageNames DEF Reopened
  <2>8. LimitsWereRead'
    BY <1>i, <2>3, <2>5 DEF LimitsWereRead
  <2> QED
    BY <1>n, <2>1, <2>5, <2>6, <2>7, <2>8
<1>8. CASE Resume(a)
  <2>1. switch[a].stage = "reload" /\ Goes(a, "answered") /\ UNCHANGED files
        /\ daemon' = [daemon EXCEPT !.alarms = switch[a].read, !.name = switch[a].to, !.writer = daemon.open]
    BY <1>8 DEF Resume, At, Reloaded, To
  <2>2. switch[a].read \in Projects
    BY <1>i, <2>1 DEF LimitsWereRead
  <2>3. /\ daemon' \in Daemons /\ daemon'.tangled = daemon.tangled /\ daemon'.open = daemon.open
        /\ daemon'.alarms = switch[a].read /\ daemon'.name = switch[a].to /\ daemon'.writer = daemon.open
    BY <2>1, <2>2 DEF Daemons
  <2>4. /\ switch' \in [Admins -> Requests] /\ switch'[a].stage = "answered"
        /\ \A b \in Admins : b # a => switch'[b] = switch[b]
    BY <2>1, WentOn, StageNames
  <2>5. SwitchIsAlone'
    BY <1>b, <1>i, <2>1, <2>3, <2>4, StageNames DEF SwitchIsAlone, Switching, Midway
  <2>6. PageKnowsThePlant'
    BY <1>k, <2>1, <2>3, <2>4, StageNames DEF Reopened
  <2> QED
    BY <1>l, <1>n, <2>1, <2>3, <2>4, <2>5, <2>6
<1> QED
  BY <1>1, <1>2, <1>3, <1>4, <1>5, <1>6, <1>7, <1>8 DEF Switches

\* A page whose hall and list move, with no switch started.
LEMMA HallStep ==
  ASSUME ProjectInv, UNCHANGED <<files, daemon, switch>>, hall' \in Halls, loopList' \in LoopLists,
         PageKnowsThePlant'
  PROVE  ProjectInv'
BY ProjectFacts, ProjectTypesNext DEF ProjectInv, SwitchIsAlone, LimitsWereRead, Switching

\* A request asked for is not under way yet.
LEMMA AskedSwitch ==
  ASSUME ProjectInv, NEW a \in Admins, NEW k \in Kinds, NEW p \in Projects, AskSwitch(a, k, p)
  PROVE  /\ switch' \in [Admins -> Requests] /\ daemon' \in Daemons
         /\ SwitchIsAlone' /\ LimitsWereRead' /\ switch'[a].stage = "posted" /\ switch[a].stage = "none"
         /\ daemon'.open = daemon.open /\ daemon'.tangled = daemon.tangled
         /\ \A b \in Admins : b # a => switch'[b] = switch[b]
<1> USE ProjectFacts
<1>1. switch[a].stage = "none" /\ daemon.asked < MaxRequests
      /\ switch' = [switch EXCEPT ![a] = [stage |-> "posted", kind |-> k, to |-> p, read |-> NoProject]]
      /\ daemon' = [daemon EXCEPT !.asked = daemon.asked + 1]
  BY DEF AskSwitch, At
<1>2. PICK r : r = [stage |-> "posted", kind |-> k, to |-> p, read |-> NoProject]
  OBVIOUS
<1>3. r \in Requests /\ r.stage = "posted"
  BY <1>2, StageNames DEF Requests
<1>4. /\ switch' \in [Admins -> Requests] /\ switch'[a] = r
      /\ \A b \in Admins : b # a => switch'[b] = switch[b]
  BY <1>1, <1>2, <1>3
<1>5. /\ daemon' \in Daemons /\ daemon'.tangled = daemon.tangled /\ daemon'.open = daemon.open
      /\ daemon'.alarms = daemon.alarms /\ daemon'.name = daemon.name /\ daemon'.writer = daemon.writer
  BY <1>1 DEF Daemons
<1>6. SwitchIsAlone /\ LimitsWereRead
  BY DEF ProjectInv
<1>7. SwitchIsAlone'
  BY <1>1, <1>3, <1>4, <1>5, <1>6, StageNames DEF SwitchIsAlone, Switching, Midway
<1>8. LimitsWereRead'
  BY <1>3, <1>4, <1>6 DEF LimitsWereRead
<1> QED
  BY <1>1, <1>3, <1>4, <1>5, <1>7, <1>8

\* A switch answered or refused is forgotten.
LEMMA EndedSwitch ==
  ASSUME ProjectInv, NEW a \in Admins, EndsSwitch(a), switch[a].stage \in {"answered", "refused"},
         UNCHANGED daemon
  PROVE  /\ switch' \in [Admins -> Requests] /\ SwitchIsAlone' /\ LimitsWereRead'
         /\ switch'[a].stage = "none"
         /\ \A b \in Admins : b # a => switch'[b] = switch[b]
<1> USE ProjectFacts
<1>1. switch' = [switch EXCEPT ![a] = NoSwitch]
  BY DEF EndsSwitch
<1>2. NoSwitch.stage = "none"
  BY DEF NoSwitch
<1>3. /\ switch' \in [Admins -> Requests] /\ switch'[a] = NoSwitch
      /\ \A b \in Admins : b # a => switch'[b] = switch[b]
  BY <1>1
<1>4. SwitchIsAlone /\ LimitsWereRead
  BY DEF ProjectInv
<1>5. SwitchIsAlone'
  BY <1>2, <1>3, <1>4, StageNames DEF SwitchIsAlone, Switching, Midway
<1>6. LimitsWereRead'
  BY <1>2, <1>3, <1>4 DEF LimitsWereRead
<1> QED
  BY <1>2, <1>3, <1>5, <1>6

\* The list is read again, unless a request is under way.
LEMMA ListAsked ==
  ASSUME loopList \in LoopLists, NEW m \in BOOLEAN, LoopListAsked(m)
  PROVE  /\ loopList' \in LoopLists
         /\ m /\ loopList.stage = "idle" => loopList'.stage = "asked"
         /\ ~m \/ loopList.stage # "idle" => loopList' = loopList
<1>1. CASE m /\ loopList.stage = "idle"
  <2>1. loopList' = [loopList EXCEPT !.stage = "asked"]
    BY <1>1 DEF LoopListAsked
  <2> QED
    BY <1>1, <2>1 DEF LoopLists
<1>2. CASE ~(m /\ loopList.stage = "idle")
  BY <1>2 DEF LoopListAsked
<1> QED
  BY <1>1, <1>2

\* The requests of the two pages.
LEMMA RequestSteps ==
  ASSUME ProjectInv,
         PageSwitches \/ OtherSwitches \/ OnOpened \/ OnRefused \/ OtherAnswered \/ DeleteProject
  PROVE  ProjectInv'
<1> USE ProjectFacts
<1>i. SwitchIsAlone /\ PageKnowsThePlant /\ LimitsWereRead
  BY DEF ProjectInv
<1>n. ASSUME files' \in FilesType, daemon' \in Daemons, switch' \in [Admins -> Requests],
             hall' \in Halls, loopList' \in LoopLists, SwitchIsAlone', PageKnowsThePlant', LimitsWereRead'
      PROVE  ProjectInv'
  BY <1>n, ProjectTypesNext DEF ProjectInv
<1>1. CASE PageSwitches
  <2>1. \E k \in Kinds, p \in Projects : AskSwitch("here", k, p)
    BY <1>1 DEF PageSwitches, OpenListed, CreateNew, ImportFile, OpenWelcomed, Kinds
  <2>2. PICK k \in Kinds, p \in Projects : AskSwitch("here", k, p)
    BY <2>1
  <2>3. UNCHANGED <<files, hall, loopList>>
    BY <1>1 DEF PageSwitches
  <2>4. /\ switch' \in [Admins -> Requests] /\ daemon' \in Daemons /\ SwitchIsAlone' /\ LimitsWereRead'
        /\ switch'["here"].stage = "posted" /\ switch["here"].stage = "none"
        /\ daemon'.open = daemon.open /\ daemon'.tangled = daemon.tangled
        /\ switch'["there"] = switch["there"]
    BY <2>2, AskedSwitch
  <2>5. PageKnowsThePlant'
    BY <1>i, <2>3, <2>4 DEF PageKnowsThePlant, Reopened
  <2> QED
    BY <1>n, <2>3, <2>4, <2>5
<1>2. CASE OtherSwitches
  <2>1. PICK k \in Kinds, p \in Projects : AskSwitch("there", k, p)
    BY <1>2 DEF OtherSwitches
  <2>2. hall' = [hall EXCEPT !.drift = TRUE] /\ UNCHANGED <<files, loopList>>
    BY <1>2 DEF OtherSwitches
  <2>3. hall' \in Halls /\ hall'.drift = TRUE
    BY <2>2 DEF Halls
  <2>4. PageKnowsThePlant'
    BY <2>3 DEF PageKnowsThePlant
  <2>5. switch' \in [Admins -> Requests] /\ daemon' \in Daemons /\ SwitchIsAlone' /\ LimitsWereRead'
    BY <2>1, AskedSwitch
  <2> QED
    BY <1>n, <2>2, <2>3, <2>4, <2>5
<1>3. CASE OnOpened
  <2> DEFINE to == IF Kind("here") = "open" THEN "dashboard" ELSE hall.route
             drift == hall.drift \/ hall.route = "dashboard" \/ loopList.stage # "idle"
             mounts == Kind("here") = "open" /\ hall.route = "projects"
  <2>1. /\ switch["here"].stage = "answered" /\ EndsSwitch("here") /\ UNCHANGED <<files, daemon>>
        /\ hall' = [hall EXCEPT !.route = to, !.gate = FALSE, !.drift = drift]
        /\ LoopListAsked(mounts)
    BY <1>3 DEF OnOpened, At
  <2>2. hall.route \in {"dashboard", "projects"} /\ hall.drift \in BOOLEAN
    BY DEF Halls
  <2>3. to \in {"dashboard", "projects"} /\ drift \in BOOLEAN /\ mounts \in BOOLEAN
    BY <2>2
  <2>4. ~drift => /\ ~hall.drift /\ hall.route = "projects" /\ loopList.stage = "idle"
                  /\ mounts \/ to = "projects"
    BY <2>2
  <2> HIDE DEF to, drift, mounts
  <2>5. hall' \in Halls /\ hall'.route = to /\ hall'.drift = drift
    BY <2>1, <2>3 DEF Halls
  <2>6. /\ loopList' \in LoopLists
        /\ mounts /\ loopList.stage = "idle" => loopList'.stage = "asked"
        /\ ~mounts \/ loopList.stage # "idle" => loopList' = loopList
    BY <2>1, <2>3, ListAsked
  <2>7. /\ switch' \in [Admins -> Requests] /\ SwitchIsAlone' /\ LimitsWereRead'
        /\ switch'["there"] = switch["there"]
    BY <2>1, EndedSwitch
  <2>8. PageKnowsThePlant'
    <3>1. SUFFICES ASSUME ~drift, ~daemon.tangled PROVE PageKnowsThePlant'
      BY <2>1, <2>5 DEF PageKnowsThePlant
    <3>2. switch'["there"].stage \notin Busy \union {"posted"}
      BY <1>i, <2>4, <2>7, <3>1 DEF PageKnowsThePlant
    <3>3. CASE mounts
      BY <2>4, <2>6, <3>1, <3>2, <3>3 DEF PageKnowsThePlant
    <3>4. CASE ~mounts
      BY <2>4, <2>5, <2>6, <3>1, <3>2, <3>4 DEF PageKnowsThePlant
    <3> QED
      BY <2>3, <3>3, <3>4
  <2> QED
    BY <1>n, <2>1, <2>5, <2>6, <2>7, <2>8
<1>4. CASE OnRefused
  <2>1. switch["here"].stage = "refused" /\ EndsSwitch("here") /\ UNCHANGED <<files, daemon, hall, loopList>>
    BY <1>4 DEF OnRefused, At
  <2>2. /\ switch' \in [Admins -> Requests] /\ SwitchIsAlone' /\ LimitsWereRead'
        /\ switch'["here"].stage = "none" /\ switch'["there"] = switch["there"]
    BY <2>1, EndedSwitch
  <2>3. PageKnowsThePlant'
    BY <1>i, <2>1, <2>2 DEF PageKnowsThePlant, Reopened
  <2> QED
    BY <1>n, <2>1, <2>2, <2>3
<1>5. CASE OtherAnswered
  <2>1. switch["there"].stage \in {"answered", "refused"} /\ EndsSwitch("there")
        /\ UNCHANGED <<files, daemon, hall, loopList>>
    BY <1>5 DEF OtherAnswered, At
  <2>2. /\ switch' \in [Admins -> Requests] /\ SwitchIsAlone' /\ LimitsWereRead'
        /\ switch'["there"].stage = "none" /\ switch'["here"] = switch["here"]
    BY <2>1, EndedSwitch
  <2>3. PageKnowsThePlant'
    BY <1>i, <2>1, <2>2, StageNames DEF PageKnowsThePlant
  <2> QED
    BY <1>n, <2>1, <2>2, <2>3
<1>6. CASE DeleteProject
  <2>1. daemon.asked < MaxRequests /\ daemon' = [daemon EXCEPT !.asked = daemon.asked + 1]
        /\ UNCHANGED <<switch, hall, loopList>>
    BY <1>6 DEF DeleteProject
  <2>2. files' \in FilesType
    BY <1>6 DEF DeleteProject, FilesType, Existing
  <2>3. /\ daemon' \in Daemons /\ daemon'.tangled = daemon.tangled /\ daemon'.open = daemon.open
        /\ daemon'.alarms = daemon.alarms /\ daemon'.name = daemon.name /\ daemon'.writer = daemon.writer
    BY <2>1 DEF Daemons
  <2>4. SwitchIsAlone' /\ PageKnowsThePlant' /\ LimitsWereRead'
    BY <1>i, <2>1, <2>3 DEF SwitchIsAlone, PageKnowsThePlant, LimitsWereRead, Switching
  <2> QED
    BY <1>n, <2>1, <2>2, <2>3, <2>4
<1> QED
  BY <1>1, <1>2, <1>3, <1>4, <1>5, <1>6

\* The page on its own: dialog, navigation, list and reload.
LEMMA HallSteps ==
  ASSUME ProjectInv, DismissGate \/ NavigatePage \/ ServeLoopList \/ LoopListLands \/ ReloadPage
  PROVE  ProjectInv'
<1> USE ProjectFacts
<1>i. PageKnowsThePlant
  BY DEF ProjectInv
<1>1. CASE DismissGate
  <2>1. hall' = [hall EXCEPT !.gate = FALSE] /\ UNCHANGED <<files, daemon, switch, loopList>>
    BY <1>1 DEF DismissGate
  <2>2. hall' \in Halls /\ hall'.drift = hall.drift /\ hall'.route = hall.route
    BY <2>1 DEF Halls
  <2>3. PageKnowsThePlant'
    BY <1>i, <2>1, <2>2 DEF PageKnowsThePlant
  <2> QED
    BY <2>1, <2>2, <2>3, HallStep
<1>2. CASE NavigatePage
  <2>1. PICK to \in {"dashboard", "projects"} \ {hall.route} :
           /\ hall' = [hall EXCEPT !.route = to, !.gate = FALSE,
                          !.drift = hall.drift \/ (to = "dashboard" /\ loopList.stage # "idle")]
           /\ LoopListAsked(to = "dashboard")
    BY <1>2 DEF NavigatePage
  <2> DEFINE drift == hall.drift \/ (to = "dashboard" /\ loopList.stage # "idle")
             mounts == to = "dashboard"
  <2>2. UNCHANGED <<files, daemon, switch>>
    BY <1>2 DEF NavigatePage
  <2>3. drift \in BOOLEAN /\ mounts \in BOOLEAN
    OBVIOUS
  <2>4. ~drift => ~hall.drift /\ (mounts => loopList.stage = "idle")
    OBVIOUS
  <2>5. ~mounts => to = "projects"
    OBVIOUS
  <2>6. hall' = [hall EXCEPT !.route = to, !.gate = FALSE, !.drift = drift] /\ LoopListAsked(mounts)
    BY <2>1
  <2> HIDE DEF drift, mounts
  <2>7. hall' \in Halls /\ hall'.route = to /\ hall'.drift = drift
    BY <2>3, <2>6 DEF Halls
  <2>8. /\ loopList' \in LoopLists
        /\ mounts /\ loopList.stage = "idle" => loopList'.stage = "asked"
        /\ ~mounts \/ loopList.stage # "idle" => loopList' = loopList
    BY <2>3, <2>6, ListAsked
  <2>9. PageKnowsThePlant'
    BY <1>i, <2>2, <2>3, <2>4, <2>5, <2>7, <2>8 DEF PageKnowsThePlant
  <2> QED
    BY <2>2, <2>7, <2>8, <2>9, HallStep
<1>3. CASE ServeLoopList
  <2>1. loopList.stage = "asked" /\ loopList' = [loopList EXCEPT !.stage = "answered", !.got = daemon.open]
        /\ UNCHANGED <<files, daemon, switch, hall>>
    BY <1>3 DEF ServeLoopList
  <2>2. loopList' \in LoopLists /\ loopList'.stage = "answered" /\ loopList'.got = daemon.open
    BY <2>1 DEF LoopLists
  <2>3. PageKnowsThePlant'
    BY <1>i, <2>1, <2>2 DEF PageKnowsThePlant
  <2> QED
    BY <2>1, <2>2, <2>3, HallStep
<1>4. CASE LoopListLands
  <2>1. loopList.stage = "answered"
        /\ loopList' = [stage |-> "idle", got |-> NoProject, shown |-> loopList.got]
        /\ UNCHANGED <<files, daemon, switch, hall>>
    BY <1>4 DEF LoopListLands
  <2>2. loopList' \in LoopLists /\ loopList'.stage = "idle" /\ loopList'.shown = loopList.got
    BY <2>1 DEF LoopLists
  <2>3. PageKnowsThePlant'
    BY <1>i, <2>1, <2>2 DEF PageKnowsThePlant
  <2> QED
    BY <2>1, <2>2, <2>3, HallStep
<1>5. CASE ReloadPage
  <2> DEFINE drift == \E a \in Admins : At(a, "posted") \/ Switching(a)
  <2>1. hall' = [hall EXCEPT !.route = "dashboard", !.label = daemon.name, !.drift = drift]
        /\ loopList' = [stage |-> "asked", got |-> NoProject, shown |-> NoProject]
        /\ UNCHANGED <<files, daemon, switch>>
    BY <1>5 DEF ReloadPage
  <2>2. drift \in BOOLEAN
    OBVIOUS
  <2>3. ~drift => switch["there"].stage \notin Busy \union {"posted"}
    BY DEF At, Switching
  <2> HIDE DEF drift
  <2>4. hall' \in Halls /\ hall'.drift = drift
    BY <2>1, <2>2 DEF Halls
  <2>5. loopList' \in LoopLists /\ loopList'.stage = "asked"
    BY <2>1 DEF LoopLists
  <2>6. PageKnowsThePlant'
    BY <2>1, <2>3, <2>4, <2>5 DEF PageKnowsThePlant
  <2> QED
    BY <2>1, <2>4, <2>5, <2>6, HallStep
<1> QED
  BY <1>1, <1>2, <1>3, <1>4, <1>5

\* Every step keeps the invariant.
LEMMA ProjectStepInv == ProjectInv /\ [ProjectNext]_projVars => ProjectInv'
<1> SUFFICES ASSUME ProjectInv, [ProjectNext]_projVars PROVE ProjectInv'
  OBVIOUS
<1>1. CASE UNCHANGED projVars
  <2>1. hall' \in Halls /\ loopList' \in LoopLists /\ UNCHANGED <<files, daemon, switch>>
    BY <1>1, ProjectFacts DEF projVars
  <2>2. PageKnowsThePlant'
    BY <1>1 DEF ProjectInv, PageKnowsThePlant, projVars
  <2> QED
    BY <2>1, <2>2, HallStep
<1>2. CASE ProjectNext
  BY <1>2, SwitchSteps, RequestSteps, HallSteps DEF ProjectNext
<1> QED
  BY <1>1, <1>2

\* Once a switch is over the limits evaluated, the file written and the name
\* announced are those of the open project, and a page nothing drifted from
\* shows its loops, unless switches ran into each other; for any set of
\* projects and any number of requests (project_service.py, ProjectsPage).
THEOREM PlantFollowsTheProject ==
  ProjectSpec => [](ProjectTypeOK /\ PlantIsCoherent /\ RosterFollowsTheProject)
<1>1. ProjectInv => ProjectTypeOK /\ PlantIsCoherent /\ RosterFollowsTheProject
  <2> SUFFICES ASSUME ProjectInv PROVE ProjectTypeOK /\ PlantIsCoherent /\ RosterFollowsTheProject
    OBVIOUS
  <2>1. PlantIsCoherent
    BY StageNames DEF ProjectInv, SwitchIsAlone, PlantIsCoherent, Quiet, Switching, Midway
  <2>2. RosterFollowsTheProject
    BY DEF ProjectInv, PageKnowsThePlant, RosterFollowsTheProject, At, Reopened
  <2> QED
    BY <2>1, <2>2 DEF ProjectInv
<1> QED
  BY <1>1, ProjectInitInv, ProjectStepInv, PTL DEF ProjectSpec

-----------------------------------------------------------------------------
(* The OPC-UA connection.                                                 *)

\* The records of the model.
Plcs   == [endpoint : Endpoints, link : Links, meta : Addresses, apart : BOOLEAN, deeds : 0 .. MaxSaves]
OtherStages == {"none", "stored", "creating", "reopened", "read"}
Others == [stage : OtherStages, to : Addresses, crossed : BOOLEAN]
Panels == [cached : Status, typed : Addresses, op : Ops, to : Addresses, read : Addresses, answer : Status]
Polls  == [stage : {"idle", "asked", "answered"}, got : Status]

\* The requests of a click carry an endpoint to store, or the one last read.
ClickCarries ==
    /\ panel.op \in {"saving", "stored", "saved"} => panel.to \in Endpoints
    /\ panel.op = "saved" => panel.answer.endpoint = panel.to
    /\ panel.op = "connecting" => panel.to \in {NoEndpoint, panel.read}
    /\ other.stage = "stored" => other.to \in Endpoints

\* Two waits at once are a crossing.
CrossingIsSeen == PageWaits /\ OtherWaits => other.crossed

\* What an uncrossed wait stored, or read, is still what is stored.
StoredIsKept ==
    ~other.crossed =>
        /\ PageWaits => plc.meta = panel.to
        /\ other.stage \in {"stored", "read"} => plc.meta = other.to

\* The inductive invariant: types, what a click carries, crossed requests, and
\* the endpoint stored.
OpcuaInv == OpcuaTypeOK /\ ClickCarries /\ CrossingIsSeen /\ StoredIsKept /\ EndpointIsStored

\* The types, of records.
LEMMA OpcuaTypes ==
  OpcuaTypeOK <=> plc \in Plcs /\ other \in Others /\ panel \in Panels /\ poll \in Polls
BY DEF OpcuaTypeOK, Plcs, Others, OtherStages, Panels, Polls

\* And after a step.
LEMMA OpcuaTypesNext ==
  OpcuaTypeOK' <=> plc' \in Plcs /\ other' \in Others /\ panel' \in Panels /\ poll' \in Polls
BY DEF OpcuaTypeOK, Plcs, Others, OtherStages, Panels, Polls

\* The fields.
LEMMA OpcuaFacts ==
  ASSUME OpcuaInv
  PROVE  /\ plc \in Plcs /\ other \in Others /\ panel \in Panels /\ poll \in Polls
        /\ plc.endpoint \in Endpoints /\ plc.meta \in Addresses /\ plc.link \in Links
        /\ plc.apart \in BOOLEAN /\ plc.deeds \in 0 .. MaxSaves
        /\ other.stage \in OtherStages /\ other.to \in Addresses /\ other.crossed \in BOOLEAN
        /\ panel.cached \in Status /\ panel.cached.endpoint \in Addresses /\ panel.typed \in Addresses
        /\ panel.op \in Ops /\ panel.to \in Addresses /\ panel.read \in Addresses
        /\ panel.answer \in Status /\ panel.answer.endpoint \in Addresses
        /\ poll.got \in Status /\ Now \in Status /\ Unread \in Status
        /\ NoEndpoint \notin Endpoints /\ NoEndpoint \in Addresses /\ Configured \in Endpoints
        /\ \A e \in Endpoints : e \in Addresses
        /\ Deed => plc.deeds + 1 \in 0 .. MaxSaves
<1>1. plc \in Plcs /\ other \in Others /\ panel \in Panels /\ poll \in Polls
  BY OpcuaTypes DEF OpcuaInv
<1>2. /\ plc.endpoint \in Endpoints /\ plc.meta \in Addresses /\ plc.link \in Links
      /\ plc.apart \in BOOLEAN /\ plc.deeds \in 0 .. MaxSaves
  BY <1>1 DEF Plcs
<1>3. other.stage \in OtherStages /\ other.to \in Addresses /\ other.crossed \in BOOLEAN
  BY <1>1 DEF Others
<1>4. /\ panel.cached \in Status /\ panel.typed \in Addresses
      /\ panel.op \in Ops /\ panel.to \in Addresses /\ panel.read \in Addresses /\ panel.answer \in Status
  BY <1>1 DEF Panels
<1>5. panel.cached.endpoint \in Addresses /\ panel.answer.endpoint \in Addresses
  BY <1>4 DEF Status
<1>6. poll.got \in Status
  BY <1>1 DEF Polls
<1>7. /\ NoEndpoint \notin Endpoints /\ NoEndpoint \in Addresses /\ Configured \in Endpoints
      /\ \A e \in Endpoints : e \in Addresses
  BY OpcuaAssumption DEF NoEndpoint, Addresses
<1>8. Now \in Status /\ Unread \in Status
  BY <1>2, <1>7 DEF Now, Unread, Status, Links
<1>9. Deed => plc.deeds + 1 \in 0 .. MaxSaves
  BY <1>2, OpcuaAssumption DEF Deed
<1> QED
  BY <1>1, <1>2, <1>3, <1>4, <1>5, <1>6, <1>7, <1>8, <1>9

\* The invariant holds at first, whatever endpoint is stored.
LEMMA OpcuaInitInv == OpcuaInit => OpcuaInv
<1> SUFFICES ASSUME OpcuaInit PROVE OpcuaInv
  OBVIOUS
<1>k. NoEndpoint \in Addresses /\ Configured \in Endpoints /\ "offline" \in Links
      /\ "connecting" \in Links /\ "idle" \in Ops
  BY OpcuaAssumption DEF Addresses, Links, Ops
<1>1. plc \in Plcs /\ plc.endpoint = Configured /\ plc.apart = (plc.meta # Configured)
  BY <1>k, OpcuaAssumption DEF OpcuaInit, Plcs
<1>2. Unread \in Status
  BY <1>k DEF Unread, Status
<1>3. panel \in Panels /\ panel.op = "idle"
  BY <1>k, <1>2 DEF OpcuaInit, Panels
<1>4. poll \in Polls
  BY <1>2 DEF OpcuaInit, Polls
<1>5. other \in Others /\ other.stage = "none"
  BY <1>k DEF OpcuaInit, Others, OtherStages
<1> QED
  BY <1>1, <1>3, <1>4, <1>5, OpcuaTypes
     DEF OpcuaInv, ClickCarries, CrossingIsSeen, StoredIsKept, EndpointIsStored, PageWaits, OtherWaits

\* What redirecting the client makes of the adapter.
LEMMA RedirectedType ==
  ASSUME plc \in Plcs, NEW to \in Endpoints
  PROVE  /\ Redirected(to) \in Plcs /\ Redirected(to).endpoint = to
        /\ Redirected(to).meta = plc.meta /\ Redirected(to).apart = plc.apart
        /\ Redirected(to).deeds = plc.deeds
<1>1. "offline" \in Links
  BY DEF Links
<1>2. Redirected(to) = [plc EXCEPT !.endpoint = to, !.link = "offline"]
  BY DEF Redirected
<1> QED
  BY <1>1, <1>2 DEF Plcs

\* Counting a deed leaves the rest as it was.
LEMMA OnceMoreType ==
  ASSUME OpcuaInv, Deed, NEW p \in Plcs, p.deeds = plc.deeds
  PROVE  /\ OnceMore(p) \in Plcs /\ OnceMore(p).endpoint = p.endpoint
         /\ OnceMore(p).meta = p.meta /\ OnceMore(p).apart = p.apart
<1>1. p.deeds + 1 \in 0 .. MaxSaves
  <2>1. plc.deeds + 1 \in 0 .. MaxSaves
    BY OpcuaFacts, OpcuaAssumption DEF Deed
  <2> QED
    BY <2>1
<1>2. OnceMore(p) = [p EXCEPT !.deeds = p.deeds + 1]
  BY DEF OnceMore
<1> QED
  BY <1>1, <1>2 DEF Plcs

\* Steps of the link, and of another administrator's save.
LEMMA AdapterSteps ==
  ASSUME OpcuaInv, LinkChanges \/ OtherPoints
  PROVE  OpcuaInv'
<1> USE OpcuaFacts
<1>i. ClickCarries /\ CrossingIsSeen /\ StoredIsKept /\ EndpointIsStored
  BY DEF OpcuaInv
<1>1. CASE LinkChanges
  <2>1. plc' = [plc EXCEPT !.link = IF plc.link = "online" THEN "connecting" ELSE "online"]
    BY <1>1 DEF LinkChanges
  <2>2. UNCHANGED <<other, panel, poll>>
    BY <1>1 DEF LinkChanges
  <2>3. (IF plc.link = "online" THEN "connecting" ELSE "online") \in Links
    BY DEF Links
  <2>4. plc' \in Plcs /\ plc'.endpoint = plc.endpoint /\ plc'.meta = plc.meta /\ plc'.apart = (plc.apart)
    BY <2>1, <2>3 DEF Plcs
  <2>5. OpcuaTypeOK'
    BY <2>1, <2>2, <2>3, <2>4, OpcuaTypesNext
  <2> QED
    BY <1>i, <2>1, <2>2, <2>3, <2>4, <2>5
       DEF OpcuaInv, ClickCarries, CrossingIsSeen, StoredIsKept, EndpointIsStored, PageWaits, OtherWaits
<1>2. CASE OtherPoints
  <2>1. /\ other.stage = "stored" /\ UNCHANGED <<panel, poll>> /\ other' = OtherDone
        /\ plc' = [Redirected(other.to) EXCEPT !.apart = other.crossed]
    BY <1>2 DEF OtherPoints
  <2>2. other.to \in Endpoints
    BY <1>i, <2>1 DEF ClickCarries
  <2>3. /\ Redirected(other.to) \in Plcs /\ Redirected(other.to).endpoint = other.to
        /\ Redirected(other.to).meta = plc.meta
    BY <2>2, RedirectedType
  <2>4. plc' \in Plcs /\ plc'.endpoint = other.to /\ plc'.meta = plc.meta /\ plc'.apart = (other.crossed)
    BY <2>1, <2>3 DEF Plcs
  <2>5. (PageWaits /\ other.crossed) \in BOOLEAN
    OBVIOUS
  <2>6. /\ other' \in Others /\ other'.stage = "none"
        /\ other'.to = NoEndpoint /\ other'.crossed = (PageWaits /\ other.crossed)
    BY <2>1, <2>5 DEF OtherDone, Others, OtherStages
  <2>7. OpcuaTypeOK'
    BY <2>1, <2>2, <2>3, <2>4, <2>5, <2>6, OpcuaTypesNext
  <2> QED
    BY <1>i, <2>1, <2>2, <2>3, <2>4, <2>5, <2>6, <2>7
       DEF OpcuaInv, ClickCarries, CrossingIsSeen, StoredIsKept, EndpointIsStored, PageWaits, OtherWaits
<1> QED
  BY <1>1, <1>2

\* Another administrator stores, or opens a project that stores, an endpoint.
LEMMA StoringSteps ==
  ASSUME OpcuaInv, OtherStores \/ ProjectReopened
  PROVE  OpcuaInv'
<1> USE OpcuaFacts
<1>i. ClickCarries /\ CrossingIsSeen /\ StoredIsKept /\ EndpointIsStored
  BY DEF OpcuaInv
<1>1. CASE OtherStores
  <2>1. PICK e \in Endpoints : /\ plc' = OnceMore([plc EXCEPT !.meta = e])
                               /\ other' = [stage |-> "stored", to |-> e, crossed |-> PageWaits]
    BY <1>1 DEF OtherStores
  <2>2. Deed /\ other.stage = "none" /\ UNCHANGED <<panel, poll>> /\ e \in Addresses
    BY <1>1 DEF OtherStores, Addresses
  <2>3. /\ [plc EXCEPT !.meta = e] \in Plcs /\ [plc EXCEPT !.meta = e].deeds = plc.deeds
        /\ [plc EXCEPT !.meta = e].meta = e /\ [plc EXCEPT !.meta = e].endpoint = plc.endpoint
        /\ [plc EXCEPT !.meta = e].apart = plc.apart
    BY <2>2 DEF Plcs
  <2>4. plc' \in Plcs /\ plc'.endpoint = plc.endpoint /\ plc'.meta = e /\ plc'.apart = (plc.apart)
    BY <2>1, <2>2, <2>3, OnceMoreType
  <2>5. PageWaits \in BOOLEAN
    BY DEF PageWaits
  <2>6. /\ other' \in Others /\ other'.stage = "stored"
        /\ other'.to = e /\ other'.crossed = (PageWaits)
    BY <2>1, <2>2, <2>5 DEF Others, OtherStages
  <2>7. OpcuaTypeOK'
    BY <2>1, <2>2, <2>3, <2>4, <2>5, <2>6, OpcuaTypesNext
  <2> QED
    BY <1>i, <2>1, <2>2, <2>3, <2>4, <2>5, <2>6, <2>7
       DEF OpcuaInv, ClickCarries, CrossingIsSeen, StoredIsKept, EndpointIsStored, PageWaits, OtherWaits
<1>2. CASE ProjectReopened
  <2>1. PICK e \in Addresses : plc' = OnceMore([plc EXCEPT !.meta = e])
    BY <1>2 DEF ProjectReopened
  <2>2. /\ Deed /\ other.stage = "none" /\ UNCHANGED <<panel, poll>>
        /\ other' = [stage |-> "reopened", to |-> NoEndpoint, crossed |-> PageWaits]
    BY <1>2 DEF ProjectReopened
  <2>3. /\ [plc EXCEPT !.meta = e] \in Plcs /\ [plc EXCEPT !.meta = e].deeds = plc.deeds
        /\ [plc EXCEPT !.meta = e].meta = e /\ [plc EXCEPT !.meta = e].endpoint = plc.endpoint
        /\ [plc EXCEPT !.meta = e].apart = plc.apart
    BY DEF Plcs
  <2>4. plc' \in Plcs /\ plc'.endpoint = plc.endpoint /\ plc'.meta = e /\ plc'.apart = (plc.apart)
    BY <2>1, <2>2, <2>3, OnceMoreType
  <2>5. PageWaits \in BOOLEAN
    BY DEF PageWaits
  <2>6. /\ other' \in Others /\ other'.stage = "reopened"
        /\ other'.to = NoEndpoint /\ other'.crossed = (PageWaits)
    BY <2>2, <2>5 DEF Others, OtherStages
  <2>7. OpcuaTypeOK'
    BY <2>1, <2>2, <2>3, <2>4, <2>5, <2>6, OpcuaTypesNext
  <2> QED
    BY <1>i, <2>1, <2>2, <2>3, <2>4, <2>5, <2>6, <2>7
       DEF OpcuaInv, ClickCarries, CrossingIsSeen, StoredIsKept, EndpointIsStored, PageWaits, OtherWaits
<1> QED
  BY <1>1, <1>2

\* Steps of a project switch.
LEMMA ProjectSteps ==
  ASSUME OpcuaInv, ClientStops \/ ProjectCreated \/ ProjectRead \/ ProjectFollows
  PROVE  OpcuaInv'
<1> USE OpcuaFacts
<1>i. ClickCarries /\ CrossingIsSeen /\ StoredIsKept /\ EndpointIsStored
  BY DEF OpcuaInv
<1>1. CASE ClientStops
  <2>1. /\ Deed /\ other.stage = "none" /\ UNCHANGED <<panel, poll>>
        /\ plc' = OnceMore([plc EXCEPT !.link = "offline"])
        /\ other' = [other EXCEPT !.stage = "creating"]
    BY <1>1 DEF ClientStops
  <2>2. /\ [plc EXCEPT !.link = "offline"] \in Plcs
        /\ [plc EXCEPT !.link = "offline"].deeds = plc.deeds
        /\ [plc EXCEPT !.link = "offline"].meta = plc.meta
        /\ [plc EXCEPT !.link = "offline"].endpoint = plc.endpoint
        /\ [plc EXCEPT !.link = "offline"].apart = plc.apart
    BY DEF Plcs, Links
  <2>3. plc' \in Plcs /\ plc'.endpoint = plc.endpoint /\ plc'.meta = plc.meta /\ plc'.apart = (plc.apart)
    BY <2>1, <2>2, OnceMoreType
  <2>4. /\ other' \in Others /\ other'.stage = "creating"
        /\ other'.to = other.to /\ other'.crossed = (other.crossed)
    BY <2>1 DEF Others, OtherStages
  <2>5. OpcuaTypeOK'
    BY <2>1, <2>2, <2>3, <2>4, OpcuaTypesNext
  <2> QED
    BY <1>i, <2>1, <2>2, <2>3, <2>4, <2>5
       DEF OpcuaInv, ClickCarries, CrossingIsSeen, StoredIsKept, EndpointIsStored, PageWaits, OtherWaits
<1>2. CASE ProjectCreated
  <2>1. /\ UNCHANGED <<panel, poll>>
        /\ plc' = [plc EXCEPT !.meta = NoEndpoint, !.apart = TRUE]
        /\ other' = [stage |-> "none", to |-> NoEndpoint, crossed |-> PageWaits]
    BY <1>2 DEF ProjectCreated
  <2>2. plc' \in Plcs /\ plc'.endpoint = plc.endpoint /\ plc'.meta = NoEndpoint /\ plc'.apart = (TRUE)
    BY <2>1 DEF Plcs
  <2>3. PageWaits \in BOOLEAN
    BY DEF PageWaits
  <2>4. /\ other' \in Others /\ other'.stage = "none"
        /\ other'.to = NoEndpoint /\ other'.crossed = (PageWaits)
    BY <2>1, <2>3 DEF Others, OtherStages
  <2>5. OpcuaTypeOK'
    BY <2>1, <2>2, <2>3, <2>4, OpcuaTypesNext
  <2> QED
    BY <1>i, <2>1, <2>2, <2>3, <2>4, <2>5
       DEF OpcuaInv, ClickCarries, CrossingIsSeen, StoredIsKept, EndpointIsStored, PageWaits, OtherWaits
<1>3. CASE ProjectRead
  <2>1. /\ other.stage = "reopened" /\ UNCHANGED <<plc, panel, poll>>
        /\ other' = [other EXCEPT !.stage = "read", !.to = plc.meta]
    BY <1>3 DEF ProjectRead
  <2>2. /\ other' \in Others /\ other'.stage = "read"
        /\ other'.to = plc.meta /\ other'.crossed = (other.crossed)
    BY <2>1 DEF Others, OtherStages
  <2>3. OpcuaTypeOK'
    BY <2>1, <2>2, OpcuaTypesNext
  <2> QED
    BY <1>i, <2>1, <2>2, <2>3
       DEF OpcuaInv, ClickCarries, CrossingIsSeen, StoredIsKept, EndpointIsStored, PageWaits, OtherWaits
<1>4. CASE ProjectFollows
  <2>1. /\ other.stage = "read" /\ UNCHANGED <<panel, poll>> /\ other' = OtherDone
    BY <1>4 DEF ProjectFollows
  <2>2. (PageWaits /\ other.crossed) \in BOOLEAN
    OBVIOUS
  <2>3. /\ other' \in Others /\ other'.stage = "none"
        /\ other'.to = NoEndpoint /\ other'.crossed = (PageWaits /\ other.crossed)
    BY <2>1, <2>2 DEF OtherDone, Others, OtherStages
  <2>4. CASE other.to = NoEndpoint
    <3>1. plc' = [plc EXCEPT !.link = "offline", !.apart = TRUE]
      BY <1>4, <2>4 DEF ProjectFollows
    <3>2. plc' \in Plcs /\ plc'.apart = TRUE /\ plc'.meta = plc.meta
      BY <3>1 DEF Plcs, Links
    <3>3. OpcuaTypeOK'
      BY <2>1, <2>3, <3>2, OpcuaTypesNext
    <3> QED
      BY <1>i, <2>1, <2>3, <3>2, <3>3
         DEF OpcuaInv, ClickCarries, CrossingIsSeen, StoredIsKept, EndpointIsStored, PageWaits, OtherWaits
  <2>5. CASE other.to # NoEndpoint
    <3> DEFINE up == IF Stays(other.to) THEN plc.link ELSE "connecting"
    <3>1. plc' = [plc EXCEPT !.endpoint = other.to, !.apart = other.crossed, !.link = up]
      BY <1>4, <2>5 DEF ProjectFollows
    <3>2. up \in Links /\ other.to \in Endpoints
      BY <2>5 DEF Links, Addresses
    <3> HIDE DEF up
    <3>3. plc' \in Plcs /\ plc'.endpoint = other.to /\ plc'.apart = other.crossed /\ plc'.meta = plc.meta
      BY <3>1, <3>2 DEF Plcs
    <3>4. OpcuaTypeOK'
      BY <2>1, <2>3, <3>3, OpcuaTypesNext
    <3> QED
      BY <1>i, <2>1, <2>3, <3>3, <3>4
         DEF OpcuaInv, ClickCarries, CrossingIsSeen, StoredIsKept, EndpointIsStored, PageWaits, OtherWaits
  <2> QED
    BY <2>4, <2>5
<1> QED
  BY <1>1, <1>2, <1>3, <1>4

\* The daemon restarts.
LEMMA RestartStep ==
  ASSUME OpcuaInv, DaemonRestarts
  PROVE  OpcuaInv'
<1> USE OpcuaFacts
<1>i. ClickCarries
  BY DEF OpcuaInv
<1> DEFINE p == [plc EXCEPT !.endpoint = Configured, !.link = "connecting",
                            !.apart = plc.meta # Configured]
<1>1. p \in Plcs /\ p.endpoint = Configured /\ p.meta = plc.meta /\ p.apart = (plc.meta # Configured)
      /\ p.deeds = plc.deeds
  <2>1. "connecting" \in Links /\ (plc.meta # Configured) \in BOOLEAN
    BY DEF Links
  <2> QED
    BY <2>1 DEF Plcs
<1>2. Deed /\ plc' = OnceMore(p) /\ other' = [stage |-> "none", to |-> NoEndpoint, crossed |-> FALSE]
  BY DEF DaemonRestarts
<1> HIDE DEF p
<1>3. plc' \in Plcs /\ plc'.endpoint = Configured /\ plc'.meta = plc.meta
      /\ plc'.apart = (plc.meta # Configured)
  BY <1>1, <1>2, OnceMoreType
<1>4. other' \in Others /\ other'.stage = "none"
  BY <1>2 DEF Others, OtherStages
<1>5. poll' \in Polls
  BY DEF DaemonRestarts, Polls
<1>6. CASE panel.op \in {"saving", "stored", "connecting", "disconnecting"}
  <2>1. panel' = [panel EXCEPT !.op = "idle", !.to = NoEndpoint, !.read = NoEndpoint]
    BY <1>6 DEF DaemonRestarts
  <2>2. panel' \in Panels /\ panel'.op = "idle"
    BY <2>1 DEF Panels, Ops
  <2>3. OpcuaTypeOK'
    BY <1>3, <1>4, <1>5, <2>2, OpcuaTypesNext
  <2> QED
    BY <1>3, <1>4, <2>2, <2>3
       DEF OpcuaInv, ClickCarries, CrossingIsSeen, StoredIsKept, EndpointIsStored, PageWaits, OtherWaits
<1>7. CASE panel.op \notin {"saving", "stored", "connecting", "disconnecting"}
  <2>1. panel' = panel
    BY <1>7 DEF DaemonRestarts
  <2>2. OpcuaTypeOK'
    BY <1>3, <1>4, <1>5, <2>1, OpcuaTypesNext
  <2> QED
    BY <1>i, <1>3, <1>4, <1>7, <2>1, <2>2
       DEF OpcuaInv, ClickCarries, CrossingIsSeen, StoredIsKept, EndpointIsStored, PageWaits, OtherWaits
<1> QED
  BY <1>6, <1>7

\* The status the adapter reports after a step.
LEMMA NowNext ==
  ASSUME plc' \in Plcs
  PROVE  Now' \in Status /\ Now'.endpoint = plc'.endpoint
BY DEF Now, Status, Addresses, Plcs

\* The daemon serves the page's save.
LEMMA SaveSteps ==
  ASSUME OpcuaInv, ServeSave
  PROVE  OpcuaInv'
<1> USE OpcuaFacts
<1>i. ClickCarries /\ CrossingIsSeen /\ StoredIsKept /\ EndpointIsStored
  BY DEF OpcuaInv
<1>1. CASE /\ panel.op = "saving"
          /\ plc' = [plc EXCEPT !.meta = panel.to]
          /\ other' = [other EXCEPT !.crossed = OtherWaits]
          /\ panel' = [panel EXCEPT !.op = "stored"]
          /\ UNCHANGED poll
  <2>1. /\ plc' = [plc EXCEPT !.meta = panel.to] /\ other' = [other EXCEPT !.crossed = OtherWaits]
        /\ panel.op = "saving" /\ panel' = [panel EXCEPT !.op = "stored"] /\ UNCHANGED poll
    BY <1>1
  <2>2. panel.to \in Endpoints
    BY <1>i, <1>1 DEF ClickCarries
  <2>3. plc' \in Plcs /\ plc'.endpoint = plc.endpoint /\ plc'.meta = panel.to /\ plc'.apart = (plc.apart)
    BY <2>1, <2>2 DEF Plcs
  <2>4. OtherWaits \in BOOLEAN
    BY DEF OtherWaits
  <2>5. /\ other' \in Others /\ other'.stage = other.stage
        /\ other'.to = other.to /\ other'.crossed = (OtherWaits)
    BY <2>1, <2>4 DEF Others
  <2>6. /\ panel' \in Panels /\ panel'.op = "stored"
        /\ panel'.to = panel.to /\ panel'.read = panel.read
    BY <2>1 DEF Panels, Ops
  <2>7. OpcuaTypeOK'
    BY <2>1, <2>2, <2>3, <2>4, <2>5, <2>6, OpcuaTypesNext
  <2> QED
    BY <1>i, <2>1, <2>2, <2>3, <2>4, <2>5, <2>6, <2>7
       DEF OpcuaInv, ClickCarries, CrossingIsSeen, StoredIsKept, EndpointIsStored, PageWaits, OtherWaits
<1>2. CASE /\ panel.op = "stored"
          /\ plc' = [Redirected(panel.to) EXCEPT !.apart = other.crossed]
          /\ other' = [other EXCEPT !.crossed = @ /\ OtherWaits]
          /\ panel' = [panel EXCEPT !.op = "saved", !.answer = Now']
          /\ UNCHANGED poll
  <2>1. /\ plc' = [Redirected(panel.to) EXCEPT !.apart = other.crossed]
        /\ other' = [other EXCEPT !.crossed = other.crossed /\ OtherWaits] /\ UNCHANGED poll
        /\ panel.op = "stored" /\ panel' = [panel EXCEPT !.op = "saved", !.answer = Now']
    BY <1>2
  <2>2. panel.to \in Endpoints
    BY <1>i, <1>2 DEF ClickCarries
  <2>3. /\ Redirected(panel.to) \in Plcs /\ Redirected(panel.to).endpoint = panel.to
        /\ Redirected(panel.to).meta = plc.meta
    BY <2>2, RedirectedType
  <2>4. plc' \in Plcs /\ plc'.endpoint = panel.to /\ plc'.meta = plc.meta /\ plc'.apart = (other.crossed)
    BY <2>1, <2>3 DEF Plcs
  <2>5. (other.crossed /\ OtherWaits) \in BOOLEAN
    OBVIOUS
  <2>6. /\ other' \in Others /\ other'.stage = other.stage
        /\ other'.to = other.to /\ other'.crossed = (other.crossed /\ OtherWaits)
    BY <2>1, <2>5 DEF Others
  <2>7. Now' \in Status /\ Now'.endpoint = plc'.endpoint
    BY <2>4, NowNext
  <2>8. /\ panel' \in Panels /\ panel'.op = "saved"
        /\ panel'.to = panel.to /\ panel'.read = panel.read /\ panel'.answer.endpoint = panel.to
    BY <2>1, <2>4, <2>7 DEF Panels, Ops
  <2>9. OpcuaTypeOK'
    BY <2>1, <2>2, <2>3, <2>4, <2>5, <2>6, <2>7, <2>8, OpcuaTypesNext
  <2> QED
    BY <1>i, <2>1, <2>2, <2>3, <2>4, <2>5, <2>6, <2>7, <2>8, <2>9
       DEF OpcuaInv, ClickCarries, CrossingIsSeen, StoredIsKept, EndpointIsStored, PageWaits, OtherWaits
<1> QED
  BY <1>1, <1>2 DEF ServeSave

\* The daemon connects or disconnects the client.
LEMMA ConnectSteps ==
  ASSUME OpcuaInv, ServeConnect \/ ServeDisconnect
  PROVE  OpcuaInv'
<1> USE OpcuaFacts
<1>i. ClickCarries /\ CrossingIsSeen /\ StoredIsKept /\ EndpointIsStored
  BY DEF OpcuaInv
<1>1. CASE ServeConnect
  <2> DEFINE to == IF panel.to = NoEndpoint THEN plc.endpoint ELSE panel.to
  <2>1. PICK p \in ClientRestarted(to) : plc' = [p EXCEPT !.apart = p.apart \/ Outdated]
    BY <1>1 DEF ServeConnect
  <2>2. /\ panel.op = "connecting" /\ UNCHANGED <<other, poll>>
        /\ panel' = [panel EXCEPT !.op = "connected", !.answer = Now']
    BY <1>1 DEF ServeConnect
  <2>3. to \in Endpoints /\ (~Outdated => to = plc.endpoint)
    BY <1>i, <2>2 DEF ClickCarries, Outdated, Addresses
  <2> HIDE DEF to
  <2>4. /\ Redirected(to) \in Plcs /\ Redirected(to).endpoint = to
        /\ Redirected(to).meta = plc.meta /\ Redirected(to).apart = plc.apart
    BY <2>3, RedirectedType
  <2>5. p \in Plcs /\ p.endpoint = to /\ p.meta = plc.meta /\ p.apart = plc.apart
    BY <2>1, <2>4 DEF ClientRestarted, Plcs, Links
  <2>6. (plc.apart \/ Outdated) \in BOOLEAN
    OBVIOUS
  <2>7. plc' \in Plcs /\ plc'.endpoint = to /\ plc'.meta = plc.meta /\ plc'.apart = (plc.apart \/ Outdated)
    BY <2>1, <2>5, <2>6 DEF Plcs
  <2>8. Now' \in Status /\ Now'.endpoint = plc'.endpoint
    BY <2>7, NowNext
  <2>9. /\ panel' \in Panels /\ panel'.op = "connected"
        /\ panel'.to = panel.to /\ panel'.read = panel.read
    BY <2>2, <2>8 DEF Panels, Ops
  <2>10. OpcuaTypeOK'
    BY <2>1, <2>2, <2>3, <2>4, <2>5, <2>6, <2>7, <2>8, <2>9, OpcuaTypesNext
  <2> QED
    BY <1>i, <2>1, <2>2, <2>3, <2>4, <2>5, <2>6, <2>7, <2>8, <2>9, <2>10
       DEF OpcuaInv, ClickCarries, CrossingIsSeen, StoredIsKept, EndpointIsStored, PageWaits, OtherWaits
<1>2. CASE ServeDisconnect
  <2>1. /\ plc' = [plc EXCEPT !.link = "offline"] /\ UNCHANGED <<other, poll>>
        /\ panel.op = "disconnecting" /\ panel' = [panel EXCEPT !.op = "disconnected", !.answer = Now']
    BY <1>2 DEF ServeDisconnect
  <2>2. plc' \in Plcs /\ plc'.endpoint = plc.endpoint /\ plc'.meta = plc.meta /\ plc'.apart = (plc.apart)
    BY <2>1 DEF Plcs, Links
  <2>3. Now' \in Status /\ Now'.endpoint = plc'.endpoint
    BY <2>2, NowNext
  <2>4. /\ panel' \in Panels /\ panel'.op = "disconnected"
        /\ panel'.to = panel.to /\ panel'.read = panel.read
    BY <2>1, <2>3 DEF Panels, Ops
  <2>5. OpcuaTypeOK'
    BY <2>1, <2>2, <2>3, <2>4, OpcuaTypesNext
  <2> QED
    BY <1>i, <2>1, <2>2, <2>3, <2>4, <2>5
       DEF OpcuaInv, ClickCarries, CrossingIsSeen, StoredIsKept, EndpointIsStored, PageWaits, OtherWaits
<1> QED
  BY <1>1, <1>2

\* Steps of the page.
LEMMA ClickSteps ==
  ASSUME OpcuaInv, TypeEndpoint \/ ClickConnect \/ ClickDisconnect \/ OnSaved \/ OnAnswer \/ RequestFails
  PROVE  OpcuaInv'
<1> USE OpcuaFacts
<1>i. ClickCarries /\ CrossingIsSeen /\ StoredIsKept /\ EndpointIsStored
  BY DEF OpcuaInv
<1>1. CASE TypeEndpoint
  <2>1. PICK e \in Endpoints : panel' = [panel EXCEPT !.typed = e]
    BY <1>1 DEF TypeEndpoint
  <2>0. e \in Addresses
    BY DEF Addresses
  <2>2. /\ panel' \in Panels /\ panel'.op = panel.op
        /\ panel'.to = panel.to /\ panel'.read = panel.read /\ panel'.answer = panel.answer
    BY <2>0, <2>1 DEF Panels
  <2>3. UNCHANGED <<plc, other, poll>>
    BY <1>1 DEF TypeEndpoint
  <2>4. OpcuaTypeOK'
    BY <2>1, <2>2, <2>3, OpcuaTypesNext
  <2> QED
    BY <1>i, <2>1, <2>2, <2>3, <2>4
       DEF OpcuaInv, ClickCarries, CrossingIsSeen, StoredIsKept, EndpointIsStored, PageWaits, OtherWaits
<1>2. CASE ClickConnect
  <2> DEFINE o == IF SavesFirst(panel) THEN "saving" ELSE "connecting"
  <2>1. /\ panel' = [panel EXCEPT !.op = o, !.to = InBox(panel), !.read = panel.cached.endpoint]
        /\ panel.op = "idle" /\ Deed /\ plc' = OnceMore(plc) /\ UNCHANGED <<other, poll>>
    BY <1>2 DEF ClickConnect
  <2>2. /\ o \in Ops /\ InBox(panel) \in Addresses /\ o \in {"saving", "connecting"}
    BY DEF Ops, InBox
  <2>3. /\ o = "saving" => InBox(panel) \in Endpoints
        /\ o = "connecting" => InBox(panel) \in {NoEndpoint, panel.cached.endpoint}
    BY <2>2 DEF SavesFirst, Addresses
  <2> HIDE DEF o
  <2>4. /\ panel' \in Panels /\ panel'.op = o
        /\ panel'.to = InBox(panel) /\ panel'.read = panel.cached.endpoint
    BY <2>1, <2>2 DEF Panels
  <2>5. plc' \in Plcs /\ plc'.endpoint = plc.endpoint /\ plc'.meta = plc.meta /\ plc'.apart = (plc.apart)
    BY <2>1, OnceMoreType
  <2>6. OpcuaTypeOK'
    BY <2>1, <2>2, <2>3, <2>4, <2>5, OpcuaTypesNext
  <2> QED
    BY <1>i, <2>1, <2>2, <2>3, <2>4, <2>5, <2>6
       DEF OpcuaInv, ClickCarries, CrossingIsSeen, StoredIsKept, EndpointIsStored, PageWaits, OtherWaits
<1>3. CASE ClickDisconnect
  <2>1. /\ panel' = [panel EXCEPT !.op = "disconnecting"] /\ UNCHANGED <<plc, other, poll>>
        /\ panel.op = "idle"
    BY <1>3 DEF ClickDisconnect
  <2>2. /\ panel' \in Panels /\ panel'.op = "disconnecting"
        /\ panel'.to = panel.to /\ panel'.read = panel.read
    BY <2>1 DEF Panels, Ops
  <2>3. OpcuaTypeOK'
    BY <2>1, <2>2, OpcuaTypesNext
  <2> QED
    BY <1>i, <2>1, <2>2, <2>3
       DEF OpcuaInv, ClickCarries, CrossingIsSeen, StoredIsKept, EndpointIsStored, PageWaits, OtherWaits
<1>4. CASE OnSaved
  <2>1. /\ panel' = [panel EXCEPT !.cached = panel.answer, !.answer = Unread, !.op = "connecting",
                                  !.read = panel.answer.endpoint]
        /\ panel.op = "saved" /\ UNCHANGED <<plc, other, poll>>
    BY <1>4 DEF OnSaved
  <2>2. panel.answer.endpoint = panel.to
    BY <1>i, <2>1 DEF ClickCarries
  <2>3. /\ panel' \in Panels /\ panel'.op = "connecting"
        /\ panel'.to = panel.to /\ panel'.read = panel.answer.endpoint
    BY <2>1 DEF Panels, Ops
  <2>4. OpcuaTypeOK'
    BY <2>1, <2>2, <2>3, OpcuaTypesNext
  <2> QED
    BY <1>i, <2>1, <2>2, <2>3, <2>4
       DEF OpcuaInv, ClickCarries, CrossingIsSeen, StoredIsKept, EndpointIsStored, PageWaits, OtherWaits
<1>5. CASE OnAnswer
  <2>1. /\ panel' = ClickOver(panel.answer) /\ UNCHANGED <<plc, other, poll>>
        /\ panel.op \in {"connected", "disconnected"}
    BY <1>5 DEF OnAnswer
  <2>2. panel' \in Panels /\ panel'.op = "idle"
    BY <2>1 DEF Panels, Ops, ClickOver
  <2>3. OpcuaTypeOK'
    BY <2>1, <2>2, OpcuaTypesNext
  <2> QED
    BY <1>i, <2>1, <2>2, <2>3
       DEF OpcuaInv, ClickCarries, CrossingIsSeen, StoredIsKept, EndpointIsStored, PageWaits, OtherWaits
<1>6. CASE RequestFails
  <2>1. /\ panel' = ClickOver(panel.cached) /\ UNCHANGED <<plc, other, poll>>
        /\ panel.op # "stored"
    BY <1>6 DEF RequestFails
  <2>2. panel' \in Panels /\ panel'.op = "idle"
    BY <2>1 DEF Panels, Ops, ClickOver
  <2>3. OpcuaTypeOK'
    BY <2>1, <2>2, OpcuaTypesNext
  <2> QED
    BY <1>i, <2>1, <2>2, <2>3
       DEF OpcuaInv, ClickCarries, CrossingIsSeen, StoredIsKept, EndpointIsStored, PageWaits, OtherWaits
<1> QED
  BY <1>1, <1>2, <1>3, <1>4, <1>5, <1>6

\* Steps of the status query.
LEMMA PollSteps ==
  ASSUME OpcuaInv, PollStatus \/ ServePoll \/ PollLands
  PROVE  OpcuaInv'
<1> USE OpcuaFacts
<1>i. ClickCarries /\ CrossingIsSeen /\ StoredIsKept /\ EndpointIsStored
  BY DEF OpcuaInv
<1>1. poll' \in Polls /\ UNCHANGED <<plc, other>>
  BY DEF PollStatus, ServePoll, PollLands, Polls
<1>2. panel' = panel \/ panel' = [panel EXCEPT !.cached = poll.got]
  BY DEF PollStatus, ServePoll, PollLands
<1>3. /\ panel' \in Panels /\ panel'.op = panel.op /\ panel'.to = panel.to
      /\ panel'.read = panel.read /\ panel'.answer = panel.answer
  BY <1>2 DEF Panels
<1>4. OpcuaTypeOK'
  BY <1>1, <1>3, OpcuaTypesNext
<1> QED
  BY <1>i, <1>1, <1>3, <1>4
     DEF OpcuaInv, ClickCarries, CrossingIsSeen, StoredIsKept, EndpointIsStored, PageWaits, OtherWaits

\* Every step keeps the invariant.
LEMMA OpcuaStepInv == OpcuaInv /\ [OpcuaNext]_opcuaVars => OpcuaInv'
<1> SUFFICES ASSUME OpcuaInv, [OpcuaNext]_opcuaVars PROVE OpcuaInv'
  OBVIOUS
<1>1. CASE UNCHANGED opcuaVars
  <2>1. OpcuaTypeOK'
    BY <1>1, OpcuaFacts, OpcuaTypesNext DEF opcuaVars
  <2> QED
    BY <1>1, <2>1
       DEF OpcuaInv, ClickCarries, CrossingIsSeen, StoredIsKept, EndpointIsStored, PageWaits, OtherWaits, opcuaVars
<1>2. CASE OpcuaNext
  BY <1>2, AdapterSteps, StoringSteps, ProjectSteps, RestartStep, SaveSteps, ConnectSteps,
     ClickSteps, PollSteps DEF OpcuaNext
<1> QED
  BY <1>1, <1>2

\* Between requests the client uses the endpoint its project stores, unless
\* the daemon started on another one, the project stores none, the page
\* connected with an endpoint no longer in use, or two requests crossed, and
\* none of these was made good since; for any endpoints, configured and stored
\* (opcua.py, project_service.py, ConnectionPanel.tsx).
THEOREM ClientUsesTheStoredEndpoint == OpcuaSpec => [](OpcuaTypeOK /\ EndpointIsStored)
<1>1. OpcuaInv => OpcuaTypeOK /\ EndpointIsStored
  BY DEF OpcuaInv
<1> QED
  BY <1>1, OpcuaInitInv, OpcuaStepInv, PTL DEF OpcuaSpec
===============================================================================
