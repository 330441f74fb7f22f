------------------------------ MODULE Accounts ------------------------------
(* Accounts, sessions and roles: the users and auth routers of the daemon and *)
(* the HMI's AuthContext, route guard, login page and users page.             *)
(*                                                                            *)
(* A REST call is a record that crosses the daemon's awaits one stage at a    *)
(* time: sent, passed (principal resolved, gate passed), checked (last-admin  *)
(* check done), and its answer on the way back.                               *)
EXTENDS Naturals, FiniteSets

CONSTANTS Accts, Browsers, MaxCalls

ASSUME AccountsAssumption ==
    /\ Accts \subseteq Nat \ {0} /\ IsFiniteSet(Accts) /\ MaxCalls \in Nat \ {0}

VARIABLES
    roster,     \* users.db: role and active flag of each account
    session,    \* per browser: the account its token names, 0 = no token
    me,         \* per browser: AuthContext's user, id 0 = null
    calls       \* REST calls in flight

acctVars == <<roster, session, me, calls>>

Roles    == {"admin", "user"}
NoToken  == 0
Tokens   == Accts \union {NoToken}
NoUser   == [id |-> 0, role |-> "user"]
RosterOps == {"demote", "promote", "deactivate", "reactivate"}
Final    == {"ok", "401", "403", "409"}
Stages   == {"sent", "passed", "checked"} \union Final
Nobody   == "nobody"        \* the page that asked is gone

(* `got` is the role /auth/me read, `raced` what the roster changed after: the *)
(* gate, the last-admin check. The role a JWT was minted with is never read.  *)
Call(b, tok, op, on) ==
    [b |-> b, tok |-> tok, op |-> op, on |-> on,
     stage |-> "sent", got |-> "user", raced |-> {}]

AcctTypeOK ==
    /\ roster \in [Accts -> [role : Roles, active : BOOLEAN]]
    /\ session \in [Browsers -> Tokens]
    /\ me \in [Browsers -> [id : Accts \union {0}, role : Roles]]
    /\ calls \subseteq [b : Browsers \union {Nobody}, tok : Tokens,
                        op : RosterOps \union {"login", "me"}, on : Accts \union {0},
                        stage : Stages, got : Roles, raced : SUBSET {"gate", "check"}]

(* A token may be left in storage by an earlier visit; the restore effect     *)
(* asks who it belongs to.                                                    *)

AcctInit ==
    /\ roster \in {r \in [Accts -> [role : Roles, active : {TRUE}]] :
                     \E a \in Accts : r[a].role = "admin"}
    /\ session \in [Browsers -> Tokens]
    /\ me = [b \in Browsers |-> NoUser]
    /\ calls = {Call(b, session[b], "me", 0) : b \in {x \in Browsers : session[x] # NoToken}}

IsActiveAdmin(account) == account.active /\ account.role = "admin"
ActiveAdmins(r) == {a \in Accts : IsActiveAdmin(r[a])}

(* can("users.manage") behind RouteGuard's adminOnly: nothing until the role  *)
(* is known.                                                                  *)
AdminPageShown(b) == session[b] # NoToken /\ me[b].id # 0 /\ me[b].role = "admin"

-----------------------------------------------------------------------------
(* The browser sends.                                                         *)

Issue(c) == Cardinality(calls) < MaxCalls /\ calls' = calls \union {c}

(* LoginPage.submit: one login at a time, `pending` disables the button.      *)
SubmitLogin(b, a) ==
    /\ session[b] = NoToken
    /\ \A c \in calls : ~(c.b = b /\ c.op = "login")
    /\ Issue(Call(b, NoToken, "login", a))
    /\ UNCHANGED <<roster, session, me>>

(* UsersPanel: the roster a row was painted from may be stale, so any of the  *)
(* four changes can be asked of any account; several can be in flight.        *)
SubmitChange(b, op, a) ==
    /\ AdminPageShown(b)
    /\ Issue(Call(b, session[b], op, a))
    /\ UNCHANGED <<roster, session, me>>

ClickLogout(b) ==
    /\ session[b] # NoToken
    /\ session' = [session EXCEPT ![b] = NoToken]
    /\ me' = [me EXCEPT ![b] = NoUser]
    /\ UNCHANGED <<roster, calls>>

(* The page is loaded again: the token is read back from storage, the restore *)
(* effect asks who it belongs to, and what was in flight has nobody to        *)
(* answer, served or not.                                                     *)
Abandoned(b) ==
    {[c EXCEPT !.b = Nobody] :
        c \in {d \in calls : d.b = b /\ d.op \in RosterOps /\ d.stage \notin Final}}

Reload(b) ==
    /\ session[b] # NoToken
    /\ me' = [me EXCEPT ![b] = NoUser]
    /\ calls' = {c \in calls : c.b # b} \union Abandoned(b)
                                        \union {Call(b, session[b], "me", 0)}
    /\ Cardinality(calls') <= MaxCalls
    /\ UNCHANGED <<roster, session>>

-----------------------------------------------------------------------------
(* The daemon serves.                                                         *)

(* An answer nobody waits for is gone; an answer to a change says no more     *)
(* than its status.                                                           *)
Remembered(d) ==
    IF d.op \in RosterOps /\ d.stage \in Final
    THEN [d EXCEPT !.tok = NoToken, !.on = 0, !.raced = {}] ELSE d

Kept(d) == IF d.b = Nobody /\ d.stage \in Final THEN {} ELSE {Remembered(d)}
Becomes(c, d) == calls' = (calls \ {c}) \union Kept(d)

(* POST /auth/login: verify_password; an inactive account gets a token too.   *)
ServeLogin(c) ==
    /\ c \in calls /\ c.op = "login" /\ c.stage = "sent"
    /\ \/ Becomes(c, [c EXCEPT !.stage = "ok", !.tok = c.on])
       \/ Becomes(c, [c EXCEPT !.stage = "401"])
    /\ UNCHANGED <<roster, session, me>>

KnownInactive(c) == c.tok # NoToken         \* mutant: the token is proof enough
Known(c) == c.tok # NoToken /\ roster[c.tok].active

(* resolve_token_principal and the require_* gates: the stored account, now.  *)
Authenticate(c) ==
    /\ c \in calls /\ c.op # "login" /\ c.stage = "sent"
    /\ Becomes(c, CASE ~Known(c) -> [c EXCEPT !.stage = "401"]
                     [] Known(c) /\ c.op = "me" ->
                          [c EXCEPT !.stage = "ok", !.got = roster[c.tok].role]
                     [] Known(c) /\ c.op \in RosterOps ->
                          [c EXCEPT !.stage = IF roster[c.tok].role = "admin"
                                              THEN "passed" ELSE "403"])
    /\ UNCHANGED <<roster, session, me>>

NarrowsOnDemoteOnly(op) == op = "demote"        \* mutant: DELETE without the check
Narrows(op) == op \in {"demote", "deactivate"}

(* _reject_if_last_active_admin: reads the roster, then the handler awaits.   *)
CheckLastAdmin(c) ==
    /\ c \in calls /\ c.stage = "passed"
    /\ Becomes(c, [c EXCEPT !.stage =
                     IF /\ Narrows(c.op)
                        /\ c.on \in ActiveAdmins(roster)
                        /\ Cardinality(ActiveAdmins(roster)) <= 1
                     THEN "409" ELSE "checked"])
    /\ UNCHANGED <<roster, session, me>>

Changed(op, account) ==
    CASE op = "demote"     -> [account EXCEPT !.role = "user"]
      [] op = "promote"    -> [account EXCEPT !.role = "admin"]
      [] op = "deactivate" -> [account EXCEPT !.active = FALSE]
      [] op = "reactivate" -> [account EXCEPT !.active = TRUE]

RacedBy(d) ==
    [d EXCEPT !.raced = CASE d.stage = "passed"  -> @ \union {"gate"}
                          [] d.stage = "checked" -> {"gate", "check"}
                          [] OTHER               -> @]

ApplyChange(c) ==
    /\ c \in calls /\ c.stage = "checked"
    /\ roster' = [roster EXCEPT ![c.on] = Changed(c.op, @)]
    /\ calls' = {IF roster' = roster THEN d ELSE RacedBy(d) : d \in calls \ {c}}
                \union Kept([c EXCEPT !.stage = "ok"])
    /\ UNCHANGED <<session, me>>

-----------------------------------------------------------------------------
(* The browser hears: AuthContext and the transport's auth hooks.             *)

(* login(): the token is stored, then /auth/me is asked with it (by the       *)
(* restore effect too).                                                       *)
OnLogin(c) ==
    /\ c \in calls /\ c.op = "login" /\ c.stage = "ok"
    /\ session' = [session EXCEPT ![c.b] = c.tok]
    /\ Becomes(c, Call(c.b, c.tok, "me", 0))
    /\ UNCHANGED <<roster, me>>

(* setUser(me): whatever session the browser holds by now.                    *)
OnMe(c) ==
    /\ c \in calls /\ c.op = "me" /\ c.stage = "ok"
    /\ me' = [me EXCEPT ![c.b] = [id |-> c.tok, role |-> c.got]]
    /\ calls' = calls \ {c}
    /\ UNCHANGED <<roster, session>>

OnChanged(c) ==
    /\ c \in calls /\ c.op \in RosterOps /\ c.stage \in {"ok", "409"}
    /\ calls' = calls \ {c}
    /\ UNCHANGED <<roster, session, me>>

(* onUnauthorized: logout(), whichever token the refused call carried.        *)
OnUnauthorized(c) ==
    /\ c \in calls /\ c.stage = "401"
    /\ calls' = calls \ {c}
    /\ session' = [session EXCEPT ![c.b] = NoToken]
    /\ me' = [me EXCEPT ![c.b] = NoUser]
    /\ UNCHANGED roster

(* onForbidden: refreshUser(), with the token held now; none clears the user. *)
OnForbidden(c) ==
    /\ c \in calls /\ c.stage = "403"
    /\ IF session[c.b] = NoToken
         THEN me' = [me EXCEPT ![c.b] = NoUser] /\ calls' = calls \ {c}
         ELSE Becomes(c, Call(c.b, session[c.b], "me", 0)) /\ UNCHANGED me
    /\ UNCHANGED <<roster, session>>

-----------------------------------------------------------------------------
AcctNext ==
    \/ \E b \in Browsers, a \in Accts :
          SubmitLogin(b, a) \/ \E op \in RosterOps : SubmitChange(b, op, a)
    \/ \E b \in Browsers : ClickLogout(b) \/ Reload(b)
    \/ \E c \in calls :
          \/ ServeLogin(c) \/ Authenticate(c) \/ CheckLastAdmin(c) \/ ApplyChange(c)
          \/ OnLogin(c) \/ OnMe(c) \/ OnChanged(c) \/ OnUnauthorized(c) \/ OnForbidden(c)

AcctSpec == AcctInit /\ [][AcctNext]_acctVars

-----------------------------------------------------------------------------
(* An admin who has been demoted or deactivated cannot undo it: an account    *)
(* becomes an active admin again only by a call of another account, or by one *)
(* that was already past its checks when the roster changed (E2E-044,         *)
(* resolve_token_principal).                                                  *)
RevocationIsImmediate ==
    [][\A a \in Accts :
         IsActiveAdmin(roster'[a]) /\ ~IsActiveAdmin(roster[a]) =>
           \E c \in calls : c.stage = "checked" /\ (c.tok # a \/ "gate" \in c.raced)]_acctVars

(* The last active administrator is never removed by a call whose check still *)
(* describes the roster: only two calls racing past the check can do it       *)
(* (users.py _reject_if_last_active_admin).                                   *)
OnlyARaceRemovesTheLastAdmin ==
    [][ActiveAdmins(roster') = {} /\ ActiveAdmins(roster) # {} =>
         \E c \in calls : c.stage = "checked" /\ "check" \in c.raced]_acctVars

(* "The backend refuses to leave the deployment without an active             *)
(* administrator" (UsersPanel.tsx): refuted by two calls past the check.      *)
AnAdminRemains == ActiveAdmins(roster) # {}
=============================================================================
