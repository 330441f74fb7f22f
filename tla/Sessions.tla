------------------------------ MODULE Sessions ------------------------------
(* The live session list: SessionRegistry, fed by every authenticated request *)
(* and by the realtime sockets, and the settings page that polls it. One      *)
(* (user, address) key; its rows are told apart by a generation.              *)
EXTENDS Naturals, FiniteSets

CONSTANTS
    MaxRows,        \* rows created for the key in one behaviour
    Tabs            \* browser tabs behind the address, each with a socket

ASSUME SessionsAssumption == MaxRows \in Nat /\ IsFiniteSet(Tabs)

VARIABLES
    row,        \* the registry's entry for the key, gen 0 = no entry
    orphans,    \* socket counts of rows that left the registry, by generation
    gens,       \* rows created so far
    sockets,    \* per tab: generation its open socket was attached to, 0 = closed
    listed      \* what the settings page shows of the key

sessVars == <<row, orphans, gens, sockets, listed>>

Counts == 0 .. Cardinality(Tabs)
NoRow  == [gen |-> 0, open |-> 0, idle |-> FALSE]

SessTypeOK ==
    /\ row \in [gen : 0 .. MaxRows, open : Counts, idle : BOOLEAN]
    /\ orphans \in [1 .. MaxRows -> Counts]
    /\ gens \in 0 .. MaxRows
    /\ sockets \in [Tabs -> 0 .. MaxRows]
    /\ listed \in {"absent", "idle", "open"}

SessInit ==
    /\ row = NoRow /\ gens = 0 /\ listed = "absent"
    /\ orphans = [g \in 1 .. MaxRows |-> 0]
    /\ sockets = [t \in Tabs |-> 0]

(* _prune: a row without sockets past its idle time is gone.                  *)
Pruned(r) == IF r.open = 0 /\ r.idle THEN NoRow ELSE r

(* touch: prune, then refresh the row or create the next one.                 *)
Touched ==
    LET r == Pruned(row)
    IN  IF r.gen # 0 THEN [r EXCEPT !.idle = FALSE]
                     ELSE [gen |-> gens + 1, open |-> 0, idle |-> FALSE]

(* Any authenticated request, a login included.                               *)
Request ==
    /\ Touched.gen <= MaxRows
    /\ row' = Touched
    /\ gens' = IF Touched.gen > gens THEN Touched.gen ELSE gens
    /\ UNCHANGED <<orphans, sockets, listed>>

(* ws/realtime: the socket keeps the row attach returned.                     *)
Attach(t) ==
    /\ sockets[t] = 0 /\ Touched.gen <= MaxRows
    /\ row' = [Touched EXCEPT !.open = @ + 1]
    /\ gens' = IF Touched.gen > gens THEN Touched.gen ELSE gens
    /\ sockets' = [sockets EXCEPT ![t] = Touched.gen]
    /\ UNCHANGED <<orphans, listed>>

OneLess(n) == IF n = 0 THEN 0 ELSE n - 1

DetachedFromKey(g) == row.gen       \* mutant: look the row up by (user, address)
DetachedFrom(g) == g

(* detach: the row the socket was attached to, registered or not.             *)
Detach(t) ==
    LET g == DetachedFrom(sockets[t])
    IN  /\ sockets[t] # 0
        /\ sockets' = [sockets EXCEPT ![t] = 0]
        /\ IF g = row.gen
             THEN /\ row' = [row EXCEPT !.open = OneLess(@), !.idle = FALSE]
                  /\ UNCHANGED orphans
             ELSE /\ orphans' = [orphans EXCEPT ![g] = OneLess(@)]
                  /\ UNCHANGED row
        /\ UNCHANGED <<gens, listed>>

(* POST /auth/logout of any browser of the user at the address.               *)
Drop ==
    /\ row.gen # 0
    /\ orphans' = [orphans EXCEPT ![row.gen] = row.open]
    /\ row' = NoRow
    /\ UNCHANGED <<gens, sockets, listed>>

IdleTimePasses ==
    /\ row.gen # 0 /\ row' = [row EXCEPT !.idle = TRUE]
    /\ UNCHANGED <<orphans, gens, sockets, listed>>

(* SessionsPanel's poll: list_active prunes; online = sockets > 0.            *)
PollSessions ==
    /\ row' = Pruned(row)
    /\ listed' = CASE row'.gen = 0 -> "absent"
                   [] row'.open > 0 -> "open"
                   [] OTHER -> "idle"
    /\ UNCHANGED <<orphans, gens, sockets>>

SessNext ==
    \/ Request \/ Drop \/ IdleTimePasses \/ PollSessions
    \/ \E t \in Tabs : Attach(t) \/ Detach(t)

SessSpec == SessInit /\ [][SessNext]_sessVars

(* The listed row counts exactly the open sockets attached to it, however     *)
(* late a socket of a dropped row closes (session_registry.detach).           *)
RowCountsItsSockets ==
    row.open = Cardinality({t \in Tabs : sockets[t] # 0 /\ sockets[t] = row.gen})
=============================================================================
