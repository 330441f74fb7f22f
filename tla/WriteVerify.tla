---------------------------- MODULE WriteVerify ----------------------------
(***************************************************************************)
(* Verified writes of the OPC-UA adapter (adapters/outbound/               *)
(* opcua_adapter.py): write_pid_params and write_target_mode write one     *)
(* node and leave behind a fire-and-forget coroutine that reads the node   *)
(* back after a delay and writes it again on a mismatch.                   *)
(*                                                                         *)
(* Request k is the k-th accepted write; its verifier is ver[k].  The API  *)
(* thread (apply_tuning, set_mode) and the I/O worker (AI tuning) both     *)
(* issue requests.  Verifiers run on the adapter's event loop and          *)
(* interleave at every await.  The relative length of the delays is not    *)
(* modelled: any verifier may run before any other.                        *)
(***************************************************************************)
EXTENDS Naturals, FiniteSets

CONSTANTS
  Values,       \* values written to the node; integers compare within tolerance
  MaxWrites,    \* bound: requests issued
  MaxRetries,   \* _VERIFY_MAX_RETRIES
  MaxDrops,     \* bound: writes the DCS silently drops
  MaxErrors,    \* bound: read-backs and rewrites that raise on a live connection
  MaxFlaps,     \* bound: connection losses
  MaxEdits      \* bound: changes of the node made in the DCS itself

ASSUME WriteVerifyAssumption ==
  /\ MaxWrites \in Nat /\ MaxRetries \in Nat /\ MaxDrops \in Nat
  /\ MaxErrors \in Nat /\ MaxFlaps \in Nat /\ MaxEdits \in Nat
  /\ Values # {}

VARIABLES
  node,     \* the value the DCS holds
  online,   \* state is ONLINE
  client,   \* generation of self._client: each reconnect makes a new one
  issued,   \* number of requests accepted so far
  ver,      \* the verifier of each request
  drops, errors, edits,  \* how much of MaxDrops, MaxErrors, MaxEdits is used
  rewrites  \* history: writes made by the verifier of each request

vars == <<node, online, client, issued, ver, drops, errors, edits, rewrites>>

Requests == 1..MaxWrites
Running == {"sleep", "read", "rewrite"}
Ended == {"confirmed", "exhausted", "skipped"}
Unverified == {"none", "timedout"}   \* no verifier was started

\* A verifier: the value it expects, the client it captured, the attempt it
\* is in, and where it is.
Verifier == [expected : Values, client : Nat, attempt : 0..MaxRetries,
             at : Running \cup Ended \cup Unverified]

TypeOK ==
  /\ node \in Values
  /\ online \in BOOLEAN
  /\ client \in 0..MaxFlaps
  /\ issued \in 0..MaxWrites
  /\ ver \in [Requests -> Verifier]
  /\ \A k \in Requests : (ver[k].at = "none") <=> (k > issued)
  /\ drops \in 0..MaxDrops /\ errors \in 0..MaxErrors /\ edits \in 0..MaxEdits
  /\ rewrites \in [Requests -> Nat]

Init ==
  /\ node \in Values
  /\ online = TRUE
  /\ client = 0
  /\ issued = 0
  /\ ver = [k \in Requests |->
              [expected |-> node, client |-> 0, attempt |-> 0, at |-> "none"]]
  /\ drops = 0 /\ errors = 0 /\ edits = 0
  /\ rewrites = [k \in Requests |-> 0]

\* One write request to the DCS: it lands, or is acknowledged and dropped.
PutNode(v) ==
  \/ node' = v /\ UNCHANGED drops
  \/ drops < MaxDrops /\ drops' = drops + 1 /\ UNCHANGED node

Move(k, place) == ver' = [ver EXCEPT ![k].at = place]

\* Seeded fault: the number of attempts is not bounded.
NextAttemptUnbounded(k) ==
  ver' = [ver EXCEPT ![k].attempt = @ + 1, ![k].at = "sleep"]

\* Seeded fault: a rewrite starts the verification over.
NextAttemptRestarts(k) ==
  ver' = [ver EXCEPT ![k].attempt = 0, ![k].at = "sleep"]

\* The next pass of the verifier's for loop, or its end.
NextAttempt(k) ==
  ver' = IF ver[k].attempt < MaxRetries
         THEN [ver EXCEPT ![k].attempt = @ + 1, ![k].at = "sleep"]
         ELSE [ver EXCEPT ![k].at = "exhausted"]

\* A request on a captured client reaches the server.
Reaches(k) == online /\ ver[k].client = client

-----------------------------------------------------------------------------
\* write_pid_params / write_target_mode: refused offline, otherwise written
\* and handed to a new verifier.
Write(v) ==
  /\ issued < MaxWrites
  /\ online
  /\ PutNode(v)
  /\ issued' = issued + 1
  /\ ver' = [ver EXCEPT ![issued + 1] =
               [expected |-> v, client |-> client, attempt |-> 0, at |-> "sleep"]]
  /\ UNCHANGED <<online, client, errors, edits, rewrites>>

\* The same, but future.result times out: the caller gets the exception, the
\* write may still land, and nothing verifies it.
WriteTimesOut(v) ==
  /\ issued < MaxWrites
  /\ online
  /\ node' \in {v, node}
  /\ issued' = issued + 1
  /\ ver' = [ver EXCEPT ![issued + 1] =
               [expected |-> v, client |-> client, attempt |-> 0, at |-> "timedout"]]
  /\ UNCHANGED <<online, client, drops, errors, edits, rewrites>>

\* Seeded fault: an offline verifier waits for the connection.
WakeWaitsOffline(k) ==
  /\ ver[k].at = "sleep"
  /\ Move(k, IF online THEN "read" ELSE "sleep")
  /\ UNCHANGED <<node, online, client, issued, drops, errors, edits, rewrites>>

\* The delay is over: a verifier that finds the adapter offline gives up.
Wake(k) ==
  /\ ver[k].at = "sleep"
  /\ Move(k, IF online THEN "read" ELSE "skipped")
  /\ UNCHANGED <<node, online, client, issued, drops, errors, edits, rewrites>>

\* A request of a verifier raises although the connection is up: a bad
\* status, a request of its own that times out.
Raises == errors < MaxErrors /\ errors' = errors + 1

\* The read-back fails, on a connection that is gone or replaced or by itself:
\* `continue`, without a rewrite.
ReadFails(k) ==
  /\ ver[k].at = "read"
  /\ IF Reaches(k) THEN Raises ELSE UNCHANGED errors
  /\ NextAttempt(k)
  /\ UNCHANGED <<node, online, client, issued, drops, edits, rewrites>>

\* Seeded fault: one rewrite fewer than there are retries.
ReadBackOneShort(k) ==
  /\ ver[k].at = "read"
  /\ Reaches(k)
  /\ Move(k, IF node = ver[k].expected THEN "confirmed"
             ELSE IF ver[k].attempt + 1 < MaxRetries THEN "rewrite"
             ELSE "exhausted")
  /\ UNCHANGED <<node, online, client, issued, drops, errors, edits, rewrites>>

\* The read-back succeeds: confirmed, or written again while retries are left.
ReadBack(k) ==
  /\ ver[k].at = "read"
  /\ Reaches(k)
  /\ Move(k, IF node = ver[k].expected THEN "confirmed"
             ELSE IF ver[k].attempt < MaxRetries THEN "rewrite"
             ELSE "exhausted")
  /\ UNCHANGED <<node, online, client, issued, drops, errors, edits, rewrites>>

\* The rewrite, which may raise on a live connection before or after it landed;
\* on a lost or replaced client it always fails.  The loop goes on either way.
Rewrite(k) ==
  /\ ver[k].at = "rewrite"
  /\ IF Reaches(k)
     THEN /\ \/ PutNode(ver[k].expected) /\ UNCHANGED errors
             \/ Raises /\ node' \in {node, ver[k].expected} /\ UNCHANGED drops
          /\ rewrites' = [rewrites EXCEPT ![k] = @ + 1]
     ELSE UNCHANGED <<node, drops, errors, rewrites>>
  /\ NextAttempt(k)
  /\ UNCHANGED <<online, client, issued, edits>>

\* _connection_loop: loss, and reconnection with a new client.
Disconnect ==
  /\ online /\ client < MaxFlaps
  /\ online' = FALSE
  /\ UNCHANGED <<node, client, issued, ver, drops, errors, edits, rewrites>>

Connect ==
  /\ ~online
  /\ online' = TRUE
  /\ client' = client + 1
  /\ UNCHANGED <<node, issued, ver, drops, errors, edits, rewrites>>

\* Somebody changes the node in the DCS.
DcsEdit(v) ==
  /\ edits < MaxEdits
  /\ v # node
  /\ node' = v
  /\ edits' = edits + 1
  /\ UNCHANGED <<online, client, issued, ver, drops, errors, rewrites>>

VerifierStep(k) == Wake(k) \/ ReadFails(k) \/ ReadBack(k) \/ Rewrite(k)

Next ==
  \/ \E v \in Values : Write(v) \/ WriteTimesOut(v) \/ DcsEdit(v)
  \/ \E k \in Requests : VerifierStep(k)
  \/ Disconnect \/ Connect

\* The adapter's event loop runs every ready coroutine.
Fairness == \A k \in Requests : WF_vars(VerifierStep(k))

Spec == Init /\ [][Next]_vars /\ Fairness

-----------------------------------------------------------------------------
(* Properties.                                                             *)

\* The verifiers of overlapping requests cannot fight forever: each one makes
\* at most MaxRetries writes of its own, so a value and its rival alternate a
\* bounded number of times.
RewritesBounded == \A k \in Requests : rewrites[k] <= MaxRetries

\* Every fire-and-forget verifier ends, offline and during fights included.
VerifiersEnd == \A k \in Requests : [](ver[k].at \in Running => <>(ver[k].at \in Ended))

\* No loss of connection, no edit in the DCS, never two verifiers at once, and
\* no more lost writes and failed requests than there are retries.
Undisturbed ==
  /\ online /\ client = 0 /\ edits = 0
  /\ drops + errors <= MaxRetries
  /\ Cardinality({k \in Requests : ver[k].at \in Running}) <= 1

\* An accepted write that meets no rival, no edit in the DCS and no loss of
\* connection survives any MaxRetries faults, silent drops and read-backs or
\* rewrites that raise in any mixture: the node ends up holding the last value
\* requested.  A failed read-back costs a pass as a dropped write does.
WriteIsDurable ==
  []Undisturbed =>
    \A k \in Requests :
      <>[](issued = k /\ ver[k].at # "timedout" => node = ver[k].expected)

\* The read-back protects against dropped DCS writes: while the DCS has dropped
\* nothing and nobody else has written the node, no verifier changes it.
RewriteRepairsDrops ==
  [][\A k \in Requests :
       Rewrite(k) /\ node' # node => drops > 0 \/ edits > 0]_vars

=============================================================================
