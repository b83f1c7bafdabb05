------------------------------ MODULE TrackerDb -----------------------------
(***************************************************************************)
(* The history of DHCP clients behind the "Past DHCP clients" tab.         *)
(*                                                                         *)
(* dnsmasq (external) hands every lease event to a helper process, which   *)
(* runs dnsmasq-dhcp-script.sh once per event; the script upserts one row  *)
(* of /data/trackerdb.sqlite3.  The backend (trackerdb.go, uibackend.go)   *)
(* reads the rows and purges the old ones.  Rows carry the start epoch     *)
(* that dnsmasq-init/init.sh writes to /data/startepoch before dnsmasq     *)
(* starts; the script tells from it whether an event is a client's traffic *)
(* or a lease that a starting dnsmasq has read from its file.              *)
(*                                                                         *)
(* Time is a clock of ticks.  Hostnames and IP addresses are left out.     *)
(***************************************************************************)
EXTENDS Integers, Sequences

CONSTANTS
    Macs,           \* the DHCP clients
    Grace,          \* START_TIME_THRESHOLD_SEC
    ForgetAfter,    \* forget_past_clients_after; 0 turns the purge off
    TzOffset,       \* local time minus UTC in the backend's container
    None,           \* no script, no purge
    MaxTime,        \* bound: the clock stops here
    MaxPending      \* bound: events of one client that wait in the helper

\* The kinds of events; the script sees "old" for both a renewal and a lease
\* read at the start of dnsmasq.
Kinds == {"add", "renewal", "startup", "del"}
IsTraffic(kind) == kind \in {"add", "renewal"}

\* What a script is about to write, and a purge between SELECT and DELETE.
Jobs == [mac : Macs, kind : Kinds \ {"del"}, seen : Nat, epoch : Nat]
Purges == [threshold : Int, report : SUBSET Macs]
Rows == [seen : Nat, epoch : Nat]

ASSUME TrackerAssumption == /\ None \notin Jobs
                            /\ None \notin Purges
                            /\ Grace \in Nat
                            /\ ForgetAfter \in Nat
                            /\ TzOffset \in Int
                            /\ MaxTime \in Nat
                            /\ MaxPending \in Nat

VARIABLES
    now,            \* the clock
    startEpoch,     \* /data/startepoch, and the backend's copy of it: the
                    \* backend starts after init.sh has written the file
    dnsmasq,        \* whether init.sh has finished and dnsmasq runs
    leases,         \* the clients in dnsmasq.leases
    pending,        \* the events of each client that the helper has queued
    script,         \* what the running script is about to write
    db,             \* the rows of the table dhcp_clients
    purge,          \* the cutoff of a purge between its SELECT and its DELETE,
                    \* and the clients it will report
    traffic,        \* history: when each client last talked to dnsmasq
    lost,           \* history: clients whose last event was not recorded
    leaked          \* history: clients whose row was last written for a lease
                    \* that dnsmasq read at its start

hostVars == <<now, startEpoch, dnsmasq>>
eventVars == <<leases, pending, traffic>>
historyVars == <<lost, leaked>>
vars == <<hostVars, eventVars, script, db, purge, historyVars>>

Never == -1
Known == DOMAIN db

Init ==
    /\ now = 0
    /\ startEpoch = 0
    /\ dnsmasq = "initialising"
    /\ leases = {}
    /\ pending = [m \in Macs |-> <<>>]
    /\ script = None
    /\ db = [m \in {} |-> 0]
    /\ purge = None
    /\ traffic = [m \in Macs |-> Never]
    /\ lost = {}
    /\ leaked = {}

Tick ==
    /\ now < MaxTime
    /\ now' = now + 1
    /\ UNCHANGED <<startEpoch, dnsmasq, eventVars, script, db, purge, historyVars>>

-----------------------------------------------------------------------------
(* The add-on's container and dnsmasq (external, but for init.sh).         *)

HasTraffic(events) == \E i \in DOMAIN events : IsTraffic(events[i])
TrafficPending(m) == HasTraffic(pending[m])
InScript(m) == script # None /\ script.mac = m

\* The container restarts: script, helper and backend die, init.sh resets the
\* leases if the host has just rebooted and that is configured, and bumps the
\* epoch.  A restart takes a tick.
RestartAddon ==
    /\ now < MaxTime
    /\ now' = now + 1
    /\ startEpoch' = now + 1
    /\ dnsmasq' = "initialising"
    /\ leases' \in {leases, {}}
    /\ pending' = [m \in Macs |-> <<>>]
    /\ script' = None
    /\ purge' = None
    /\ lost' = lost \cup {m \in Macs : TrafficPending(m) \/ InScript(m)}
    /\ UNCHANGED <<traffic, db, leaked>>

\* dnsmasq reads its leases and reports each of them as "old".
ReportLeases ==
    /\ \A m \in leases : Len(pending[m]) < MaxPending
    /\ pending' = [m \in Macs |-> IF m \in leases THEN Append(pending[m], "startup")
                                                  ELSE pending[m]]
    /\ UNCHANGED <<now, startEpoch, leases, traffic, script, db, purge, historyVars>>

\* The rest of init.sh waits up to 30 s for interfaces and resolves NTP names:
\* dnsmasq may start long after the epoch.
StartDnsmasq ==
    /\ dnsmasq = "initialising"
    /\ dnsmasq' = "running"
    /\ ReportLeases

\* dnsmasq dies and its finish script lets s6 restart it, without init.sh; the
\* old helper still drains its queue.
RestartDnsmasq ==
    /\ dnsmasq = "running"
    /\ UNCHANGED dnsmasq
    /\ leases # {}
    /\ ReportLeases

Report(m, kind) ==
    /\ dnsmasq = "running"
    /\ Len(pending[m]) < MaxPending
    /\ pending' = [pending EXCEPT ![m] = Append(@, kind)]
    /\ traffic' = IF IsTraffic(kind) THEN [traffic EXCEPT ![m] = now] ELSE traffic
    /\ UNCHANGED <<hostVars, script, db, purge, historyVars>>

Lease(m) ==
    /\ m \notin leases
    /\ leases' = leases \cup {m}
    /\ Report(m, "add")

\* script-on-renewal: a renewal calls the script with "old".
Renew(m) ==
    /\ m \in leases
    /\ UNCHANGED leases
    /\ Report(m, "renewal")

Expire(m) ==
    /\ m \in leases
    /\ leases' = leases \ {m}
    /\ Report(m, "del")

-----------------------------------------------------------------------------
(* dnsmasq-dhcp-script.sh                                                  *)

dnsmasq_just_started == now - startEpoch < Grace

\* Faulty variant: only "add" is recorded, as the script's comment puts it.
IgnoredUnlessAdd(kind) == kind # "add"

Ignored(kind) ==
    \/ kind = "del"
    \/ kind \in {"renewal", "startup"} /\ dnsmasq_just_started

\* The helper runs the script for its next event: it reads the epoch and the
\* clock, and ends or goes on to the database.  Events of different clients
\* may pass each other here, which nothing depends on.
RunScript(m) ==
    /\ script = None
    /\ pending[m] # <<>>
    /\ pending' = [pending EXCEPT ![m] = Tail(@)]
    /\ LET kind == Head(pending[m]) IN
        /\ script' = IF Ignored(kind) THEN None
                     ELSE [mac |-> m, kind |-> kind, seen |-> now,
                           epoch |-> startEpoch]
        /\ lost' = IF kind = "renewal" /\ dnsmasq_just_started
                   THEN lost \cup {m} ELSE lost
    /\ UNCHANGED <<hostVars, leases, traffic, db, purge, leaked>>

\* Faulty variant: date without -u, east of Greenwich.
RowInLocalTime(job) == [seen |-> job.seen + 1, epoch |-> job.epoch]

Row(job) == [seen |-> job.seen, epoch |-> job.epoch]

\* INSERT ... ON CONFLICT DO UPDATE
Upsert ==
    /\ script # None
    /\ LET m == script.mac IN
        /\ db' = [k \in Known \cup {m} |-> IF k = m THEN Row(script) ELSE db[k]]
        /\ lost' = lost \ {m}
        /\ leaked' = IF script.kind = "startup" THEN leaked \cup {m} ELSE leaked \ {m}
    /\ script' = None
    /\ UNCHANGED <<hostVars, eventVars, purge>>

\* sqlite3 fails, for instance on a database locked by the backend: the error
\* is logged and the event is gone.
UpsertFails ==
    /\ script # None
    /\ lost' = lost \cup {script.mac}
    /\ script' = None
    /\ UNCHANGED <<hostVars, eventVars, db, purge, leaked>>

-----------------------------------------------------------------------------
(* The backend: forgetPastDhcpClients and the past clients of a message.   *)

\* The threshold is formatted in local time and compared as a string with
\* timestamps in UTC.
Threshold == now - ForgetAfter + TzOffset

\* Faulty variant: clients of the current run are never purged.
OldClientsOfPreviousRuns(threshold) ==
    {m \in Known : db[m].seen < threshold /\ db[m].epoch # startEpoch}

OldClients(threshold) == {m \in Known : db[m].seen < threshold}

\* The SELECT of PurgeOldDeadClients.  With no client to purge, or an error,
\* nothing happens.
PurgeSelect ==
    /\ ForgetAfter > 0
    /\ dnsmasq = "running"
    /\ purge = None
    /\ OldClients(Threshold) # {}
    /\ purge' = [threshold |-> Threshold, report |-> OldClients(Threshold)]
    /\ UNCHANGED <<hostVars, eventVars, script, db, historyVars>>

\* Faulty variant: the clients that the SELECT found are deleted by their MAC.
PurgeDeleteReported ==
    /\ purge # None
    /\ db' = [m \in Known \ purge.report |-> db[m]]
    /\ purge' = None
    /\ UNCHANGED <<hostVars, eventVars, script, historyVars>>

PurgeDelete ==
    /\ purge # None
    /\ db' = [m \in Known \ OldClients(purge.threshold) |-> db[m]]
    /\ purge' = None
    /\ UNCHANGED <<hostVars, eventVars, script, historyVars>>

\* The DELETE fails, or the backend dies before it.
PurgeFails ==
    /\ purge # None
    /\ purge' = None
    /\ UNCHANGED <<hostVars, eventVars, script, db, historyVars>>

\* The past clients of a message whose current clients are alive.
GetDeadDhcpClients(alive) == Known \ alive

\* Faulty variant: <= for <.
NoteOffByOne(m) ==
    IF db[m].epoch <= startEpoch THEN "previous run" ELSE "wrong epoch"

\* The note that generateWebSocketMessage adds to a past client.
Note(m) ==
    IF db[m].epoch < startEpoch THEN "previous run"
    ELSE IF db[m].epoch = startEpoch THEN "missed renewal"
    ELSE "wrong epoch"

-----------------------------------------------------------------------------
DnsmasqStep ==
    \/ RestartAddon \/ StartDnsmasq \/ RestartDnsmasq
    \/ \E m \in Macs : Lease(m) \/ Renew(m) \/ Expire(m)

ScriptStep == Upsert \/ UpsertFails \/ \E m \in Macs : RunScript(m)

PurgeStep == PurgeSelect \/ PurgeDelete \/ PurgeFails

Next == Tick \/ DnsmasqStep \/ ScriptStep \/ PurgeStep

Spec == Init /\ [][Next]_vars

\* The purge loop runs again every five minutes, whatever failed before, and
\* its errors do not last.  init.sh ends.
FairSpec == Spec /\ WF_vars(StartDnsmasq) /\ WF_vars(PurgeSelect)
                 /\ SF_vars(PurgeDelete) /\ WF_vars(ScriptStep)

-----------------------------------------------------------------------------
(* What the history promises.                                              *)

TrackerTypeOK ==
    /\ now \in Nat
    /\ startEpoch \in 0..now
    /\ dnsmasq \in {"initialising", "running"}
    /\ leases \in SUBSET Macs
    /\ pending \in [Macs -> Seq(Kinds)]
    /\ script \in Jobs \cup {None}
    /\ Known \in SUBSET Macs
    /\ db \in [Known -> Rows]
    /\ \A m \in Known : db[m].seen <= now
    /\ purge \in Purges \cup {None}
    /\ traffic \in [Macs -> Nat \cup {Never}]
    /\ lost \in SUBSET Macs
    /\ leaked \in SUBSET Macs

Recent(m) ==
    traffic[m] # Never /\ (ForgetAfter = 0 \/ now - traffic[m] <= ForgetAfter)

Recorded(m) ==
    \/ m \in Known /\ db[m].seen >= traffic[m]
    \/ TrafficPending(m)
    \/ InScript(m)

\* A client that talked to dnsmasq within ForgetAfter is in the history, with
\* a last_seen that is not older than its traffic, or its event is on its way,
\* however events, purges, failures and restarts interleave.  Excepted are
\* events known to be lost: a failed upsert, a script killed by a restart, and
\* a renewal so soon after the start that the script takes it for a lease read
\* from the file (dnsmasq-dhcp-script.sh 116-127, trackerdb.go 187-244).
TrafficIsRecorded == \A m \in Macs : Recent(m) /\ m \notin lost => Recorded(m)

NoteIsTrue(m) ==
    /\ Note(m) = "missed renewal" => traffic[m] >= startEpoch \/ m \in leaked
    /\ Note(m) = "previous run" =>
            \/ traffic[m] < startEpoch
            \/ m \in lost \/ TrafficPending(m) \/ InScript(m)
    /\ Note(m) # "wrong epoch"

\* The notes shown for past clients are true: one "seen after last DHCP server
\* restart" talked to this run of dnsmasq, unless a lease read from the file
\* passed for traffic; one "last seen in a previous run" did not, unless the
\* event was lost or is on its way (uibackend.go 233-246, doc.go 18-24).
NotesAreTrue ==
    \A alive \in SUBSET Macs :
        \A m \in GetDeadDhcpClients(alive) : NoteIsTrue(m)

\* "PurgeOldDeadClients removes DHCP clients from the database that have not
\* been seen for a specified duration" (trackerdb.go:185), and no others: a
\* client that comes back between the SELECT and the DELETE is kept.
PurgeOnlyOld ==
    [][\A m \in Known : m \notin DOMAIN db' => now - db[m].seen > ForgetAfter]_vars

\* A client that is not seen for longer is forgotten in the end, if the purge
\* is on, even when single purges fail or the add-on restarts.
OldClientsAreForgotten ==
    ForgetAfter > 0 =>
        \A m \in Macs :
            (m \in Known /\ now - db[m].seen > ForgetAfter)
                ~> ~(m \in Known /\ now - db[m].seen > ForgetAfter)

\* "Each entry is added with [...] a "start epoch" which identifies which
\* particular instance of dnsmasq received traffic from that DHCP client"
\* (doc.go:18-19), which is why the script means to "exclude events produced at
\* the start of dnsmasq" (dnsmasq-dhcp-script.sh:101).
EpochNamesTraffic ==
    \A m \in Known : db[m].epoch = startEpoch => traffic[m] >= startEpoch
=============================================================================
