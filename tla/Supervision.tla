---------------------------- MODULE Supervision ----------------------------
(***************************************************************************)
(* The life of the add-on's container: dnsmasq-init/init.sh, a one-shot    *)
(* that prepares files in /data and /etc step by step, then the services   *)
(* that s6 (external) keeps up: dnsmasq and the backend in this order, the *)
(* others at once.  Each service has the same finish script.  A service    *)
(* that ended is started again without init.sh; the container may stop     *)
(* between any two steps and its next start finds /data as it was left.    *)
(*                                                                         *)
(* Scripts run with errexit, which bashio sets (nginx-init/init.sh turns   *)
(* it off for itself): a command that fails ends init.sh, and what depends *)
(* on it is not started.                                                   *)
(***************************************************************************)
EXTENDS Naturals

CONSTANTS
    Interfaces,     \* the network interfaces that may exist
    AutoIf, Blank,    \* the values "auto" and "" in the list of interfaces
    Configurable,   \* bound: the lists of interfaces that options.json may have
    OtherServices,  \* nginx and log-helper
    ResetOnReboot,  \* reset_dhcp_lease_database_on_reboot
    MaxStarts       \* bound: how often the container starts

Services == {"dnsmasq", "backend"} \cup OtherServices

\* A list of interfaces, order and repetition aside.
Lists == SUBSET (Interfaces \cup {AutoIf})

ASSUME SupervisionAssumption ==
    /\ AutoIf \notin Interfaces /\ Blank \notin Interfaces /\ AutoIf # Blank
    /\ Configurable \subseteq Lists
    /\ ResetOnReboot \in BOOLEAN
    /\ MaxStarts \in Nat
    /\ OtherServices \cap {"dnsmasq", "backend"} = {}

VARIABLES
    container,      \* whether the container runs
    starts,         \* how often it was started
    present,        \* the interfaces that exist
    configured,     \* "interfaces" in options.json
    obstacle,       \* what ListenAndServe would fail on first
    initPlace,      \* where init.sh is
    moving,         \* jq has written the .tmp file that is to be moved
    looked,         \* drop_missing_interfaces: the interfaces it has looked for
    found,          \* ... and its "present", those that it has found
    resolved,       \* options.resolved.json
    tmp,            \* options.resolved.json.tmp
    conf,           \* /etc/dnsmasq.conf
    leaseFile,      \* whether dnsmasq.leases exists
    epochFile,      \* /data/startepoch; 0 when empty or absent
    epoch,          \* the epoch that init.sh wrote last: time goes on in
                    \* between, so they can be numbered
    service,        \* the state of each service
    backend,        \* where the backend process is
    backendEpoch,   \* its b.startEpoch
    script,         \* the START_EPOCH of the running dnsmasq-dhcp-script.sh, 0
                    \* when none runs
    reachable,      \* history: the configured interfaces that have existed since
                    \* the start, and the one found for "auto" since then, ...
    absent          \* ... and the interfaces that have not existed since the
                    \* start, both up to when init.sh has looked for them

hostVars == <<container, starts, present, configured, obstacle>>
filesVars == <<resolved, tmp, conf>>
lookVars == <<looked, found>>
epochVars == <<epochFile, epoch>>
initVars == <<initPlace, moving, lookVars, filesVars>>
processVars == <<service, backend, backendEpoch, script>>
historyVars == <<reachable, absent>>
vars == <<hostVars, initVars, leaseFile, epochVars, processVars, historyVars>>

\* A configuration file: whether this run of init.sh made it, and its list of
\* interfaces.  A file of an earlier start, one that is cut short and one that
\* is not there are all Stale.
Files == [current : BOOLEAN, interfaces : Lists \cup {{Blank}}]
Stale == [current |-> FALSE, interfaces |-> {}]

\* The steps of init.sh, and which is next.
After == [reset |-> "truncate", truncate |-> "epoch", epoch |-> "copy",
          copy |-> "auto", auto |-> "pools", pools |-> "drop", drop |-> "ntp",
          ntp |-> "dns", dns |-> "render", render |-> "done"]
Places == DOMAIN After

\* init.sh has not yet looked for every interface.
Looking ==
    \/ initPlace \in {"reset", "truncate", "epoch", "copy", "auto", "pools"}
    \/ initPlace = "drop" /\ ~moving

\* The backend needs options.json to be accepted by LoadFromJSON and config.yaml
\* to be readable, then the lease file to be, then its port to be free.
Needs == [opened |-> "options", configured |-> "leases", loaded |-> "port"]
Obstacles == {Needs[place] : place \in DOMAIN Needs}

Init ==
    /\ container = "stopped"
    /\ starts = 0
    /\ present = {}
    /\ configured = {}
    /\ obstacle = "none"
    /\ initPlace = "reset"
    /\ moving = FALSE
    /\ looked = {} /\ found = {}
    /\ resolved = Stale /\ tmp = Stale /\ conf = Stale
    /\ leaseFile = FALSE
    /\ epochFile = 0
    /\ epoch = 0
    /\ service = [s \in Services |-> "down"]
    /\ backend = "none"
    /\ backendEpoch = 0
    /\ script = 0
    /\ reachable = {}
    /\ absent = {}

-----------------------------------------------------------------------------
(* The host (external).                                                    *)

\* The supervisor of Home Assistant writes options.json and starts the
\* container, after a reboot of the host or not, before or after the network.
StartContainer ==
    /\ container = "stopped"
    /\ starts < MaxStarts
    /\ container' = "running"
    /\ starts' = starts + 1
    /\ present' \in SUBSET Interfaces
    /\ configured' \in Configurable
    /\ obstacle' \in Obstacles \cup {"none"}
    /\ initPlace' = "reset"
    /\ moving' = FALSE
    /\ looked' = {} /\ found' = {}
    /\ resolved' = Stale /\ tmp' = Stale /\ conf' = Stale
    /\ reachable' = configured' \cap present'
    /\ absent' = Interfaces \ present'
    /\ UNCHANGED <<leaseFile, epochVars, processVars>>

\* Faulty variant: halt takes the services down, and the script it leaves behind.
AllDownButScript ==
    /\ container' = "stopped"
    /\ service' = [s \in Services |-> "down"]
    /\ backend' = "none"
    /\ UNCHANGED script

AllDown ==
    /\ container' = "stopped"
    /\ service' = [s \in Services |-> "down"]
    /\ backend' = "none"
    /\ script' = 0

\* The container is stopped or killed, whatever runs in it.
StopContainer ==
    /\ container = "running"
    /\ AllDown
    /\ UNCHANGED <<starts, present, configured, obstacle, initVars, leaseFile,
                   epochVars, backendEpoch, historyVars>>

\* An interface may come and go at any time, also between init.sh's look at it
\* and the start of dnsmasq, or any of its restarts.
InterfaceAppears ==
    /\ container = "running"
    /\ \E i \in Interfaces \ present :
        /\ present' = present \cup {i}
        /\ absent' = IF Looking THEN absent \ {i} ELSE absent
    /\ UNCHANGED <<container, starts, configured, obstacle, initVars, leaseFile,
                   epochVars, processVars, reachable>>

InterfaceVanishes ==
    /\ container = "running"
    /\ \E i \in present :
        /\ present' = present \ {i}
        /\ reachable' = IF Looking THEN reachable \ {i} ELSE reachable
    /\ UNCHANGED <<container, starts, configured, obstacle, initVars, leaseFile,
                   epochVars, processVars, absent>>

\* dnsmasq rewrites the lease file, another program takes the port or frees it.
\* options.json and config.yaml stay what they were at the start.
ObstacleChanges ==
    /\ container = "running"
    /\ obstacle # "options"
    /\ obstacle' \in {"none", "leases", "port"} \ {obstacle}
    /\ UNCHANGED <<container, starts, present, configured, initVars, leaseFile,
                   epochVars, processVars, historyVars>>

-----------------------------------------------------------------------------
(* init.sh                                                                 *)

At(place) == container = "running" /\ initPlace = place

GoOn == initPlace' = After[initPlace]

\* reset_dhcp_leases_database_if_just_rebooted: the host may have been up for
\* less than JUST_REBOOTED_THRESHOLD_SEC.  mv needs a file to move.
ResetLeases ==
    /\ At("reset")
    /\ \/ ResetOnReboot /\ leaseFile /\ leaseFile' = FALSE
       \/ UNCHANGED leaseFile
    /\ GoOn
    /\ UNCHANGED <<hostVars, moving, lookVars, filesVars, epochVars,
                   processVars, historyVars>>

\* echo ... > startepoch empties the file before it writes it.
TruncateEpoch ==
    /\ At("truncate")
    /\ epochFile' = 0
    /\ GoOn
    /\ UNCHANGED <<hostVars, moving, lookVars, filesVars, leaseFile, epoch,
                   processVars, historyVars>>

WriteEpoch ==
    /\ At("epoch")
    /\ epoch' = epoch + 1
    /\ epochFile' = epoch'
    /\ GoOn
    /\ UNCHANGED <<hostVars, moving, lookVars, filesVars, leaseFile,
                   processVars, historyVars>>

CopyOptions ==
    /\ At("copy")
    /\ resolved' = [current |-> TRUE, interfaces |-> configured]
    /\ GoOn
    /\ UNCHANGED <<hostVars, moving, lookVars, tmp, conf, leaseFile, epochVars,
                   processVars, historyVars>>

\* jq ... > .tmp
Rewrite(interfaces) ==
    /\ ~moving
    /\ tmp' = [resolved EXCEPT !.interfaces = interfaces]
    /\ moving' = TRUE
    /\ UNCHANGED <<hostVars, initPlace, resolved, conf, leaseFile, epochVars,
                   processVars>>

\* mv .tmp
Move ==
    /\ container = "running"
    /\ moving
    /\ resolved' = tmp
    /\ tmp' = Stale
    /\ moving' = FALSE
    /\ GoOn
    /\ UNCHANGED <<hostVars, lookVars, conf, leaseFile, epochVars, processVars,
                   historyVars>>

\* Only an interface that exists routes to the internet.
ResolveAuto ==
    /\ At("auto")
    /\ \E egress \in present :
        /\ Rewrite(IF AutoIf \in resolved.interfaces
                   THEN (resolved.interfaces \ {AutoIf}) \cup {egress}
                   ELSE resolved.interfaces)
        /\ reachable' = IF AutoIf \in configured THEN reachable \cup {egress}
                                               ELSE reachable
    /\ UNCHANGED <<lookVars, absent>>

\* Without a route "auto" stays as it is, here and in the pools.
ResolveNoAuto ==
    /\ At("auto")
    /\ ~moving
    /\ initPlace' = "drop"
    /\ UNCHANGED <<hostVars, moving, lookVars, filesVars, leaseFile, epochVars,
                   processVars, historyVars>>

\* The wait for missing interfaces ends when they are there, or after 30 s; then
\* each is looked for again.  "auto" is the name of none.
LookFor ==
    /\ At("drop")
    /\ ~moving
    /\ \E i \in resolved.interfaces \ looked :
        /\ looked' = looked \cup {i}
        /\ found' = IF i \in present THEN found \cup {i} ELSE found
    /\ UNCHANGED <<hostVars, initPlace, moving, filesVars, leaseFile, epochVars,
                   processVars, historyVars>>

\* printf prints an empty line for an empty list, of which jq makes one value.
DropMissing ==
    /\ At("drop")
    /\ looked = resolved.interfaces
    /\ Rewrite(IF found = {} THEN {Blank} ELSE found)
    /\ looked' = {} /\ found' = {}
    /\ UNCHANGED historyVars

\* The passes that leave the list of interfaces alone: "auto" in the pools,
\* resolve_ntp_servers and process_dns_servers.  The last two do nothing when
\* there is nothing to resolve.
RewriteOthers ==
    /\ At("pools") \/ At("ntp") \/ At("dns")
    /\ Rewrite(resolved.interfaces)
    /\ UNCHANGED <<lookVars, historyVars>>

SkipServers ==
    /\ At("ntp") \/ At("dns")
    /\ ~moving
    /\ GoOn
    /\ UNCHANGED <<hostVars, moving, lookVars, filesVars, leaseFile, epochVars,
                   processVars, historyVars>>

\* tempio, and sed on its output
Render ==
    /\ At("render")
    /\ conf' = resolved
    /\ GoOn
    /\ UNCHANGED <<hostVars, moving, lookVars, resolved, tmp, leaseFile,
                   epochVars, processVars, historyVars>>

\* Faulty variant: no errexit, the script goes on after a failed command.
InitGoesOn ==
    /\ container = "running"
    /\ initPlace \in Places
    /\ resolved' = IF initPlace = "copy" THEN Stale ELSE resolved
    /\ tmp' = IF moving THEN tmp ELSE Stale
    /\ conf' = IF initPlace = "render" THEN Stale ELSE conf
    /\ GoOn
    /\ moving' = FALSE
    /\ looked' = {} /\ found' = {}
    /\ UNCHANGED <<hostVars, leaseFile, epochVars, processVars, historyVars>>

\* A command fails: the file it was writing is cut short.  With errexit the
\* script ends there.
InitFails ==
    /\ container = "running"
    /\ initPlace \in Places
    /\ resolved' = IF initPlace = "copy" THEN Stale ELSE resolved
    /\ tmp' = IF moving THEN tmp ELSE Stale
    /\ conf' = IF initPlace = "render" THEN Stale ELSE conf
    /\ initPlace' = "failed"
    /\ moving' = FALSE
    /\ looked' = {} /\ found' = {}
    /\ UNCHANGED <<hostVars, leaseFile, epochVars, processVars, historyVars>>

InitStep ==
    \/ ResetLeases \/ TruncateEpoch \/ WriteEpoch \/ CopyOptions
    \/ ResolveAuto \/ ResolveNoAuto \/ LookFor \/ DropMissing
    \/ RewriteOthers \/ SkipServers \/ Move \/ Render \/ InitFails

-----------------------------------------------------------------------------
(* The services.  One that "ended" has status 0 or died of a signal, which *)
(* s6 reports as 256; one that "failed" has another status.                *)

\* Faulty variant: dependencies.d/dnsmasq-init is missing.
DependsOnNothing(s) ==
    s = "backend" => service["dnsmasq"] # "down"

\* dependencies.d; s6 does not wait for a service to be ready.
DependenciesUp(s) ==
    /\ s = "dnsmasq" => initPlace = "done"
    /\ s = "backend" => service["dnsmasq"] # "down"

\* Faulty variant: the run script of dnsmasq advances the epoch.
RunAdvancing(s) ==
    /\ service' = [service EXCEPT ![s] = "up"]
    /\ backend' = IF s = "backend" THEN "created" ELSE backend
    /\ leaseFile' = IF s = "dnsmasq" THEN TRUE ELSE leaseFile
    /\ epoch' = IF s = "dnsmasq" THEN epoch + 1 ELSE epoch
    /\ epochFile' = epoch'
    /\ UNCHANGED <<hostVars, initVars, backendEpoch, script, historyVars>>

\* A process of s is started.  dnsmasq creates the lease file if need be.
Run(s) ==
    /\ service' = [service EXCEPT ![s] = "up"]
    /\ backend' = IF s = "backend" THEN "created" ELSE backend
    /\ leaseFile' = IF s = "dnsmasq" THEN TRUE ELSE leaseFile
    /\ UNCHANGED <<hostVars, initVars, epochVars, backendEpoch, script,
                   historyVars>>

StartService(s) ==
    /\ container = "running"
    /\ service[s] = "down"
    /\ DependenciesUp(s)
    /\ Run(s)

Ends(s, status) ==
    /\ service' = [service EXCEPT ![s] = status]
    /\ backend' = IF s = "backend" THEN "none" ELSE backend
    /\ UNCHANGED <<hostVars, initVars, leaseFile, epochVars, backendEpoch,
                   script, historyVars>>

\* A service is killed, panics or gives up, for whatever reason.
Dies(s) ==
    /\ service[s] = "up"
    /\ Ends(s, "ended") \/ Ends(s, "failed")

\* Faulty variant: the finish script leaves a service that ended down for good.
RestartNever(s) ==
    /\ service[s] = "ended"
    /\ FALSE
    /\ UNCHANGED vars

\* The finish script: "Service restart after closing", by s6.
Restart(s) ==
    /\ service[s] = "ended"
    /\ Run(s)

\* The finish script: "Halt add-on".
Finish(s) ==
    /\ service[s] = "failed"
    /\ AllDown
    /\ UNCHANGED <<starts, present, configured, obstacle, initVars, leaseFile,
                   epochVars, backendEpoch, historyVars>>

-----------------------------------------------------------------------------
(* dnsmasq-dhcp-script.sh, as far as the epoch matters: its dnsmasq may be *)
(* gone before it ends.                                                    *)

StartScript ==
    /\ service["dnsmasq"] = "up"
    /\ script = 0
    /\ script' = epochFile
    /\ UNCHANGED <<hostVars, initVars, leaseFile, epochVars, service, backend,
                   backendEpoch, historyVars>>

EndScript ==
    /\ script # 0
    /\ script' = 0
    /\ UNCHANGED <<hostVars, initVars, leaseFile, epochVars, service, backend,
                   backendEpoch, historyVars>>

-----------------------------------------------------------------------------
(* The start of the backend process.                                       *)

\* NewUIBackend: opening the database touches no file yet.
OpenBackend ==
    /\ backend = "created"
    /\ epochFile # 0
    /\ backend' = "opened"
    /\ backendEpoch' = epochFile
    /\ UNCHANGED <<hostVars, initVars, leaseFile, epochVars, service, script,
                   historyVars>>

\* When the file cannot be read, or has no number, it returns an empty UIBackend:
\* Fatalf only logs.  ListenAndServe panics on its nil logger, with status 2.
OpenBackendFails ==
    /\ backend = "created"
    /\ Ends("backend", "failed")

\* ListenAndServe reads the options and config.yaml, ...
ReadOptions ==
    /\ backend = "opened"
    /\ obstacle # "options"
    /\ backend' = "configured"
    /\ UNCHANGED <<hostVars, initVars, leaseFile, epochVars, service,
                   backendEpoch, script, historyVars>>

\* ... the lease file, which it creates if need be, ...
ReadLeases ==
    /\ backend = "configured"
    /\ obstacle # "leases"
    /\ backend' = "loaded"
    /\ leaseFile' = TRUE
    /\ UNCHANGED <<hostVars, initVars, epochVars, service, backendEpoch, script,
                   historyVars>>

\* ... and then starts the goroutines and the server.
Serve ==
    /\ backend = "loaded"
    /\ obstacle # "port"
    /\ backend' = "serving"
    /\ UNCHANGED <<hostVars, initVars, leaseFile, epochVars, service,
                   backendEpoch, script, historyVars>>

\* An error of any of these is logged and returned, and main ignores it: status 0.
ListenAndServeFails ==
    /\ backend \in DOMAIN Needs
    /\ obstacle = Needs[backend]
    /\ Ends("backend", "ended")

BackendStep ==
    \/ OpenBackend \/ OpenBackendFails
    \/ ReadOptions \/ ReadLeases \/ Serve \/ ListenAndServeFails

-----------------------------------------------------------------------------
ServiceStep(s) ==
    StartService(s) \/ Dies(s) \/ Restart(s) \/ Finish(s)

Next ==
    \/ StartContainer \/ StopContainer
    \/ InterfaceAppears \/ InterfaceVanishes \/ ObstacleChanges
    \/ InitStep
    \/ \E s \in Services : ServiceStep(s)
    \/ StartScript \/ EndScript
    \/ BackendStep

Spec == Init /\ [][Next]_vars

\* init.sh goes on (its wait for interfaces is limited), s6 starts what can be
\* started and runs the finish scripts, and a backend that is started over and
\* over with nothing in its way gets its turn.  Nothing is assumed of obstacles.
FairSpec ==
    /\ Spec
    /\ WF_vars(InitStep)
    /\ \A s \in Services : WF_vars(StartService(s)) /\ WF_vars(Restart(s))
                                                    /\ WF_vars(Finish(s))
    /\ SF_vars(OpenBackend) /\ SF_vars(ReadOptions) /\ SF_vars(ReadLeases)
    /\ SF_vars(Serve)

-----------------------------------------------------------------------------
(* What the supervision promises.                                          *)

\* A service up has a process, a stopped container has none.
SupervisionTypeOK ==
    /\ container \in {"stopped", "running"}
    /\ starts \in Nat
    /\ present \in SUBSET Interfaces
    /\ configured \in Lists
    /\ obstacle \in Obstacles \cup {"none"}
    /\ initPlace \in Places \cup {"done", "failed"}
    /\ moving \in BOOLEAN
    /\ found \subseteq Interfaces
    /\ looked \subseteq Interfaces \cup {AutoIf, Blank}
    /\ resolved \in Files /\ tmp \in Files /\ conf \in Files
    /\ leaseFile \in BOOLEAN
    /\ epochFile \in Nat
    /\ epoch \in Nat
    /\ service \in [Services -> {"down", "up", "ended", "failed"}]
    /\ backend \in {"none", "created", "opened", "configured", "loaded",
                   "serving"}
    /\ backend # "none" <=> service["backend"] = "up"
    /\ backendEpoch \in Nat
    /\ script \in Nat
    /\ reachable \in SUBSET Interfaces /\ absent \in SUBSET Interfaces
    /\ container = "stopped" => script = 0 /\ \A s \in Services : service[s] = "down"

\* dnsmasq never runs on a configuration that an earlier start, a crash between
\* two steps or a failed command has left in /data or /etc.  Of its interfaces
\* none was missing from the start until init.sh had looked for them (init.sh
\* 80-86), so that one that does not exist now has been there and vanished; and
\* all the configured ones that were there from the start until then are among
\* them, "auto" included if it could be resolved.  It is not promised that they
\* exist: dnsmasq, which then "refuses to start" (63), is started after the look,
\* and again without another one (dnsmasq/finish:12).
ConfOfThisStart ==
    service["dnsmasq"] = "up" =>
        /\ conf.current
        /\ conf.interfaces \subseteq Interfaces \ absent \/ conf.interfaces = {Blank}
        /\ reachable \subseteq conf.interfaces

\* Every process that looks at rows by their epoch has the one and only epoch
\* of this start of the container, after any number of restarts of the
\* services: the scripts that write it (script 35-44), and the backend that
\* compares rows with its own copy (uibackend.go 106-111, 234-242).
EpochOfThisStart ==
    /\ service["dnsmasq"] = "up" => epochFile = epoch /\ epochFile # 0
    /\ script # 0 => script = epochFile
    /\ backend \notin {"none", "created"} => backendEpoch = epochFile

\* The epoch changes only while nobody uses it, and only to one that no earlier
\* run had: a row of an earlier run never passes for one of the current
\* (init.sh 162-166).  TrackerDb rests on this, where the restart of the
\* container, the end of its scripts and the new epoch are one step.
EpochStands ==
    [][epochFile' # epochFile =>
            /\ service["dnsmasq"] # "up" /\ service["backend"] # "up"
            /\ script = 0
            /\ epochFile' = 0 \/ epochFile' > epoch]_vars

\* A container that runs comes to serve its page or is stopped, however often
\* services die on the way, unless init.sh has failed or something is in the way
\* that makes ListenAndServe return an error: options.json is refused, config.yaml
\* (uibackend.go 834-841) or the lease file (844-847) cannot be read, the port is
\* taken (876).  The backend then ends with status 0, which s6 answers by starting
\* it again (main.go:15, backend/finish:7).  Whenever the last such obstacle goes
\* away the same is promised anew: the add-on recovers without being restarted.
AddonServes ==
    container = "running" ~>
        \/ backend = "serving" \/ container = "stopped"
        \/ initPlace = "failed" \/ obstacle # "none"
=============================================================================
