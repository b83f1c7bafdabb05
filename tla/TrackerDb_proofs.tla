---------------------------- MODULE TrackerDb_proofs ------------------------
(***************************************************************************)
(* Proofs about TrackerDb, for any clients, times and time zones: types,   *)
(* the truth of the notes, and, where local time is not ahead of UTC, that *)
(* recent traffic is recorded and only old clients are purged.             *)
(***************************************************************************)
EXTENDS TrackerDb, TLAPS

USE TrackerAssumption

\* The queue of the helper: what Append and Tail do to the traffic in it.
LEMMA AppendTraffic ==
    ASSUME NEW events \in Seq(Kinds), NEW kind \in Kinds
    PROVE  /\ HasTraffic(Append(events, kind)) <=> HasTraffic(events) \/ IsTraffic(kind)
           /\ Append(events, kind) \in Seq(Kinds)
BY DEF HasTraffic

LEMMA TailTraffic ==
    ASSUME NEW events \in Seq(Kinds), events # <<>>
    PROVE  /\ HasTraffic(events) <=> IsTraffic(Head(events)) \/ HasTraffic(Tail(events))
           /\ Tail(events) \in Seq(Kinds)
           /\ Head(events) \in Kinds
<1>1. Tail(events) \in Seq(Kinds) /\ Head(events) \in Kinds
  OBVIOUS
<1>2. HasTraffic(events) => IsTraffic(Head(events)) \/ HasTraffic(Tail(events))
  <2> SUFFICES ASSUME NEW i \in DOMAIN events, IsTraffic(events[i]), i # 1
               PROVE  HasTraffic(Tail(events))
    BY DEF HasTraffic
  <2>1. i - 1 \in DOMAIN Tail(events) /\ Tail(events)[i - 1] = events[i]
    OBVIOUS
  <2> QED BY <2>1 DEF HasTraffic
<1>3. IsTraffic(Head(events)) => HasTraffic(events)
  <2>1. 1 \in DOMAIN events /\ events[1] = Head(events)
    OBVIOUS
  <2> QED BY <2>1 DEF HasTraffic
<1>4. HasTraffic(Tail(events)) => HasTraffic(events)
  <2> SUFFICES ASSUME NEW i \in DOMAIN Tail(events), IsTraffic(Tail(events)[i])
               PROVE  HasTraffic(events)
    BY DEF HasTraffic
  <2>1. i + 1 \in DOMAIN events /\ Tail(events)[i] = events[i + 1]
    OBVIOUS
  <2> QED BY <2>1 DEF HasTraffic
<1> QED BY <1>1, <1>2, <1>3, <1>4

-----------------------------------------------------------------------------
(* The inductive invariant.                                                *)

\* What each event and each running script is known to say: pending traffic
\* belongs to the current run, and so does what the script will write, with a
\* time that is not older than the traffic it stands for.
EventsAreCurrent ==
    \A m \in Macs :
        /\ traffic[m] <= now
        /\ TrafficPending(m) => traffic[m] >= startEpoch
        /\ InScript(m) /\ IsTraffic(script.kind) => traffic[m] >= startEpoch
        /\ InScript(m) => script.seen >= traffic[m] \/ TrafficPending(m)

ScriptIsCurrent ==
    script # None => script.seen <= now /\ script.epoch = startEpoch

\* The row of every client, whether it is shown as a past client or not.
RowsAreTrue == \A m \in Known : NoteIsTrue(m)

\* A purge in progress has a threshold that no time passed since has made
\* too young.
PurgeIsOld ==
    purge # None =>
        ForgetAfter > 0 /\ purge.threshold <= now - ForgetAfter + TzOffset

\* What the history keeps in any time zone: a client is recent as far as the
\* cutoff of a purge goes, which is computed in local time.
RecentByCutoff(m) ==
    traffic[m] # Never /\ (ForgetAfter = 0 \/ traffic[m] >= Threshold)

TrafficIsKept == \A m \in Macs : RecentByCutoff(m) /\ m \notin lost => Recorded(m)

IInv ==
    /\ TrackerTypeOK
    /\ EventsAreCurrent
    /\ ScriptIsCurrent
    /\ RowsAreTrue
    /\ PurgeIsOld
    /\ TrafficIsKept

LEMMA IInvInit == Init => IInv
<1> SUFFICES ASSUME Init PROVE IInv
  OBVIOUS
<1> USE DEF Init, Never, Known
<1>1. TrackerTypeOK
  BY DEF TrackerTypeOK
<1>2. EventsAreCurrent
  <2>1. \A m \in Macs : ~TrafficPending(m)
    <3> SUFFICES ASSUME NEW m \in Macs PROVE ~HasTraffic(pending[m])
      BY DEF TrafficPending
    <3>1. pending[m] = <<>> /\ DOMAIN pending[m] = {}
      OBVIOUS
    <3> QED BY <3>1 DEF HasTraffic
  <2>2. \A m \in Macs : traffic[m] = -1 /\ ~InScript(m)
    BY DEF InScript
  <2>3. \A m \in Macs : traffic[m] <= now
    <3>1. now = 0 /\ -1 <= 0
      OBVIOUS
    <3> QED BY <2>2, <3>1, Zenon
  <2> QED BY <2>1, <2>2, <2>3, Zenon DEF EventsAreCurrent
<1>3. TrafficIsKept
  BY DEF TrafficIsKept, RecentByCutoff
<1> QED BY <1>1, <1>2, <1>3 DEF IInv, ScriptIsCurrent, RowsAreTrue, PurgeIsOld

\* Types.
LEMMA TypeStep == TrackerTypeOK /\ ScriptIsCurrent /\ [Next]_vars => TrackerTypeOK'
<1> SUFFICES ASSUME TrackerTypeOK, ScriptIsCurrent, [Next]_vars
             PROVE  TrackerTypeOK'
  OBVIOUS
<1> USE DEF TrackerTypeOK, Known
<1>1. CASE Tick
  BY <1>1 DEF Tick, eventVars, historyVars, Rows
<1>2. CASE RestartAddon
  <2>1. pending' \in [Macs -> Seq(Kinds)]
    BY <1>2 DEF RestartAddon
  <2>2. \A m \in Known : db[m].seen <= now + 1
    BY DEF Rows
  <2>3. lost' \in SUBSET Macs
    BY <1>2 DEF RestartAddon
  <2> QED BY <1>2, <2>1, <2>2, <2>3 DEF RestartAddon
<1>3. CASE StartDnsmasq \/ RestartDnsmasq
  <2>1. pending' \in [Macs -> Seq(Kinds)]
    BY <1>3, AppendTraffic DEF StartDnsmasq, RestartDnsmasq, ReportLeases, Kinds
  <2> QED BY <1>3, <2>1 DEF StartDnsmasq, RestartDnsmasq, ReportLeases, historyVars
<1>4. ASSUME NEW m \in Macs, Lease(m) \/ Renew(m) \/ Expire(m)
      PROVE  TrackerTypeOK'
  <2>1. PICK kind \in Kinds : Report(m, kind) /\ leases' \in SUBSET Macs
    BY <1>4 DEF Lease, Renew, Expire, Kinds
  <2>2. pending' \in [Macs -> Seq(Kinds)]
    BY <2>1, AppendTraffic DEF Report
  <2> QED BY <2>1, <2>2 DEF Report, hostVars, historyVars
<1>5. ASSUME NEW m \in Macs, RunScript(m)
      PROVE  TrackerTypeOK'
  <2>1. /\ Head(pending[m]) \in Kinds
        /\ pending' \in [Macs -> Seq(Kinds)]
    BY <1>5, TailTraffic DEF RunScript
  <2>2. script' \in Jobs \cup {None}
    BY <1>5, <2>1 DEF RunScript, Jobs, Ignored
  <2>3. lost' \in SUBSET Macs
    BY <1>5 DEF RunScript
  <2> QED BY <1>5, <2>1, <2>2, <2>3 DEF RunScript, hostVars
<1>6. CASE Upsert
  <2>1. script \in Jobs
    BY <1>6 DEF Upsert
  <2>2. /\ DOMAIN db' \in SUBSET Macs
        /\ db' \in [DOMAIN db' -> Rows]
        /\ \A m \in DOMAIN db' : db'[m].seen <= now
    BY <1>6, <2>1 DEF Upsert, Jobs, Row, Rows, ScriptIsCurrent
  <2>3. lost' \in SUBSET Macs /\ leaked' \in SUBSET Macs
    BY <1>6, <2>1 DEF Upsert, Jobs
  <2> QED BY <1>6, <2>2, <2>3 DEF Upsert, hostVars, eventVars
<1>7. CASE UpsertFails
  BY <1>7 DEF UpsertFails, hostVars, eventVars, Jobs
<1>8. CASE PurgeSelect
  <2>1. purge' \in Purges
    BY <1>8 DEF PurgeSelect, Purges, Threshold, OldClients
  <2> QED BY <1>8, <2>1 DEF PurgeSelect, hostVars, eventVars, historyVars
<1>9. CASE PurgeDelete
  BY <1>9 DEF PurgeDelete, OldClients, hostVars, eventVars, historyVars
<1>10. CASE PurgeFails
  BY <1>10 DEF PurgeFails, hostVars, eventVars, historyVars
<1>11. CASE UNCHANGED vars
  BY <1>11 DEF vars, hostVars, eventVars, historyVars
<1> QED BY <1>1, <1>2, <1>3, <1>4, <1>5, <1>6, <1>7, <1>8, <1>9, <1>10, <1>11
        DEF Next, DnsmasqStep, ScriptStep, PurgeStep

\* What the actions do to the traffic that waits in the helper.
LEMMA ReportTraffic ==
    ASSUME TrackerTypeOK, NEW m \in Macs, NEW kind \in Kinds, Report(m, kind)
    PROVE  \A k \in Macs :
            TrafficPending(k)' <=> TrafficPending(k) \/ (k = m /\ IsTraffic(kind))
<1>1. \A k \in Macs : pending[k] \in Seq(Kinds)
                     /\ pending'[k] = IF k = m THEN Append(pending[k], kind) ELSE pending[k]
  BY DEF TrackerTypeOK, Report
<1>2. HasTraffic(Append(pending[m], kind)) <=> HasTraffic(pending[m]) \/ IsTraffic(kind)
  BY <1>1, AppendTraffic
<1> QED BY <1>1, <1>2 DEF TrafficPending

LEMMA ReportLeasesTraffic ==
    ASSUME TrackerTypeOK, ReportLeases
    PROVE  \A k \in Macs : TrafficPending(k)' <=> TrafficPending(k)
<1> SUFFICES ASSUME NEW k \in Macs
             PROVE  HasTraffic(pending'[k]) <=> HasTraffic(pending[k])
  BY DEF TrafficPending
<1>1. /\ pending[k] \in Seq(Kinds)
      /\ pending'[k] = IF k \in leases THEN Append(pending[k], "startup") ELSE pending[k]
  BY DEF TrackerTypeOK, ReportLeases
<1>2. HasTraffic(Append(pending[k], "startup")) <=> HasTraffic(pending[k])
  BY <1>1, AppendTraffic DEF Kinds, IsTraffic
<1> QED BY <1>1, <1>2

LEMMA RunScriptTraffic ==
    ASSUME TrackerTypeOK, NEW m \in Macs, RunScript(m)
    PROVE  /\ \A k \in Macs \ {m} : TrafficPending(k)' <=> TrafficPending(k)
           /\ TrafficPending(m) <=> IsTraffic(Head(pending[m])) \/ TrafficPending(m)'
           /\ Head(pending[m]) \in Kinds
<1>1. /\ pending[m] \in Seq(Kinds) /\ pending[m] # <<>>
      /\ \A k \in Macs : pending'[k] = IF k = m THEN Tail(pending[k]) ELSE pending[k]
  BY DEF TrackerTypeOK, RunScript
<1>2. /\ HasTraffic(pending[m]) <=> IsTraffic(Head(pending[m])) \/ HasTraffic(Tail(pending[m]))
      /\ Head(pending[m]) \in Kinds
  BY <1>1, TailTraffic
<1> QED BY <1>1, <1>2 DEF TrafficPending

LEMMA RestartTraffic ==
    ASSUME RestartAddon
    PROVE  \A k \in Macs : ~TrafficPending(k)' /\ ~InScript(k)'
<1> SUFFICES ASSUME NEW k \in Macs PROVE ~TrafficPending(k)' /\ ~InScript(k)'
  OBVIOUS
<1>1. pending'[k] = <<>> /\ DOMAIN <<>> = {}
  BY DEF RestartAddon
<1> QED BY <1>1 DEF RestartAddon, TrafficPending, HasTraffic, InScript

\* A script that runs for m has m's job; one that ends or does not start has
\* none.
LEMMA RunScriptJob ==
    ASSUME TrackerTypeOK, NEW m \in Macs, RunScript(m)
    PROVE  LET kind == Head(pending[m]) IN
           /\ Ignored(kind) => \A k \in Macs : ~InScript(k)'
           /\ ~Ignored(kind) =>
                /\ script' = [mac |-> m, kind |-> kind, seen |-> now, epoch |-> startEpoch]
                /\ \A k \in Macs : InScript(k)' <=> k = m
<1> DEFINE kind == Head(pending[m])
           job == [mac |-> m, kind |-> kind, seen |-> now, epoch |-> startEpoch]
<1>1. CASE Ignored(kind)
  <2>1. script' = None
    BY <1>1 DEF RunScript
  <2> QED BY <1>1, <2>1 DEF InScript
<1>2. CASE ~Ignored(kind)
  <2>1. script' = job
    BY <1>2 DEF RunScript
  <2>2. job \in Jobs
    BY <1>2, RunScriptTraffic DEF Jobs, TrackerTypeOK, Ignored
  <2> QED BY <1>2, <2>1, <2>2 DEF InScript
<1> QED BY <1>1, <1>2

LEMMA EventsStep == IInv /\ [Next]_vars => EventsAreCurrent'
<1> SUFFICES ASSUME IInv, [Next]_vars, NEW k \in Macs
             PROVE  /\ traffic'[k] <= now'
                    /\ TrafficPending(k)' => traffic'[k] >= startEpoch'
                    /\ InScript(k)' /\ IsTraffic(script'.kind) => traffic'[k] >= startEpoch'
                    /\ InScript(k)' => script'.seen >= traffic'[k] \/ TrafficPending(k)'
  BY DEF EventsAreCurrent
<1> USE DEF IInv, EventsAreCurrent
<1>t. /\ now \in Nat /\ startEpoch \in 0..now /\ traffic[k] \in Nat \cup {Never}
      /\ -1 <= now /\ traffic[k] \in Int
  BY DEF TrackerTypeOK, Never
<1>1. CASE Tick
  BY <1>1, <1>t DEF Tick, eventVars, TrafficPending, InScript
<1>2. CASE RestartAddon
  BY <1>2, <1>t, RestartTraffic DEF RestartAddon
<1>3. CASE StartDnsmasq \/ RestartDnsmasq
  BY <1>3, ReportLeasesTraffic DEF StartDnsmasq, RestartDnsmasq, ReportLeases, InScript
<1>4. ASSUME NEW m \in Macs, NEW kind \in Kinds, Report(m, kind)
      PROVE  /\ traffic'[k] <= now'
             /\ TrafficPending(k)' => traffic'[k] >= startEpoch'
             /\ InScript(k)' /\ IsTraffic(script'.kind) => traffic'[k] >= startEpoch'
             /\ InScript(k)' => script'.seen >= traffic'[k] \/ TrafficPending(k)'
  <2>1. traffic'[k] = IF k = m /\ IsTraffic(kind) THEN now ELSE traffic[k]
    BY <1>4 DEF Report, TrackerTypeOK
  <2>2. TrafficPending(k)' <=> TrafficPending(k) \/ (k = m /\ IsTraffic(kind))
    BY <1>4, ReportTraffic
  <2>3. /\ UNCHANGED <<now, startEpoch, script>>
        /\ InScript(k)' <=> InScript(k)
    BY <1>4 DEF Report, hostVars, InScript
  <2> QED BY <1>t, <2>1, <2>2, <2>3
<1>5. ASSUME NEW m \in Macs, RunScript(m)
      PROVE  /\ traffic'[k] <= now'
             /\ TrafficPending(k)' => traffic'[k] >= startEpoch'
             /\ InScript(k)' /\ IsTraffic(script'.kind) => traffic'[k] >= startEpoch'
             /\ InScript(k)' => script'.seen >= traffic'[k] \/ TrafficPending(k)'
  <2>1. UNCHANGED <<traffic, now, startEpoch>>
    BY <1>5 DEF RunScript, hostVars
  <2>2. InScript(k)' => k = m /\ script'.kind = Head(pending[m]) /\ script'.seen = now
    BY <1>5, RunScriptJob
  <2>3. TrafficPending(k)' => TrafficPending(k)
    BY <1>5, RunScriptTraffic
  <2>4. k = m /\ IsTraffic(Head(pending[m])) => TrafficPending(k)
    BY <1>5, RunScriptTraffic
  <2> QED BY <1>t, <2>1, <2>2, <2>3, <2>4
<1>6. CASE Upsert \/ UpsertFails
  BY <1>6 DEF Upsert, UpsertFails, hostVars, eventVars, TrafficPending, InScript
<1>7. CASE PurgeStep \/ UNCHANGED vars
  BY <1>7 DEF PurgeStep, PurgeSelect, PurgeDelete, PurgeFails, vars, hostVars,
              eventVars, TrafficPending, InScript
<1>8. ASSUME NEW m \in Macs, Lease(m) \/ Renew(m) \/ Expire(m)
      PROVE  \E kind \in Kinds : Report(m, kind)
  BY <1>8 DEF Lease, Renew, Expire, Kinds
<1> QED BY <1>1, <1>2, <1>3, <1>4, <1>5, <1>6, <1>7, <1>8
        DEF Next, DnsmasqStep, ScriptStep

LEMMA ScriptIsCurrentStep == IInv /\ [Next]_vars => ScriptIsCurrent'
<1> SUFFICES ASSUME IInv, [Next]_vars, script' # None
             PROVE  script'.seen <= now' /\ script'.epoch = startEpoch'
  BY DEF ScriptIsCurrent
<1> USE DEF IInv, ScriptIsCurrent
<1>t. now \in Nat /\ script \in Jobs \cup {None}
  BY DEF TrackerTypeOK
<1>1. CASE Tick
  BY <1>1, <1>t DEF Tick, Jobs
<1>2. ASSUME NEW m \in Macs, RunScript(m)
      PROVE  script'.seen <= now' /\ script'.epoch = startEpoch'
  <2>1. script' = [mac |-> m, kind |-> Head(pending[m]), seen |-> now, epoch |-> startEpoch]
    BY <1>2 DEF RunScript
  <2> QED BY <1>2, <1>t, <2>1 DEF RunScript, hostVars
<1>3. CASE DnsmasqStep
  BY <1>3 DEF DnsmasqStep, RestartAddon, StartDnsmasq, RestartDnsmasq, ReportLeases,
              Lease, Renew, Expire, Report, hostVars
<1>4. CASE Upsert \/ UpsertFails
  BY <1>4 DEF Upsert, UpsertFails
<1>5. CASE PurgeStep \/ UNCHANGED vars
  BY <1>5 DEF PurgeStep, PurgeSelect, PurgeDelete, PurgeFails, vars, hostVars
<1> QED BY <1>1, <1>2, <1>3, <1>4, <1>5 DEF Next, ScriptStep

LEMMA PurgeIsOldStep == IInv /\ [Next]_vars => PurgeIsOld'
<1> SUFFICES ASSUME IInv, [Next]_vars, purge' # None
             PROVE  /\ ForgetAfter > 0
                    /\ purge'.threshold <= now' - ForgetAfter + TzOffset
  BY DEF PurgeIsOld
<1> USE DEF IInv, PurgeIsOld
<1>t. now \in Nat /\ purge \in Purges \cup {None}
  BY DEF TrackerTypeOK
<1>1. CASE Tick
  BY <1>1, <1>t DEF Tick, Purges
<1>2. CASE DnsmasqStep
  BY <1>2 DEF DnsmasqStep, RestartAddon, StartDnsmasq, RestartDnsmasq, ReportLeases,
              Lease, Renew, Expire, Report, hostVars
<1>3. CASE ScriptStep
  BY <1>3 DEF ScriptStep, RunScript, Upsert, UpsertFails, hostVars
<1>4. CASE PurgeSelect
  BY <1>4, <1>t DEF PurgeSelect, Threshold, hostVars
<1>5. CASE PurgeDelete \/ PurgeFails \/ UNCHANGED vars
  BY <1>5 DEF PurgeDelete, PurgeFails, vars, hostVars
<1> QED BY <1>1, <1>2, <1>3, <1>4, <1>5 DEF Next, PurgeStep

\* The note of a client in terms of the epoch of its row.
LEMMA NoteByEpoch ==
    ASSUME TrackerTypeOK, NEW m \in Known
    PROVE  NoteIsTrue(m) <=>
            /\ db[m].epoch <= startEpoch
            /\ db[m].epoch = startEpoch => traffic[m] >= startEpoch \/ m \in leaked
            /\ db[m].epoch < startEpoch =>
                    \/ traffic[m] < startEpoch
                    \/ m \in lost \/ TrafficPending(m) \/ InScript(m)
<1>1. db[m].epoch \in Nat /\ startEpoch \in Nat
  BY DEF TrackerTypeOK, Rows, Known
<1> QED BY <1>1 DEF NoteIsTrue, Note

LEMMA RowsStep == IInv /\ [Next]_vars => RowsAreTrue'
<1> SUFFICES ASSUME IInv, [Next]_vars, NEW k \in Known'
             PROVE  NoteIsTrue(k)'
  BY DEF RowsAreTrue
<1> USE DEF IInv
<1>t. TrackerTypeOK'
  BY TypeStep
<1>k. k \in Macs
  BY <1>t DEF TrackerTypeOK
<1> DEFINE Goal ==
            /\ db'[k].epoch <= startEpoch'
            /\ db'[k].epoch = startEpoch' => traffic'[k] >= startEpoch' \/ k \in leaked'
            /\ db'[k].epoch < startEpoch' =>
                    \/ traffic'[k] < startEpoch'
                    \/ k \in lost' \/ TrafficPending(k)' \/ InScript(k)'
<1>g. SUFFICES Goal
  <2>1. db'[k].epoch \in Nat /\ startEpoch' \in Nat
    BY <1>t DEF TrackerTypeOK, Rows, Known
  <2> QED BY <2>1 DEF NoteIsTrue, Note
<1>n. ASSUME k \in Known
      PROVE  /\ db[k].epoch <= startEpoch
             /\ db[k].epoch = startEpoch => traffic[k] >= startEpoch \/ k \in leaked
             /\ db[k].epoch < startEpoch =>
                     \/ traffic[k] < startEpoch
                     \/ k \in lost \/ TrafficPending(k) \/ InScript(k)
  BY <1>n, NoteByEpoch DEF RowsAreTrue
<1>b. /\ now \in Nat /\ startEpoch \in Nat /\ startEpoch <= now /\ now + 1 > now
      /\ traffic[k] \in Int /\ traffic[k] <= now
      /\ k \in Known => db[k].epoch \in Nat
  BY <1>k DEF TrackerTypeOK, EventsAreCurrent, Rows, Known, Never
<1>1. CASE Tick
  BY <1>1, <1>n DEF Tick, eventVars, historyVars, TrafficPending, InScript, Known
<1>2. CASE RestartAddon
  BY <1>2, <1>n, <1>b DEF RestartAddon, Known
<1>3. CASE StartDnsmasq \/ RestartDnsmasq
  <2>1. TrafficPending(k)' <=> TrafficPending(k)
    BY <1>3, <1>k, ReportLeasesTraffic DEF StartDnsmasq, RestartDnsmasq
  <2>2. UNCHANGED <<startEpoch, traffic, script, db, lost, leaked>>
    BY <1>3 DEF StartDnsmasq, RestartDnsmasq, ReportLeases, historyVars
  <2> QED BY <1>n, <2>1, <2>2 DEF InScript, Known
<1>4. ASSUME NEW m \in Macs, NEW kind \in Kinds, Report(m, kind)
      PROVE  Goal
  <2>1. traffic'[k] = IF k = m /\ IsTraffic(kind) THEN now ELSE traffic[k]
    BY <1>4, <1>k DEF Report, TrackerTypeOK
  <2>2. TrafficPending(k)' <=> TrafficPending(k) \/ (k = m /\ IsTraffic(kind))
    BY <1>4, <1>k, ReportTraffic
  <2>3. UNCHANGED <<startEpoch, script, db, lost, leaked>>
    BY <1>4 DEF Report, hostVars, historyVars
  <2> QED BY <1>n, <1>b, <2>1, <2>2, <2>3 DEF InScript, Known
<1>5. ASSUME NEW m \in Macs, RunScript(m)
      PROVE  Goal
  <2>1. UNCHANGED <<startEpoch, traffic, db, leaked>> /\ ~InScript(k)
    BY <1>5 DEF RunScript, hostVars, InScript
  <2>2. TrafficPending(k) => TrafficPending(k)' \/ InScript(k)' \/ k \in lost'
    BY <1>5, <1>k, RunScriptTraffic, RunScriptJob
       DEF RunScript, Ignored, IsTraffic
  <2>3. k \in lost => k \in lost'
    BY <1>5 DEF RunScript
  <2> QED BY <1>n, <2>1, <2>2, <2>3 DEF Known
<1>6. CASE Upsert
  <2>1. /\ script \in Jobs /\ script # None
        /\ UNCHANGED <<startEpoch, traffic>>
        /\ TrafficPending(k)' <=> TrafficPending(k)
    BY <1>6 DEF Upsert, TrackerTypeOK, hostVars, eventVars, TrafficPending
  <2>2. CASE k = script.mac
    <3>1. db'[k].epoch = startEpoch
      BY <1>6, <2>1, <2>2 DEF Upsert, Row, ScriptIsCurrent
    <3>2. IsTraffic(script.kind) => traffic[k] >= startEpoch
      BY <1>k, <2>1, <2>2 DEF EventsAreCurrent, InScript
    <3>3. script.kind # "startup" => IsTraffic(script.kind)
      BY <2>1 DEF Jobs, Kinds, IsTraffic
    <3>4. script.kind = "startup" => k \in leaked'
      BY <1>6, <2>2 DEF Upsert
    <3> QED BY <1>b, <2>1, <3>1, <3>2, <3>3, <3>4
  <2>3. CASE k # script.mac
    <3>1. /\ k \in Known /\ db'[k] = db[k] /\ ~InScript(k)
          /\ k \in lost' <=> k \in lost
          /\ k \in leaked' <=> k \in leaked
      BY <1>6, <2>1, <2>3 DEF Upsert, InScript, Known
    <3> QED BY <1>n, <2>1, <3>1
  <2> QED BY <2>2, <2>3
<1>7. CASE UpsertFails
  <2>1. /\ UNCHANGED <<startEpoch, traffic, db, leaked>>
        /\ TrafficPending(k)' <=> TrafficPending(k)
        /\ InScript(k) \/ k \in lost => k \in lost'
    BY <1>7 DEF UpsertFails, hostVars, eventVars, TrafficPending, InScript
  <2> QED BY <1>n, <2>1 DEF Known
<1>8. CASE PurgeStep \/ UNCHANGED vars
  <2>1. /\ UNCHANGED <<startEpoch, traffic, lost, leaked>>
        /\ TrafficPending(k)' <=> TrafficPending(k)
        /\ InScript(k)' <=> InScript(k)
    BY <1>8 DEF PurgeStep, PurgeSelect, PurgeDelete, PurgeFails, vars, hostVars,
                eventVars, historyVars, TrafficPending, InScript
  <2>2. k \in Known /\ db'[k] = db[k]
    BY <1>8 DEF PurgeStep, PurgeSelect, PurgeDelete, PurgeFails, vars, Known
  <2> QED BY <1>n, <2>1, <2>2
<1>9. ASSUME NEW m \in Macs, Lease(m) \/ Renew(m) \/ Expire(m)
      PROVE  \E kind \in Kinds : Report(m, kind)
  BY <1>9 DEF Lease, Renew, Expire, Kinds
<1> QED BY <1>1, <1>2, <1>3, <1>4, <1>5, <1>6, <1>7, <1>8, <1>9
        DEF Next, DnsmasqStep, ScriptStep

LEMMA TrafficStep ==
    IInv /\ [Next]_vars => TrafficIsKept'
<1> SUFFICES ASSUME IInv, [Next]_vars,
                    NEW k \in Macs, RecentByCutoff(k)', k \notin lost'
             PROVE  Recorded(k)'
  BY DEF TrafficIsKept
<1> USE DEF IInv
<1>t. /\ now \in Nat /\ traffic[k] \in Nat \cup {Never} /\ ForgetAfter \in Nat
      /\ TzOffset \in Int
      /\ k \in Known => db[k].seen \in Nat
  BY DEF TrackerTypeOK, Rows, Known
<1>r. RecentByCutoff(k) /\ k \notin lost => Recorded(k)
  BY DEF TrafficIsKept
<1>1. CASE Tick
  <2>1. RecentByCutoff(k)
    BY <1>1, <1>t DEF Tick, RecentByCutoff, Threshold, Never, eventVars
  <2> QED BY <1>1, <1>r, <2>1
          DEF Tick, eventVars, historyVars, Recorded, TrafficPending, InScript, Known
<1>2. CASE RestartAddon
  <2>1. RecentByCutoff(k)
    BY <1>2, <1>t DEF RestartAddon, RecentByCutoff, Threshold, Never
  <2>2. k \notin lost /\ ~TrafficPending(k) /\ ~InScript(k)
    BY <1>2 DEF RestartAddon
  <2> QED BY <1>2, <1>r, <2>1, <2>2 DEF RestartAddon, Recorded, Known
<1>3. CASE StartDnsmasq \/ RestartDnsmasq
  <2>1. TrafficPending(k)' <=> TrafficPending(k)
    BY <1>3, ReportLeasesTraffic DEF StartDnsmasq, RestartDnsmasq
  <2>2. UNCHANGED <<now, traffic, script, db, lost>>
    BY <1>3 DEF StartDnsmasq, RestartDnsmasq, ReportLeases, historyVars
  <2> QED BY <1>r, <2>1, <2>2 DEF RecentByCutoff, Threshold, Recorded, InScript, Known
<1>4. ASSUME NEW m \in Macs, NEW kind \in Kinds, Report(m, kind)
      PROVE  Recorded(k)'
  <2>1. TrafficPending(k)' <=> TrafficPending(k) \/ (k = m /\ IsTraffic(kind))
    BY <1>4, ReportTraffic
  <2>2. UNCHANGED <<now, script, db, lost>>
    BY <1>4 DEF Report, hostVars, historyVars
  <2>3. CASE k = m /\ IsTraffic(kind)
    BY <2>1, <2>3 DEF Recorded
  <2>4. CASE ~(k = m /\ IsTraffic(kind))
    <3>1. traffic'[k] = traffic[k]
      BY <1>4, <2>4 DEF Report, TrackerTypeOK
    <3> QED BY <1>r, <2>1, <2>2, <2>4, <3>1 DEF RecentByCutoff, Threshold, Recorded, InScript, Known
  <2> QED BY <2>3, <2>4
<1>5. ASSUME NEW m \in Macs, RunScript(m)
      PROVE  Recorded(k)'
  <2>1. UNCHANGED <<now, traffic, db>> /\ ~InScript(k) /\ k \notin lost
    BY <1>5 DEF RunScript, hostVars, InScript
  <2>2. TrafficPending(k) => TrafficPending(k)' \/ InScript(k)'
    BY <1>5, RunScriptTraffic, RunScriptJob DEF RunScript, Ignored, IsTraffic
  <2> QED BY <1>r, <2>1, <2>2 DEF RecentByCutoff, Threshold, Recorded, Known
<1>6. CASE Upsert
  <2>1. /\ script \in Jobs /\ script # None
        /\ UNCHANGED <<now, traffic>>
        /\ TrafficPending(k)' <=> TrafficPending(k)
    BY <1>6 DEF Upsert, TrackerTypeOK, hostVars, eventVars, TrafficPending
  <2>2. CASE k = script.mac
    <3>1. k \in Known' /\ db'[k].seen = script.seen
      BY <1>6, <2>2 DEF Upsert, Row, Known
    <3>2. script.seen >= traffic[k] \/ TrafficPending(k)
      BY <2>1, <2>2 DEF EventsAreCurrent, InScript
    <3> QED BY <2>1, <3>1, <3>2 DEF Recorded
  <2>3. CASE k # script.mac
    <3>1. /\ ~InScript(k) /\ k \notin lost
          /\ k \in Known => k \in Known' /\ db'[k] = db[k]
      BY <1>6, <2>1, <2>3 DEF Upsert, InScript, Known
    <3> QED BY <1>r, <2>1, <3>1 DEF RecentByCutoff, Threshold, Recorded
  <2> QED BY <2>2, <2>3
<1>7. CASE UpsertFails
  <2>1. /\ UNCHANGED <<now, traffic, db>>
        /\ TrafficPending(k)' <=> TrafficPending(k)
        /\ ~InScript(k) /\ k \notin lost
    BY <1>7 DEF UpsertFails, hostVars, eventVars, TrafficPending, InScript
  <2> QED BY <1>r, <2>1 DEF RecentByCutoff, Threshold, Recorded, Known
<1>8. CASE PurgeSelect \/ PurgeFails \/ UNCHANGED vars
  <2>1. /\ UNCHANGED <<now, traffic, db, lost>>
        /\ TrafficPending(k)' <=> TrafficPending(k)
        /\ InScript(k)' <=> InScript(k)
    BY <1>8 DEF PurgeSelect, PurgeFails, vars, hostVars, eventVars, historyVars,
                TrafficPending, InScript
  <2> QED BY <1>r, <2>1 DEF RecentByCutoff, Threshold, Recorded, Known
<1>9. CASE PurgeDelete
  <2>1. /\ UNCHANGED <<now, traffic, lost>>
        /\ TrafficPending(k)' <=> TrafficPending(k)
        /\ InScript(k)' <=> InScript(k)
    BY <1>9 DEF PurgeDelete, hostVars, eventVars, historyVars, TrafficPending, InScript
  <2>2. ASSUME k \in Known, db[k].seen >= traffic[k]
        PROVE  k \in Known' /\ db'[k] = db[k]
    <3>1. purge \in Purges /\ ForgetAfter > 0
          /\ purge.threshold <= now - ForgetAfter + TzOffset
      BY <1>9 DEF PurgeDelete, PurgeIsOld, TrackerTypeOK
    <3>2. traffic[k] \in Nat /\ traffic[k] >= now - ForgetAfter + TzOffset
      BY <2>1, <3>1, <1>t DEF RecentByCutoff, Threshold
    <3>3. ~(db[k].seen < purge.threshold)
      BY <1>t, <2>2, <3>1, <3>2 DEF Purges
    <3> QED BY <1>9, <2>2, <3>3 DEF PurgeDelete, OldClients, Known
  <2> QED BY <1>r, <2>1, <2>2 DEF RecentByCutoff, Threshold, Recorded
<1>10. ASSUME NEW m \in Macs, Lease(m) \/ Renew(m) \/ Expire(m)
       PROVE  \E kind \in Kinds : Report(m, kind)
  BY <1>10 DEF Lease, Renew, Expire, Kinds
<1> QED BY <1>1, <1>2, <1>3, <1>4, <1>5, <1>6, <1>7, <1>8, <1>9, <1>10
        DEF Next, DnsmasqStep, ScriptStep, PurgeStep

-----------------------------------------------------------------------------
(* The theorems.                                                           *)

\* The bookkeeping above holds throughout.
LEMMA TrackerInvariant == Spec => []IInv
<1>1. IInv /\ [Next]_vars => IInv'
  BY TypeStep, EventsStep, ScriptIsCurrentStep, RowsStep, PurgeIsOldStep, TrafficStep
     DEF IInv
<1> QED BY <1>1, IInvInit, PTL DEF Spec

\* Whatever events, purges, failures and restarts occur, all state stays within
\* its types and no row is dated in the future.
THEOREM TrackerTypeCorrect == Spec => []TrackerTypeOK
<1>1. IInv => TrackerTypeOK
  BY DEF IInv
<1> QED BY <1>1, TrackerInvariant, PTL

\* For any number of clients and any time zone, the notes of past clients are
\* true but for the leases that passed for traffic.
THEOREM NotesCorrect == Spec => []NotesAreTrue
<1>1. IInv => NotesAreTrue
  BY DEF IInv, RowsAreTrue, NotesAreTrue, GetDeadDhcpClients
<1> QED BY <1>1, TrackerInvariant, PTL

\* In any time zone the purge and the script's upserts, however they
\* interleave, lose no client that the script recorded and that is recent as
\* far as the purge's cutoff goes: the error is never more than the offset of
\* local time (trackerdb.go:196).
THEOREM TrafficKept == Spec => []TrafficIsKept
<1>1. IInv => TrafficIsKept
  BY DEF IInv
<1> QED BY <1>1, TrackerInvariant, PTL

\* Where local time is UTC or behind it, that is every client seen within
\* ForgetAfter.
THEOREM RecentTrafficRecorded ==
    ASSUME TzOffset <= 0 PROVE Spec => []TrafficIsRecorded
<1>1. IInv => TrafficIsRecorded
  <2> SUFFICES ASSUME IInv, NEW m \in Macs, Recent(m)
               PROVE  RecentByCutoff(m)
    BY DEF IInv, TrafficIsRecorded, TrafficIsKept
  <2>1. /\ now \in Nat /\ traffic[m] \in Nat \cup {Never} /\ ForgetAfter \in Nat
        /\ TzOffset \in Int
    BY DEF IInv, TrackerTypeOK
  <2> QED BY <2>1 DEF Recent, RecentByCutoff, Threshold
<1> QED BY <1>1, TrackerInvariant, PTL

\* In any time zone the purge removes only clients that have not been seen for
\* longer than ForgetAfter less the offset of local time, also when they come
\* back between its SELECT and DELETE.
THEOREM PurgesByCutoff ==
    Spec => [][\A m \in Known : m \notin DOMAIN db' => db[m].seen < Threshold]_vars
<1>1. IInv /\ [Next]_vars =>
        [\A m \in Known : m \notin DOMAIN db' => db[m].seen < Threshold]_vars
  <2> SUFFICES ASSUME IInv, [Next]_vars, NEW m \in Known, m \notin DOMAIN db'
               PROVE  db[m].seen < Threshold
    OBVIOUS
  <2>1. PurgeDelete
    BY DEF Next, DnsmasqStep, ScriptStep, PurgeStep, Tick, RestartAddon, StartDnsmasq,
           RestartDnsmasq, ReportLeases, Lease, Renew, Expire, Report, RunScript,
           Upsert, UpsertFails, PurgeSelect, PurgeFails, vars, Known
  <2>2. /\ purge \in Purges /\ Threshold \in Int /\ db[m].seen \in Nat
        /\ purge.threshold <= Threshold
    BY <2>1 DEF IInv, PurgeDelete, PurgeIsOld, TrackerTypeOK, Rows, Known, Threshold
  <2>3. db[m].seen < purge.threshold
    BY <2>1 DEF PurgeDelete, OldClients, Known
  <2> QED BY <2>2, <2>3 DEF Purges
<1> QED BY <1>1, TrackerInvariant, PTL DEF Spec

\* Where local time is UTC or behind it, only clients not seen for longer than
\* ForgetAfter are removed.
THEOREM PurgesOnlyOld ==
    ASSUME TzOffset <= 0 PROVE Spec => PurgeOnlyOld
<1> DEFINE Purged == \A m \in Known : m \notin DOMAIN db' => db[m].seen < Threshold
           Old    == \A m \in Known :
                       m \notin DOMAIN db' => now - db[m].seen > ForgetAfter
<1>1. ASSUME IInv, Purged PROVE Old
  <2> SUFFICES ASSUME NEW m \in Known, db[m].seen < Threshold
               PROVE  now - db[m].seen > ForgetAfter
    BY <1>1
  <2>1. now \in Nat /\ ForgetAfter \in Nat /\ TzOffset \in Int /\ db[m].seen \in Nat
    BY <1>1 DEF IInv, TrackerTypeOK, Rows, Known
  <2> QED BY <2>1 DEF Threshold
<1>2. IInv /\ [Purged]_vars => [Old]_vars
  BY <1>1
<1> QED BY <1>2, TrackerInvariant, PurgesByCutoff, PTL DEF PurgeOnlyOld
=============================================================================
