-------------------------- MODULE MCDnsmasqWrapper --------------------------
(***************************************************************************)
(* Both parts of DnsmasqWrapper for TLC: the goroutine that tails the log  *)
(* and a call of GetDnsStats.  They share nothing (the counters of the one *)
(* and the statistics of the other), so each runs with the other at rest.  *)
(***************************************************************************)
EXTENDS LogTail, DnsStats

CONSTANT Word   \* a field that is not a number

MCInit == Init /\ StatsInit

TailLog == call = "idle" /\ Next /\ UNCHANGED statsVars
AskStats == call # "idle" /\ StatsNext /\ UNCHANGED vars

MCSpec ==
    /\ MCInit
    /\ [][TailLog \/ AskStats]_<<vars, statsVars>>
    /\ WF_vars(TailStep /\ call = "idle")

Reply(answer) == [success |-> TRUE, answer |-> answer]
Txt(strings) == [type |-> "TXT", txt |-> strings]
Refused == [success |-> FALSE, answer |-> <<>>]

MCFields == Numbers \cup {Word}

\* A number after a record that is not TXT, one that is not, an empty answer.
MCCounterReplies ==
    {NoReply, Refused, Reply(<<>>), Reply(<<Txt(<<<<Word>>>>)>>),
     Reply(<<[type |-> "other", txt |-> <<>>], Txt(<<<<7>>>>)>>)}

\* Two rows; rows around one of another shape; rows around one without numbers.
MCServersReplies ==
    {NoReply, Refused, Reply(<<>>),
     Reply(<<Txt(<<<<Word, 7, 0>>, <<Word, 0, 0>>>>)>>),
     Reply(<<Txt(<<<<Word, 7, 0>>, <<Word>>, <<Word, 0, 7>>>>)>>),
     Reply(<<Txt(<<<<Word, 7, 0>>, <<Word, 7, Word>>, <<Word, 0, 7>>>>)>>)}
=============================================================================
