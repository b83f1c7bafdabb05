------------------------------ MODULE DnsStats ------------------------------
(***************************************************************************)
(* GetDnsStats (backend/pkg/dnsmasqwrapper): six questions in sequence to  *)
(* the DNS server of the add-on, which may be up, down, restarting or slow *)
(* at each of them.                                                        *)
(*                                                                         *)
(* A string of a TXT record is the sequence of its fields, as              *)
(* strings.Fields splits it; a field is a number or it is not.             *)
(***************************************************************************)
EXTENDS Integers, Sequences, FiniteSetsExt, SequencesExt

CONSTANTS
    Fields,         \* what the strings consist of
    Numbers,        \* the numbers among the fields
    NoReply,        \* the exchange fails or takes longer than dnsTimeout
    CounterReplies, \* what the server may say to the first five questions
    ServersReplies  \* and to servers.bind

\* The answers of the server, of whose records only TXT has strings.
Records == [type : {"TXT", "other"}, txt : Seq(Seq(Fields))]
Replies == [success : BOOLEAN, answer : Seq(Records)]

ASSUME StatsAssumption ==
    /\ Numbers \subseteq Int \cap Fields
    /\ NoReply \notin Replies
    /\ CounterReplies \cup ServersReplies \subseteq Replies \cup {NoReply}

VARIABLES
    call,           \* where GetDnsStats is
    replies,        \* history: what the server said
    ret,            \* the statistics so far
    lastErr         \* whether an error is to be returned

statsVars == <<call, replies, ret, lastErr>>

Counters == <<"cachesize", "insertions", "evictions", "misses", "hits">>

StatsInit ==
    /\ call \in {"idle", "asking"}
    /\ replies = <<>>
    /\ ret = [counters |-> <<>>, upstreams |-> <<>>]
    /\ lastErr = FALSE

-----------------------------------------------------------------------------
Error == [err |-> TRUE, val |-> <<>>]
Value(val) == [err |-> FALSE, val |-> val]

\* The strings of the first TXT record, none if there is no such record.
chaosTXTQuery(reply) ==
    IF reply = NoReply \/ ~reply.success THEN Error
    ELSE LET txts == {i \in DOMAIN reply.answer : reply.answer[i].type = "TXT"}
         IN  Value(IF txts = {} THEN <<>> ELSE reply.answer[Min(txts)].txt)

\* fmt.Sscan reads the first field.  Any number of strings but one is taken
\* for a zero, without an error.
chaosTXTQueryInteger(reply) ==
    LET strVal == chaosTXTQuery(reply)
    IN  CASE strVal.err -> [err |-> TRUE, val |-> 0]
          [] ~strVal.err /\ Len(strVal.val) # 1 -> [err |-> FALSE, val |-> 0]
          [] OTHER -> IF strVal.val[1] # <<>> /\ strVal.val[1][1] \in Numbers
                      THEN [err |-> FALSE, val |-> strVal.val[1][1]]
                      ELSE [err |-> TRUE, val |-> 0]

\* Faulty variant: the error of the last question is returned.
KeepOnly(err) == lastErr' = err

Keep(err) == lastErr' = (lastErr \/ err)

\* Faulty variant: an error ends the call.
AskAndReturn(reply) ==
    LET stat == chaosTXTQueryInteger(reply)
    IN  /\ ret' = [ret EXCEPT !.counters = Append(@, stat.val)]
        /\ Keep(stat.err)
        /\ call' = IF stat.err THEN "done" ELSE "asking"

Ask(reply) ==
    LET stat == chaosTXTQueryInteger(reply)
    IN  /\ ret' = [ret EXCEPT !.counters = Append(@, stat.val)]
        /\ Keep(stat.err)
        /\ UNCHANGED call

AskCounter ==
    /\ call = "asking"
    /\ Len(replies) < Len(Counters)
    /\ \E reply \in CounterReplies :
        /\ replies' = Append(replies, reply)
        /\ Ask(reply)

\* A row of servers.bind has three fields, others are skipped; one with a field
\* that should be a number and is not ends the call.
IsRow(string) == Len(string) = 3
Malformed(string) == IsRow(string) /\ {string[2], string[3]} \ Numbers # {}

\* The rows by their position among the strings.
Rows(strings) ==
    [i \in {i \in DOMAIN strings : IsRow(strings[i])} |-> strings[i]]

AskServers ==
    /\ call = "asking"
    /\ Len(replies) = Len(Counters)
    /\ \E reply \in ServersReplies :
        LET strings == chaosTXTQuery(reply)
            bad == {i \in DOMAIN strings.val : Malformed(strings.val[i])}
            read == IF bad = {} THEN strings.val
                                ELSE SubSeq(strings.val, 1, Min(bad) - 1)
        IN  /\ replies' = Append(replies, reply)
            /\ ret' = [ret EXCEPT !.upstreams = Rows(read)]
            /\ Keep(strings.err \/ bad # {})
    /\ call' = "done"

StatsNext == AskCounter \/ AskServers

StatsSpec == StatsInit /\ [][StatsNext]_statsVars

-----------------------------------------------------------------------------
(* What the statistics promise.                                            *)

Good(reply) == reply # NoReply /\ reply.success

\* The strings of the first TXT record, if there is one.
FirstTxt(reply) ==
    {reply.answer[i].txt : i \in {i \in DOMAIN reply.answer :
        /\ reply.answer[i].type = "TXT"
        /\ \A j \in 1 .. i - 1 : reply.answer[j].type # "TXT"}}

\* A question that fails costs its own figure and no other: after any pattern
\* of failures, a restart of dnsmasq between two questions included, all six
\* were asked, every other counter is what the server said, and the rows of
\* the upstream servers are those it sent before the first unreadable one.
FailuresAreLocal ==
    call = "done" =>
        /\ Len(replies) = Len(Counters) + 1
        /\ \A i \in DOMAIN Counters :
            LET sent == {n \in Numbers : Good(replies[i]) /\
                            \E txt \in FirstTxt(replies[i]) :
                                Len(txt) = 1 /\ txt[1] # <<>> /\ txt[1][1] = n}
            IN  ret.counters[i] \in IF sent = {} THEN {0} ELSE sent
        /\ LET servers == replies[Len(replies)]
           IN  IF Good(servers) /\ FirstTxt(servers) # {}
               THEN \A txt \in FirstTxt(servers) : \E k \in 0 .. Len(txt) :
                        /\ k < Len(txt) => Malformed(txt[k + 1])
                        /\ \A i \in 1 .. k : ~Malformed(txt[i])
                        /\ ret.upstreams = Rows(SubSeq(txt, 1, k))
               ELSE ret.upstreams = <<>>

\* The caller learns of a failure wherever it was in the sequence: without an
\* error every exchange succeeded.
FailuresAreReported ==
    call = "done" /\ ~lastErr => \A i \in DOMAIN replies : Good(replies[i])
=============================================================================
