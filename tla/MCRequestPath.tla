---------------------------- MODULE MCRequestPath ----------------------------
(* Small instances of RequestPath: lines of up to three segments. *)
EXTENDS RequestPath

\* A field with an address, a name, a number, a secret or nothing; loose
\* names, addresses and usernames; e-mail addresses, with a longer host and
\* with a number or an address before the @.
Segments == {
    <<"k1", "eq", "ip">>, <<"k1", "eq", "nm">>,
    <<"k2", "eq", "nm">>, <<"k2", "eq", "no">>, <<"k2", "eq", "he">>, <<"k2", "eq">>,
    <<"nm">>, <<"ip">>, <<"fu", "at", "wd", "lab">>, <<"k2", "eq", "fu">>}

Heads == Segments \cup {
    <<"nm", "sp", "ip", "sp", "nm">>, <<"ss", "at", "wd">>, <<"ip", "at", "wd">>,
    <<"k1", "eq", "wd", "at", "wd", "lab">>, <<"k1", "eq", "ss", "at", "wd", "lab">>}

Join(a, b) == a \o <<"sp">> \o b
Lines2 == {Join(a, b) : a \in Heads, b \in Segments}
Lines == Heads \cup Lines2 \cup {Join(l, s) : l \in Lines2, s \in Segments}

Messages == {
    <<"auth", "sp", "nm", "sp", "ip">>, <<"auth", "sp", "fu", "sp", "ip">>,
    <<"sess", "sp", "nm">>, <<"dhcp", "sp", "ip", "sp", "nm">>}
SyslogLines == {Join(<<"tag">>, l) : l \in Heads \cup Lines2 \cup Messages}

NoTrust == <<>>
In(logType, types) == (logType :> types) @@ ("_comment" :> <<>>)
Windows(types) == In("windows_event", types)
Syslog(types) == In("syslog", types)
KeyLines == {l \in Lines : l[1] = "k1" /\ (Len(l) <= 7 \/ \E i \in 5 .. Len(l) : l[i] = "k1")}

SmallRequests ==
    [line : Lines, logType : {"windows_event"}, file : {NoTrust, Windows([k1 |-> "ip"])}]
    \cup [line : KeyLines, logType : {"windows_event"},
          file : {Windows([k1 |-> "PERSON", k2 |-> "ip"])}]
    \cup [line : Heads, logType : {"none"}, file : {NoTrust, Windows([k1 |-> "IP"])}]
    \cup [line : Heads, logType : {"windows_event"},
          file : {Windows([k1 |-> "USERNAME"]), In("cloudtrail", [k1 |-> "IP"]),
                  Syslog([k1 |-> "IP"])}]
    \cup [line : SyslogLines, logType : {"syslog"},
          file : {NoTrust, Syslog([user |-> "person"]), Syslog([k1 |-> "IP", k2 |-> "PERSON"])}]

=============================================================================
