---------------------------- MODULE MCWeeklyTasks ----------------------------
(* Small instances of WeeklyTasks. *)
EXTENDS WeeklyTasks

Event(log) == [log_type |-> "windows_event", log |-> log]
Login(who) == [log_type |-> "syslog", log |-> <<"tag", "sp", "sess", "sp", who>>]

Plain == Event(<<"k1", "eq", "no">>)
Name == Event(<<"k1", "eq", "nm">>)

\* No hit, a hit in half of the entries, a hit in all of them, too few; the
\* events of one system and the logins of another.
SmallWindows ==
    {FieldStats(w, {<<"windows_event", "k1">>, <<"syslog", "user">>}) :
        w \in {<<Plain, Plain, Login("wd"), Login("wd")>>,
               <<Plain, Name, Login("fu"), Login("wd")>>,
               <<Name, Name, Login("fu"), Login("fu")>>,
               <<Name>>}}

=============================================================================
