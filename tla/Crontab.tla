------------------------------- MODULE Crontab ------------------------------
(***************************************************************************)
(* The crontab of a session: what installs it (native/crontab.go), what    *)
(* reads it (pkg/cron/cron.go) and what runs its jobs when they are due    *)
(* (StartScheduler and runSessionCronJobs of internal/session/cron.go).    *)
(* The job itself, under ExecMu, is in SessionServer.                      *)
(*                                                                         *)
(* Of an expression only the day of the week is kept, the one field the    *)
(* code touches; the calendar is shortened so that each minute is a day.   *)
(* robfig/cron, which parses and matches a field, is external.             *)
(***************************************************************************)
EXTENDS Integers, Sequences

CONSTANTS
    Tabs,           \* the texts that users write: sequences of lines
    Today,          \* the day when the server starts
    MaxTime,        \* bound: minutes
    QuotaFull       \* BOOLEAN: a write to the filesystem may fail

VARIABLES
    now,            \* minutes since the start
    tick,           \* the channel of the ticker: a minute, or 0
    tab,            \* /.crontab: Absent or its lines
    installing,     \* what a crontab command is about to write, or Absent
    sweeps,         \* the goroutines of runSessionCronJobs, in the order they began
    direct          \* history: something but crontab has written /.crontab

vars == <<now, tick, tab, installing, sweeps, direct>>

(* No file, which is not the empty file.                                  *)
Absent == <<[kind |-> "absent", dow |-> <<>>, command |-> ""]>>

-----------------------------------------------------------------------------
(* A line: nothing or a comment; @keyword command; five fields and a       *)
(* command.  A part of a list of days is a day, a range or a star.         *)
Day(d) == [lo |-> d, hi |-> d]

(* Only a part that is 7 becomes 0.                                        *)
(* Mutant: only a field that is 7.                                         *)
normalizeDow_Whole(parts) == IF parts = <<Day(7)>> THEN <<Day(0)>> ELSE parts
normalizeDow(parts) == [i \in DOMAIN parts |-> IF parts[i] = Day(7) THEN Day(0) ELSE parts[i]]

(* robfig: a part lies within 0..6 and does not run backwards.             *)
Parses(parts)     == \A i \in DOMAIN parts : parts[i].lo <= parts[i].hi /\ parts[i].hi <= 6
Matches(parts, d) == \E i \in DOMAIN parts : d \in parts[i].lo..parts[i].hi

(* Next, from a nanosecond before the minute, is this minute.              *)
CronMatches(job, t) == Matches(job.dow, (Today + t) % 7)

(* Every line that counts needs a command and an expression that parses:   *)
(* one that does not spoils the whole file.                                *)
Counts(line) == line.kind # "comment"
ParsesLine(line) ==
    /\ line.kind \in {"fields", "@daily"}
    /\ line.command # ""
    /\ Parses(normalizeDow(line.dow))
Valid(lines) == \A i \in DOMAIN lines : Counts(lines[i]) => ParsesLine(lines[i])

(* The elements of s at the positions in K, in their order.                *)
Chosen(s, K) ==
    LET upto[i \in 0..Len(s)] ==
            IF i = 0 THEN <<>> ELSE IF i \in K THEN Append(upto[i - 1], s[i]) ELSE upto[i - 1]
    IN upto[Len(s)]

ParseCrontab(lines) ==
    LET jobs == Chosen(lines, {i \in DOMAIN lines : Counts(lines[i])})
    IN [i \in DOMAIN jobs |-> [jobs[i] EXCEPT !.dow = normalizeDow(@)]]

-----------------------------------------------------------------------------
(* crontab FILE, or from its input: validated, then the file is truncated  *)
(* and written, in two calls.                                              *)
(* Mutant: it is validated by whoever reads it.                            *)
Install_Unchecked(lines) ==
    /\ installing = Absent
    /\ tab' = <<>> /\ installing' = lines
    /\ UNCHANGED <<now, tick, sweeps, direct>>
Install(lines) ==
    /\ installing = Absent /\ Valid(lines)
    /\ tab' = <<>> /\ installing' = lines
    /\ UNCHANGED <<now, tick, sweeps, direct>>

Installed ==
    /\ installing # Absent
    /\ \/ tab' = installing
       \/ QuotaFull /\ tab' = <<>>
    /\ installing' = Absent
    /\ UNCHANGED <<now, tick, sweeps, direct>>

(* crontab -r.                                                             *)
Remove ==
    /\ tab # Absent /\ installing = Absent
    /\ tab' = Absent
    /\ UNCHANGED <<now, tick, installing, sweeps, direct>>

(* A redirection into /.crontab, which validates nothing.                  *)
Overwrite(lines) ==
    /\ installing = Absent
    /\ tab' = lines /\ direct' = TRUE
    /\ UNCHANGED <<now, tick, installing, sweeps>>

-----------------------------------------------------------------------------
(* The first tick comes a minute after the boundary that the scheduler     *)
(* waited for.  A tick that finds another in the channel is dropped.       *)
Minute ==
    /\ now < MaxTime
    /\ now' = now + 1
    /\ tick' = IF tick = 0 THEN now' ELSE tick
    /\ UNCHANGED <<tab, installing, sweeps, direct>>

(* The goroutines get the time of the tick, however late the loop is.      *)
Sweep ==
    /\ tick # 0
    /\ sweeps' = Append(sweeps, [step |-> "unread", minute |-> tick, todo |-> <<>>, ran |-> <<>>, seen |-> <<>>])
    /\ tick' = 0
    /\ UNCHANGED <<now, tab, installing, direct>>

(* The file is read when the goroutine comes to it.  A file that does not  *)
(* parse has no jobs.                                                      *)
Due(lines, m) ==
    LET jobs == ParseCrontab(lines) IN Chosen(jobs, {i \in DOMAIN jobs : CronMatches(jobs[i], m)})
Read(i) ==
    /\ sweeps[i].step = "unread"
    /\ sweeps' = [sweeps EXCEPT ![i] =
            [@ EXCEPT !.step = "read",
                      !.seen = IF tab = Absent THEN <<>> ELSE tab,
                      !.todo = IF tab # Absent /\ Valid(tab) THEN Due(tab, sweeps[i].minute) ELSE <<>>]]
    /\ UNCHANGED <<now, tick, tab, installing, direct>>

(* One job after the other; each may write /.crontab itself.               *)
RunJob(i) ==
    /\ sweeps[i].step = "read" /\ sweeps[i].todo # <<>>
    /\ sweeps' = [sweeps EXCEPT ![i].todo = Tail(@), ![i].ran = Append(@, Head(sweeps[i].todo).command)]
    /\ UNCHANGED <<now, tick, tab, installing, direct>>

-----------------------------------------------------------------------------
Init ==
    /\ now = 0 /\ tick = 0
    /\ tab = Absent /\ installing = Absent
    /\ sweeps = <<>> /\ direct = FALSE

Loop == Sweep \/ \E i \in DOMAIN sweeps : Read(i) \/ RunJob(i)

Next ==
    \/ \E lines \in Tabs : Install(lines) \/ Overwrite(lines)
    \/ Installed \/ Remove \/ Minute \/ Loop

Spec == Init /\ [][Next]_vars

-----------------------------------------------------------------------------
(* A sweep that has come to its end has run the jobs of the file it read   *)
(* that are due on the day of its minute, each once and in their order,    *)
(* where 7 is a Sunday as 0 is (cron.go 43-46), whatever minute it is by   *)
(* then; a file with a bad line has none.                                  *)
OnDay(line, d)  == \E i \in DOMAIN line.dow : \E x \in line.dow[i].lo..line.dow[i].hi : x % 7 = d
IsDay(part)     == (part.lo <= part.hi /\ part.hi <= 6) \/ part = Day(7)
IsJob(line)     == line.kind \in {"fields", "@daily"} /\ line.command # "" /\ \A i \in DOMAIN line.dow : IsDay(line.dow[i])
CommandsOf(lines) == [i \in DOMAIN lines |-> lines[i].command]
DueJobsRan ==
    \A i \in DOMAIN sweeps : sweeps[i].step = "read" /\ sweeps[i].todo = <<>> =>
        sweeps[i].ran =
            IF \A k \in DOMAIN sweeps[i].seen : Counts(sweeps[i].seen[k]) => IsJob(sweeps[i].seen[k])
            THEN CommandsOf(Chosen(sweeps[i].seen, {k \in DOMAIN sweeps[i].seen :
                    Counts(sweeps[i].seen[k]) /\ OnDay(sweeps[i].seen[k], (Today + sweeps[i].minute) % 7)}))
            ELSE <<>>

(* As long as crontab alone writes the file, no sweep finds one that it    *)
(* cannot read, also while a new one is being installed or fails to be: a  *)
(* wrong line does not stop the jobs there are.                            *)
NeverSpoiled ==
    ~direct => \A i \in DOMAIN sweeps : \A k \in DOMAIN sweeps[i].seen :
        Counts(sweeps[i].seen[k]) => IsJob(sweeps[i].seen[k])

(* The jobs of a crontab are run, and none is spoiled by another file.     *)
JobsRun == DueJobsRan /\ NeverSpoiled
=============================================================================
