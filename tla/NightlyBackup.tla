--------------------------- MODULE NightlyBackup ---------------------------
(***************************************************************************)
(* deploy/scripts/backup-postgres.sh and its line in deploy/crontab: dump, *)
(* verify, upload, read back, prune what is too old, and tell the alerts.  *)
(*                                                                         *)
(* Cron starts one run a night; an operator may start another by hand at   *)
(* any time, also while one is under way.  Any call may fail, the machine  *)
(* may stop a run at any step, and midnight may pass within one.           *)
(***************************************************************************)
EXTENDS Naturals, FiniteSets

CONSTANTS
    Nightly,        \* runs that cron starts, one after the other
    ByHand,         \* runs an operator starts
    RetentionDays,  \* BACKUP_RETENTION_DAYS
    Faults,         \* what else than a whole dump a pg_dump that ends well may leave in the file
    LastDay,        \* bound: days
    MaxRuns         \* bound: runs started

ASSUME NightlyBackupAssumption ==
    /\ RetentionDays \in Nat /\ LastDay \in Nat /\ MaxRuns \in Nat \ {0}
    /\ Nightly \cap ByHand = {}
    /\ Faults \subseteq {"tiny", "unreadable", "foreign", "cut"}

Runs == Nightly \cup ByHand

VARIABLES
    day,         \* the UTC date
    pc,          \* where each run is
    dump,        \* each run's local dump: its stamp, and what is in it
    problem,     \* each run's PROBLEM flag
    doomed,      \* the dumps each run's prune has yet to delete
    blobs,       \* the container: the dumps stored, all of their bytes or not
    heartbeats,  \* stamps of the runs whose heartbeat was published
    failures,    \* stamps of the runs that tried to publish the failure metric
    ended,       \* history: the runs that came to their end, not stopped by the machine: their
                 \* stamps, and whether the exit trap was set
    started      \* how many runs have started

vars == <<day, pc, dump, problem, doomed, blobs, heartbeats, failures, ended, started>>

\* A dump that is cut has its header and table of contents, and not all of the data.
Contents == {"whole", "tiny", "unreadable", "foreign", "cut"}
Stamp == [day: 0 .. LastDay, serial: 1 .. MaxRuns]
Dump == [stamp: Stamp, contents: Contents]
Blob == [stamp: Stamp, whole: BOOLEAN, sound: BOOLEAN]
Ending == [stamp: Stamp, trapped: BOOLEAN]
NoDump == [stamp |-> [day |-> 0, serial |-> 1], contents |-> "whole"]

Init ==
    /\ day = 0 /\ started = 0
    /\ pc = [r \in Runs |-> "off"]
    /\ dump = [r \in Runs |-> NoDump]
    /\ problem = [r \in Runs |-> FALSE]
    /\ doomed = [r \in Runs |-> {}]
    /\ blobs = {} /\ heartbeats = {} /\ failures = {} /\ ended = {}

At(r, step) == pc[r] = step
Steps == {"off", "prepare", "dump", "verify", "upload", "readback", "metric", "prune", "delete", "exit1",
          "exit0", "heartbeat"}
GoTo(r, step) == pc' = [pc EXCEPT ![r] = step]
\* The process is gone, its temporary directory and its variables with it.
Gone(r) ==
    /\ GoTo(r, "off")
    /\ dump' = [dump EXCEPT ![r] = NoDump]
    /\ problem' = [problem EXCEPT ![r] = FALSE]
    /\ doomed' = [doomed EXCEPT ![r] = {}]
Fail(r) == problem' = [problem EXCEPT ![r] = TRUE]
ExitStatus(r) == IF At(r, "exit1") THEN 1 ELSE 0

(***************************************************************************)
(* One run, step by step.  What the script sets up, the account, the token *)
(* and the dump's own exit status come before anything is stored: each may *)
(* end the run, and before the exit trap is set nobody hears of it.        *)
(***************************************************************************)
Start(r) ==
    /\ At(r, "off") /\ started < MaxRuns
    /\ started' = started + 1
    /\ dump' = [dump EXCEPT ![r] = [NoDump EXCEPT !.stamp = [day |-> day, serial |-> started + 1]]]
    /\ GoTo(r, "prepare")
    /\ UNCHANGED <<day, problem, doomed, blobs, heartbeats, failures, ended>>

End(r, trapped) == ended' = ended \cup {[stamp |-> dump[r].stamp, trapped |-> trapped]}

\* The library, the directories and the temporary directory; then the trap is set.
Prepare(r) ==
    /\ At(r, "prepare")
    /\ \/ GoTo(r, "dump") /\ UNCHANGED <<dump, problem, doomed, ended>>
       \/ Gone(r) /\ End(r, FALSE)
    /\ UNCHANGED <<day, blobs, heartbeats, failures, started>>

\* A missing account or token reports the problem; a pg_dump that fails just ends the run.
DumpDatabase(r) ==
    /\ At(r, "dump")
    /\ \/ \E contents \in Faults \cup {"whole"} : dump' = [dump EXCEPT ![r].contents = contents]
          /\ GoTo(r, "verify") /\ UNCHANGED problem
       \/ GoTo(r, "exit1") /\ problem' \in {problem, [problem EXCEPT ![r] = TRUE]} /\ UNCHANGED dump
    /\ UNCHANGED <<day, doomed, blobs, heartbeats, failures, ended, started>>

\* Size, table of contents and required tables: each stops a kind of dump nobody could restore, and
\* none looks at the data.
Verify(r) ==
    /\ At(r, "verify")
    /\ IF dump[r].contents \in {"whole", "cut"}
       THEN GoTo(r, "upload") /\ UNCHANGED problem
       ELSE GoTo(r, "exit1") /\ Fail(r)
    /\ UNCHANGED <<day, dump, doomed, blobs, heartbeats, failures, ended, started>>

Stored(r, whole) ==
    [stamp |-> dump[r].stamp, whole |-> whole, sound |-> dump[r].contents = "whole"]

\* A PUT that fails may have stored nothing or something; one that succeeds, all of it or less.
Upload(r) ==
    /\ At(r, "upload")
    /\ \E stored \in {{}, {Stored(r, FALSE)}, {Stored(r, TRUE)}} :
          /\ blobs' = blobs \cup stored
          /\ \/ stored # {} /\ GoTo(r, "readback") /\ UNCHANGED problem
             \/ GoTo(r, "exit1") /\ Fail(r)
    /\ UNCHANGED <<day, dump, doomed, heartbeats, failures, ended, started>>

\* Bug: the answer to the PUT is trusted.
TrustUpload(r) ==
    /\ At(r, "readback")
    /\ GoTo(r, "metric")
    /\ UNCHANGED <<day, dump, problem, doomed, blobs, heartbeats, failures, ended, started>>

ReadBack(r) ==
    /\ At(r, "readback")
    /\ \/ Stored(r, TRUE) \in blobs /\ GoTo(r, "metric") /\ UNCHANGED problem
       \/ GoTo(r, "exit1") /\ Fail(r)
    /\ UNCHANGED <<day, dump, doomed, blobs, heartbeats, failures, ended, started>>

PublishSize(r) ==
    /\ At(r, "metric")
    /\ GoTo(r, "prune")
    /\ UNCHANGED problem \/ Fail(r)
    /\ UNCHANGED <<day, dump, doomed, blobs, heartbeats, failures, ended, started>>

\* The cutoff is worked out from the clock now, not from the stamp of the run.
Expired(listing) == {b \in listing : b.stamp.day + RetentionDays < day}

\* A container that cannot be listed is left as it is.
ListExpired(r) ==
    /\ At(r, "prune")
    /\ \/ doomed' = [doomed EXCEPT ![r] = Expired(blobs)] /\ GoTo(r, "delete") /\ UNCHANGED problem
       \/ GoTo(r, "exit0") /\ Fail(r) /\ UNCHANGED doomed
    /\ UNCHANGED <<day, dump, blobs, heartbeats, failures, ended, started>>

\* Bug: a delete that fails ends the run, with dumps left to delete.
DeleteOrExit(r) ==
    /\ At(r, "delete")
    /\ \/ \E b \in doomed[r] :
             \/ b \in blobs /\ doomed' = [doomed EXCEPT ![r] = @ \ {b}] /\ blobs' = blobs \ {b}
                /\ UNCHANGED <<pc, problem>>
             \/ Fail(r) /\ GoTo(r, "exit0") /\ UNCHANGED <<doomed, blobs>>
       \/ doomed[r] = {} /\ GoTo(r, "exit0") /\ UNCHANGED <<doomed, blobs, problem>>
    /\ UNCHANGED <<day, dump, heartbeats, failures, ended, started>>

\* A delete that fails, also because another run deleted the dump first, does not stop the others.
DeleteNext(r) ==
    /\ At(r, "delete")
    /\ \/ \E b \in doomed[r] :
             /\ doomed' = [doomed EXCEPT ![r] = @ \ {b}]
             /\ \/ b \in blobs /\ blobs' = blobs \ {b} /\ UNCHANGED problem
                \/ Fail(r) /\ UNCHANGED blobs
             /\ UNCHANGED pc
       \/ doomed[r] = {} /\ GoTo(r, "exit0") /\ UNCHANGED <<doomed, blobs, problem>>
    /\ UNCHANGED <<day, dump, heartbeats, failures, ended, started>>

\* Cron's && goes on to the heartbeat by the exit status alone.
Finish(r) ==
    IF ExitStatus(r) = 0 /\ r \in Nightly
    THEN GoTo(r, "heartbeat") /\ UNCHANGED <<dump, problem, doomed>>
    ELSE Gone(r)

\* Bug: only a run that called fail publishes its failure.
ExitOnProblem(r) ==
    /\ At(r, "exit1") \/ At(r, "exit0")
    /\ failures' = IF problem[r] THEN failures \cup {dump[r].stamp} ELSE failures
    /\ End(r, TRUE)
    /\ Finish(r)
    /\ UNCHANGED <<day, blobs, heartbeats, started>>

\* The trap: a run that ends badly, or reported a problem, publishes the failure.
OnExit(r) ==
    /\ At(r, "exit1") \/ At(r, "exit0")
    /\ failures' = IF ExitStatus(r) # 0 \/ problem[r] THEN failures \cup {dump[r].stamp} ELSE failures
    /\ End(r, TRUE)
    /\ Finish(r)
    /\ UNCHANGED <<day, blobs, heartbeats, started>>

ReportHeartbeat(r) ==
    /\ At(r, "heartbeat")
    /\ heartbeats' \in {heartbeats, heartbeats \cup {dump[r].stamp}}
    /\ Gone(r)
    /\ UNCHANGED <<day, blobs, failures, ended, started>>

\* The machine stops, or the run is killed: no trap runs.
Stop(r) ==
    /\ ~At(r, "off")
    /\ Gone(r)
    /\ UNCHANGED <<day, blobs, heartbeats, failures, ended, started>>

\* A run takes minutes: no run sees a second midnight.
Midnight ==
    /\ day < LastDay
    /\ \A r \in Runs : At(r, "off") \/ dump[r].stamp.day = day
    /\ day' = day + 1
    /\ UNCHANGED <<pc, dump, problem, doomed, blobs, heartbeats, failures, ended, started>>

Step(r) ==
    \/ Start(r) \/ Prepare(r) \/ DumpDatabase(r) \/ Verify(r) \/ Upload(r) \/ ReadBack(r)
    \/ PublishSize(r) \/ ListExpired(r) \/ DeleteNext(r) \/ OnExit(r) \/ ReportHeartbeat(r)
    \/ Stop(r)

Next == Midnight \/ \E r \in Runs : Step(r)

Spec == Init /\ [][Next]_vars

(***************************************************************************)
(* Properties.                                                             *)
(***************************************************************************)
\* Every variable has its shape, no stamp is stored twice, and only a prune that goes on has dumps
\* to delete.
TypeOK ==
    /\ day \in 0 .. LastDay /\ started \in 0 .. MaxRuns
    /\ pc \in [Runs -> Steps] /\ dump \in [Runs -> Dump] /\ problem \in [Runs -> BOOLEAN]
    /\ doomed \in [Runs -> SUBSET Blob] /\ \A r \in Runs : doomed[r] # {} => At(r, "delete")
    /\ blobs \subseteq Blob
    /\ \A b, c \in blobs : b.stamp = c.stamp => b = c
    /\ heartbeats \subseteq Stamp /\ failures \subseteq Stamp /\ ended \subseteq Ending

\* A dump that restores: all the bytes of one that is whole.
Restorable(b) == b.whole /\ b.sound
Kept(s) == \E b \in blobs : b.stamp = s /\ Restorable(b)

\* A heartbeat means there is a backup: the dump of every run that published one can be restored
\* for the whole retention window, and the newest of them for ever, whatever later runs, prunes and
\* failures do, where pg_dump leaves nothing that the checks cannot see.
HeartbeatMeansRestorable ==
    \A s \in heartbeats :
        /\ s.day + RetentionDays >= day => Kept(s)
        /\ \E b \in blobs : Restorable(b) /\ b.stamp.serial >= s.serial

Told(s) == s \in failures \/ s.day + RetentionDays < day \/ Kept(s)

\* Once the exit trap is set no run ends in silence: unless the machine stopped it, a run whose dump
\* cannot be restored while the retention window lasts tried to publish its failure, where pg_dump
\* leaves nothing that the checks cannot see.
NoSilentEnd == \A e \in ended : e.trapped => Told(e.stamp)
=============================================================================
