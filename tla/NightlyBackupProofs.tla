------------------------ MODULE NightlyBackupProofs ------------------------
(***************************************************************************)
(* What holds of NightlyBackup for any runs of cron's and of an operator's *)
(* at the same time and any retention: the type invariant, and, where      *)
(* pg_dump leaves no dump that is cut, that no run ends in silence once    *)
(* its exit trap is set, and that a heartbeat means a dump that can be     *)
(* restored, with a retention of a day at least.                           *)
(***************************************************************************)
EXTENDS NightlyBackup, TLAPS

(***************************************************************************)
(* The inductive invariant.                                                *)
(***************************************************************************)
Running(r) == ~At(r, "off")
TooOld(stamp) == stamp.day + RetentionDays < day

\* A run under way began today or yesterday, and has a stamp of its own.
Clocked(r) ==
    /\ dump[r].stamp.serial <= started
    /\ dump[r].stamp.day <= day /\ day <= dump[r].stamp.day + 1

\* Nothing is stored under a run's stamp before its upload; what its readback found is there until
\* it is too old to keep; and its prune deletes nothing else.
NothingStored(r) ==
    pc[r] \in {"prepare", "dump", "verify", "upload"} => \A b \in blobs : b.stamp # dump[r].stamp
FoundWhole(r) ==
    pc[r] \in {"metric", "prune", "delete", "exit0", "heartbeat"} =>
        Stored(r, TRUE) \in blobs \/ TooOld(dump[r].stamp)
PrunesTooOld(r) == \A b \in doomed[r] : TooOld(b.stamp)

\* Later days have greater serials: what a run prunes is older than what it stored.
Before(s, t) == s.day < t.day => s.serial < t.serial

RunInv(r) ==
    /\ Running(r) => Clocked(r) /\ \A b \in blobs : Before(b.stamp, dump[r].stamp)
    /\ NothingStored(r) /\ FoundWhole(r) /\ PrunesTooOld(r)
PairInv(q, r) ==
    Running(q) /\ Running(r) /\ q # r =>
        dump[q].stamp # dump[r].stamp /\ Before(dump[q].stamp, dump[r].stamp)

\* A run whose trap ran reported a failure, or left all the bytes of its dump in the container.
EndsReported ==
    \A e \in ended : e.trapped =>
        e.stamp \in failures \/ TooOld(e.stamp) \/ \E b \in blobs : b.stamp = e.stamp /\ b.whole

BackupInv ==
    /\ \A r \in Runs : RunInv(r)
    /\ \A q, r \in Runs : PairInv(q, r)
    /\ \A b \in blobs : b.stamp.serial <= started
    /\ \A b, c \in blobs : b.stamp = c.stamp => b = c
    /\ EndsReported

(***************************************************************************)
(* The type invariant, all of it but that no stamp is stored twice, which  *)
(* needs the inductive one: it is inductive by itself.                     *)
(***************************************************************************)
Shape ==
    /\ day \in 0 .. LastDay /\ started \in 0 .. MaxRuns
    /\ pc \in [Runs -> Steps] /\ dump \in [Runs -> Dump] /\ problem \in [Runs -> BOOLEAN]
    /\ doomed \in [Runs -> SUBSET Blob] /\ \A r \in Runs : doomed[r] # {} => At(r, "delete")
    /\ blobs \subseteq Blob
    /\ heartbeats \subseteq Stamp /\ failures \subseteq Stamp /\ ended \subseteq Ending

LEMMA NoDumpIsADump == NoDump \in Dump
BY NightlyBackupAssumption DEF NoDump, Dump, Stamp, Contents

\* A run that moves on within its work, and one whose process is gone.
LEMMA MovesOn ==
    ASSUME Shape, NEW r \in Runs, NEW step \in Steps, GoTo(r, step),
           doomed[r] # {} => step = "delete", UNCHANGED doomed
    PROVE  pc' \in [Runs -> Steps] /\ \A q \in Runs : doomed'[q] # {} => pc'[q] = "delete"
BY DEF Shape, GoTo, At

LEMMA GoneIsShaped ==
    ASSUME Shape, NEW r \in Runs, Gone(r)
    PROVE  /\ pc' \in [Runs -> Steps] /\ dump' \in [Runs -> Dump] /\ problem' \in [Runs -> BOOLEAN]
           /\ doomed' \in [Runs -> SUBSET Blob]
           /\ \A q \in Runs : doomed'[q] # {} => pc'[q] = "delete"
<1>1. pc' \in [Runs -> Steps]
  BY DEF Shape, Gone, GoTo, Steps
<1>2. dump' \in [Runs -> Dump] /\ problem' \in [Runs -> BOOLEAN]
  BY NoDumpIsADump DEF Shape, Gone
<1>3. doomed' \in [Runs -> SUBSET Blob] /\ \A q \in Runs : doomed'[q] # {} => pc'[q] = "delete"
  BY DEF Shape, Gone, GoTo, At
<1>4. QED
  BY <1>1, <1>2, <1>3

LEMMA ShapeInvariant == Spec => []Shape
<1>1. Init => Shape
  BY NightlyBackupAssumption, NoDumpIsADump DEF Init, Shape, Steps, At
<1>2. Shape /\ [Next]_vars => Shape'
  <2> SUFFICES ASSUME Shape, [Next]_vars PROVE Shape'
    OBVIOUS
  <2>0. /\ day \in 0 .. LastDay /\ started \in 0 .. MaxRuns
        /\ pc \in [Runs -> Steps] /\ dump \in [Runs -> Dump] /\ problem \in [Runs -> BOOLEAN]
        /\ doomed \in [Runs -> SUBSET Blob] /\ \A r \in Runs : doomed[r] # {} => pc[r] = "delete"
        /\ blobs \subseteq Blob
        /\ heartbeats \subseteq Stamp /\ failures \subseteq Stamp /\ ended \subseteq Ending
        /\ LastDay \in Nat /\ MaxRuns \in Nat
    BY NightlyBackupAssumption DEF Shape, At
  <2>1. ASSUME NEW r \in Runs, Start(r) PROVE Shape'
    <3> DEFINE stamp == [day |-> day, serial |-> started + 1]
    <3>1. stamp \in Stamp
      BY <2>0, <2>1 DEF Start, Stamp
    <3>2. [NoDump EXCEPT !.stamp = stamp] \in Dump
      BY <3>1, NoDumpIsADump DEF Dump
    <3>3. dump' \in [Runs -> Dump] /\ started' \in 0 .. MaxRuns
      BY <2>0, <2>1, <3>2 DEF Start
    <3>4. doomed[r] = {} /\ GoTo(r, "prepare") /\ UNCHANGED doomed
      BY <2>0, <2>1 DEF Start, At
    <3>5. pc' \in [Runs -> Steps] /\ \A q \in Runs : doomed'[q] # {} => pc'[q] = "delete"
      <4>1. "prepare" \in Steps
        BY DEF Steps
      <4>2. QED
        BY <3>4, <4>1, MovesOn
    <3>6. QED
      BY <2>0, <2>1, <3>3, <3>5 DEF Start, Shape, At
  <2>2. ASSUME NEW r \in Runs, DumpDatabase(r) PROVE Shape'
    <3>1. dump' \in [Runs -> Dump]
      BY <2>0, <2>2, NightlyBackupAssumption DEF DumpDatabase, Dump, Contents
    <3>2. problem' \in [Runs -> BOOLEAN]
      BY <2>0, <2>2 DEF DumpDatabase
    <3>3. doomed[r] = {} /\ (GoTo(r, "verify") \/ GoTo(r, "exit1")) /\ UNCHANGED doomed
      BY <2>0, <2>2 DEF DumpDatabase, At
    <3>4. pc' \in [Runs -> Steps] /\ \A q \in Runs : doomed'[q] # {} => pc'[q] = "delete"
      <4>1. "verify" \in Steps /\ "exit1" \in Steps
        BY DEF Steps
      <4>2. QED
        BY <3>3, <4>1, MovesOn
    <3>5. QED
      BY <2>0, <2>2, <3>1, <3>2, <3>4 DEF DumpDatabase, Shape, At
  <2>3. ASSUME NEW r \in Runs, Verify(r) \/ ReadBack(r) \/ PublishSize(r) PROVE Shape'
    <3>1. problem' \in [Runs -> BOOLEAN]
      BY <2>0, <2>3 DEF Verify, ReadBack, PublishSize, Fail
    <3>2. /\ doomed[r] = {} /\ UNCHANGED doomed
          /\ GoTo(r, "upload") \/ GoTo(r, "exit1") \/ GoTo(r, "metric") \/ GoTo(r, "prune")
      BY <2>0, <2>3 DEF Verify, ReadBack, PublishSize, At
    <3>3. pc' \in [Runs -> Steps] /\ \A q \in Runs : doomed'[q] # {} => pc'[q] = "delete"
      <4>1. {"upload", "exit1", "metric", "prune"} \subseteq Steps
        BY DEF Steps
      <4>2. QED
        BY <3>2, <4>1, MovesOn
    <3>4. QED
      BY <2>0, <2>3, <3>1, <3>3 DEF Verify, ReadBack, PublishSize, Shape, At
  <2>4. ASSUME NEW r \in Runs, Upload(r) PROVE Shape'
    <3>1. problem' \in [Runs -> BOOLEAN]
      BY <2>0, <2>4 DEF Upload, Fail
    <3>2. \A whole \in BOOLEAN : Stored(r, whole) \in Blob
      BY <2>0 DEF Stored, Blob, Dump
    <3>3. blobs' \subseteq Blob
      BY <2>0, <2>4, <3>2 DEF Upload
    <3>4. /\ doomed[r] = {} /\ UNCHANGED doomed
          /\ GoTo(r, "readback") \/ GoTo(r, "exit1")
      BY <2>0, <2>4 DEF Upload, At
    <3>5. pc' \in [Runs -> Steps] /\ \A q \in Runs : doomed'[q] # {} => pc'[q] = "delete"
      <4>1. {"readback", "exit1"} \subseteq Steps
        BY DEF Steps
      <4>2. QED
        BY <3>4, <4>1, MovesOn
    <3>6. QED
      BY <2>0, <2>4, <3>1, <3>3, <3>5 DEF Upload, Shape, At
  <2>5. ASSUME NEW r \in Runs, ListExpired(r) PROVE Shape'
    <3>1. problem' \in [Runs -> BOOLEAN]
      BY <2>0, <2>5 DEF ListExpired, Fail
    <3>2. doomed' \in [Runs -> SUBSET Blob] /\ doomed[r] = {}
      BY <2>0, <2>5 DEF ListExpired, Expired, At
    <3>3. pc' \in [Runs -> Steps] /\ \A q \in Runs : doomed'[q] # {} => pc'[q] = "delete"
      <4>1. CASE GoTo(r, "delete") /\ doomed' = [doomed EXCEPT ![r] = Expired(blobs)]
        BY <2>0, <4>1 DEF GoTo, Steps
      <4>2. CASE GoTo(r, "exit0") /\ UNCHANGED doomed
        BY <2>0, <3>2, <4>2 DEF GoTo, Steps
      <4>3. QED
        BY <2>5, <4>1, <4>2 DEF ListExpired
    <3>4. QED
      BY <2>0, <2>5, <3>1, <3>2, <3>3 DEF ListExpired, Shape, At
  <2>6. ASSUME NEW r \in Runs, DeleteNext(r) PROVE Shape'
    <3>1. problem' \in [Runs -> BOOLEAN] /\ blobs' \subseteq Blob
      BY <2>0, <2>6 DEF DeleteNext, Fail
    <3>2. doomed' \in [Runs -> SUBSET Blob]
      BY <2>0, <2>6 DEF DeleteNext
    <3>3. pc' \in [Runs -> Steps] /\ \A q \in Runs : doomed'[q] # {} => pc'[q] = "delete"
      <4>1. CASE UNCHANGED pc /\ \E b \in doomed[r] : doomed' = [doomed EXCEPT ![r] = @ \ {b}]
        BY <2>0, <4>1
      <4>2. CASE doomed[r] = {} /\ GoTo(r, "exit0") /\ UNCHANGED doomed
        BY <2>0, <4>2 DEF GoTo, Steps
      <4>3. QED
        BY <2>6, <4>1, <4>2 DEF DeleteNext
    <3>4. QED
      BY <2>0, <2>6, <3>1, <3>2, <3>3 DEF DeleteNext, Shape, At
  <2>7. ASSUME NEW r \in Runs, OnExit(r) PROVE Shape'
    <3>1. failures' \subseteq Stamp /\ ended' \subseteq Ending
      <4>1. dump[r].stamp \in Stamp
        BY <2>0 DEF Dump
      <4>2. [stamp |-> dump[r].stamp, trapped |-> TRUE] \in Ending
        BY <4>1 DEF Ending
      <4>3. ended' = ended \cup {[stamp |-> dump[r].stamp, trapped |-> TRUE]}
        BY <2>7 DEF OnExit, End
      <4>4. failures' \subseteq Stamp
        BY <2>0, <2>7, <4>1 DEF OnExit
      <4>5. QED
        BY <2>0, <4>2, <4>3, <4>4
    <3>2. CASE GoTo(r, "heartbeat") /\ UNCHANGED <<dump, problem, doomed>>
      <4>1. pc' \in [Runs -> Steps] /\ \A q \in Runs : doomed'[q] # {} => pc'[q] = "delete"
        BY <2>0, <2>7, <3>2 DEF OnExit, GoTo, Steps, At
      <4>2. QED
        BY <2>0, <2>7, <3>1, <3>2, <4>1 DEF OnExit, Shape, At
    <3>3. CASE Gone(r)
      BY <2>0, <2>7, <3>1, <3>3, GoneIsShaped DEF OnExit, Shape, At
    <3>4. QED
      BY <2>7, <3>2, <3>3 DEF OnExit, Finish
  <2>13. ASSUME NEW r \in Runs, Prepare(r) PROVE Shape'
    <3>1. CASE GoTo(r, "dump") /\ UNCHANGED <<dump, problem, doomed, ended>>
      <4>1. pc' \in [Runs -> Steps] /\ \A q \in Runs : doomed'[q] # {} => pc'[q] = "delete"
        BY <2>0, <2>13, <3>1 DEF Prepare, GoTo, Steps, At
      <4>2. QED
        BY <2>0, <2>13, <3>1, <4>1 DEF Prepare, Shape, At
    <3>2. CASE Gone(r) /\ End(r, FALSE)
      <4>1. ended' \subseteq Ending
        <5>1. dump[r].stamp \in Stamp
          BY <2>0 DEF Dump
        <5>2. [stamp |-> dump[r].stamp, trapped |-> FALSE] \in Ending
          BY <5>1 DEF Ending
        <5>3. ended' = ended \cup {[stamp |-> dump[r].stamp, trapped |-> FALSE]}
          BY <3>2 DEF End
        <5>4. QED
          BY <2>0, <5>2, <5>3
      <4>2. QED
        BY <2>0, <2>13, <3>2, <4>1, GoneIsShaped DEF Prepare, Shape, At
    <3>3. QED
      BY <2>13, <3>1, <3>2 DEF Prepare
  <2>8. ASSUME NEW r \in Runs, ReportHeartbeat(r) PROVE Shape'
    <3>1. heartbeats' \subseteq Stamp
      BY <2>0, <2>8 DEF ReportHeartbeat, Dump
    <3>2. QED
      BY <2>0, <2>8, <3>1, GoneIsShaped DEF ReportHeartbeat, Shape, At
  <2>9. ASSUME NEW r \in Runs, Stop(r) PROVE Shape'
    BY <2>0, <2>9, GoneIsShaped DEF Stop, Shape, At
  <2>10. CASE Midnight
    BY <2>0, <2>10 DEF Midnight, Shape, At
  <2>11. CASE UNCHANGED vars
    BY <2>11 DEF vars, Shape, At
  <2>12. QED
    BY <2>1, <2>2, <2>3, <2>4, <2>5, <2>6, <2>7, <2>8, <2>9, <2>10, <2>11, <2>13
       DEF Next, Step
<1>3. QED
  BY <1>1, <1>2, PTL DEF Spec

(***************************************************************************)
(* Every step preserves the inductive invariant.                           *)
(***************************************************************************)
LEMMA ShapeFacts ==
    ASSUME Shape
    PROVE  /\ day \in Nat /\ started \in Nat /\ RetentionDays \in Nat
           /\ \A r \in Runs : dump[r].stamp \in Stamp
           /\ \A b \in blobs : b.stamp \in Stamp
           /\ \A s \in Stamp : s.day \in Nat /\ s.serial \in Nat
BY NightlyBackupAssumption DEF Shape, Dump, Blob, Stamp

\* A step of a run that keeps its stamp, or ends it, and stores and deletes nothing.
LEMMA QuietStep ==
    ASSUME Shape, BackupInv, NEW r \in Runs, UNCHANGED <<day, blobs, started>>,
           \A q \in Runs \ {r} : pc'[q] = pc[q] /\ dump'[q] = dump[q] /\ doomed'[q] = doomed[q],
           pc'[r] = "off" \/ (pc[r] # "off" /\ dump'[r].stamp = dump[r].stamp),
           NothingStored(r)', FoundWhole(r)', PrunesTooOld(r)', EndsReported'
    PROVE  BackupInv'
<1>1. ASSUME NEW q \in Runs PROVE RunInv(q)'
  <2>1. CASE q # r
    BY <2>1 DEF BackupInv, RunInv, Running, At, Clocked, NothingStored, FoundWhole, PrunesTooOld,
       Stored, TooOld
  <2>2. CASE q = r
    BY <2>2 DEF BackupInv, RunInv, Running, At, Clocked
  <2>3. QED
    BY <2>1, <2>2
<1>2. ASSUME NEW p \in Runs, NEW q \in Runs PROVE PairInv(p, q)'
  BY DEF BackupInv, PairInv, Running, At
<1>3. QED
  BY <1>1, <1>2 DEF BackupInv

\* A run that is gone.
LEMMA GoneStep ==
    ASSUME Shape, BackupInv, NEW r \in Runs, UNCHANGED <<day, blobs, started>>, Gone(r), EndsReported'
    PROVE  BackupInv'
<1>1. \A q \in Runs \ {r} : pc'[q] = pc[q] /\ dump'[q] = dump[q] /\ doomed'[q] = doomed[q]
  BY DEF Shape, Gone, GoTo
<1>2. pc'[r] = "off" /\ doomed'[r] = {}
  BY DEF Shape, Gone, GoTo
<1>3. NothingStored(r)' /\ FoundWhole(r)' /\ PrunesTooOld(r)'
  BY <1>2 DEF NothingStored, FoundWhole, PrunesTooOld
<1>4. QED
  BY <1>1, <1>2, <1>3, QuietStep

\* A run that goes on with the dump and the listing it has.
LEMMA GoOnStep ==
    ASSUME Shape, BackupInv, NEW r \in Runs, NEW step,
           UNCHANGED <<day, dump, doomed, blobs, failures, ended, started>>,
           pc[r] # "off", GoTo(r, step), NothingStored(r)', FoundWhole(r)'
    PROVE  BackupInv'
<1>1. \A q \in Runs \ {r} : pc'[q] = pc[q] /\ dump'[q] = dump[q] /\ doomed'[q] = doomed[q]
  BY DEF Shape, GoTo
<1>2. PrunesTooOld(r)' /\ EndsReported'
  BY DEF BackupInv, RunInv, PrunesTooOld, TooOld, EndsReported
<1>3. QED
  BY <1>1, <1>2, QuietStep

LEMMA StartStep ==
    ASSUME Shape, BackupInv, NEW r \in Runs, Start(r)
    PROVE  BackupInv'
<1> DEFINE stamp == [day |-> day, serial |-> started + 1]
<1>0. /\ \A q \in Runs \ {r} : pc'[q] = pc[q] /\ dump'[q] = dump[q]
      /\ pc'[r] = "prepare" /\ dump'[r].stamp = stamp /\ doomed[r] = {}
      /\ UNCHANGED <<day, doomed, blobs, failures, ended>> /\ started' = started + 1
  BY DEF Shape, Start, GoTo, At, NoDump
<1>1. stamp.day = day /\ stamp.serial = started + 1
  OBVIOUS
<1> HIDE DEF stamp
<1>2. ASSUME NEW q \in Runs, q # r PROVE RunInv(q)'
  BY <1>0, <1>2, ShapeFacts DEF BackupInv, RunInv, Running, At, Clocked, NothingStored, FoundWhole,
     PrunesTooOld, Stored, TooOld, Before
<1>3. RunInv(r)'
  <2>1. Clocked(r)'
    BY <1>0, <1>1, ShapeFacts DEF Clocked
  <2>2. \A b \in blobs : Before(b.stamp, stamp) /\ b.stamp # stamp
    BY <1>1, ShapeFacts DEF BackupInv, Before
  <2>3. NothingStored(r)' /\ FoundWhole(r)' /\ PrunesTooOld(r)'
    BY <1>0, <2>2 DEF NothingStored, FoundWhole, PrunesTooOld
  <2>4. QED
    BY <1>0, <2>1, <2>2, <2>3 DEF RunInv, Before
<1>4. ASSUME NEW q \in Runs, q # r, pc[q] # "off"
      PROVE  /\ dump[q].stamp # stamp
             /\ Before(dump[q].stamp, stamp) /\ Before(stamp, dump[q].stamp)
  <2>1. dump[q].stamp.serial <= started /\ dump[q].stamp.day <= day
    BY <1>4 DEF BackupInv, RunInv, Running, At, Clocked
  <2>2. QED
    BY <1>1, <2>1, ShapeFacts DEF Before
<1>5. ASSUME NEW p \in Runs, NEW q \in Runs PROVE PairInv(p, q)'
  <2>1. CASE p # r /\ q # r
    BY <1>0, <2>1 DEF BackupInv, PairInv, Running, At, Before
  <2>2. CASE p # r /\ q = r
    BY <1>0, <1>4, <2>2 DEF PairInv, Running, At, Before
  <2>3. CASE p = r /\ q # r
    BY <1>0, <1>4, <2>3 DEF PairInv, Running, At, Before
  <2>4. CASE p = q
    BY <2>4 DEF PairInv
  <2>5. QED
    BY <2>1, <2>2, <2>3, <2>4
<1>6. \A b \in blobs' : b.stamp.serial <= started'
  BY <1>0, ShapeFacts DEF BackupInv
<1>7. EndsReported'
  BY <1>0 DEF BackupInv, EndsReported, TooOld
<1>8. QED
  BY <1>0, <1>2, <1>3, <1>5, <1>6, <1>7 DEF BackupInv

\* What an upload stores is stored under a stamp that no other dump and no other run has.
LEMMA UploadStep ==
    ASSUME Shape, BackupInv, NEW r \in Runs, Upload(r)
    PROVE  BackupInv'
<1>0. /\ \A q \in Runs \ {r} : pc'[q] = pc[q]
      /\ pc[r] = "upload" /\ pc'[r] \in {"readback", "exit1"}
      /\ UNCHANGED <<day, dump, doomed, failures, ended, started>>
  BY DEF Shape, Upload, GoTo, At
<1>1. /\ blobs \subseteq blobs'
      /\ \A b \in blobs' \ blobs : b.stamp = dump[r].stamp
      /\ \A b, c \in blobs' \ blobs : b = c
  <2>1. PICK stored \in {{}, {Stored(r, FALSE)}, {Stored(r, TRUE)}} : blobs' = blobs \cup stored
    BY DEF Upload
  <2>2. \A whole \in BOOLEAN : Stored(r, whole).stamp = dump[r].stamp
    BY DEF Stored
  <2>3. QED
    BY <2>1, <2>2
<1>2. \A b \in blobs : b.stamp # dump[r].stamp
  BY <1>0 DEF BackupInv, RunInv, NothingStored
<1>3. ASSUME NEW q \in Runs PROVE RunInv(q)'
  <2>1. Running(q)' => Running(q)
    BY <1>0 DEF Running, At
  <2>2. Running(q) => Before(dump[r].stamp, dump[q].stamp)
    <3>1. CASE q = r
      BY <3>1, ShapeFacts DEF Before
    <3>2. CASE q # r
      BY <1>0, <3>2 DEF BackupInv, PairInv, Running, At
    <3>3. QED
      BY <3>1, <3>2
  <2>3. Running(q)' => Clocked(q)' /\ \A b \in blobs' : Before(b.stamp, dump'[q].stamp)
    BY <1>0, <1>1, <2>1, <2>2 DEF BackupInv, RunInv, Clocked
  <2>4. NothingStored(q)'
    <3>1. CASE q = r
      BY <1>0, <3>1 DEF NothingStored
    <3>2. CASE q # r
      BY <1>0, <1>1, <3>2 DEF BackupInv, RunInv, PairInv, Running, At, NothingStored
    <3>3. QED
      BY <3>1, <3>2
  <2>5. FoundWhole(q)' /\ PrunesTooOld(q)'
    BY <1>0, <1>1 DEF BackupInv, RunInv, FoundWhole, PrunesTooOld, Stored, TooOld
  <2>6. QED
    BY <1>0, <2>3, <2>4, <2>5 DEF RunInv, Before
<1>4. ASSUME NEW p \in Runs, NEW q \in Runs PROVE PairInv(p, q)'
  BY <1>0 DEF BackupInv, PairInv, Running, At, Before
<1>5. \A b \in blobs' : b.stamp.serial <= started'
  BY <1>0, <1>1 DEF BackupInv, RunInv, Running, At, Clocked
<1>6. \A b, c \in blobs' : b.stamp = c.stamp => b = c
  BY <1>1, <1>2 DEF BackupInv
<1>7. EndsReported'
  BY <1>0, <1>1 DEF BackupInv, EndsReported, TooOld
<1>8. QED
  BY <1>3, <1>4, <1>5, <1>6, <1>7 DEF BackupInv

\* A delete takes away at most one dump, which is too old to keep, and adds none.
LEMMA DeleteStep ==
    ASSUME Shape, BackupInv, NEW r \in Runs, DeleteNext(r)
    PROVE  BackupInv'
<1>0. /\ \A q \in Runs \ {r} : pc'[q] = pc[q] /\ doomed'[q] = doomed[q]
      /\ pc[r] = "delete" /\ pc'[r] \in {"delete", "exit0"}
      /\ doomed'[r] \subseteq doomed[r]
      /\ UNCHANGED <<day, dump, failures, ended, started>>
  BY DEF Shape, DeleteNext, GoTo, At
<1>1. blobs' \subseteq blobs /\ \A b \in blobs \ blobs' : b \in doomed[r]
  BY DEF DeleteNext
<1>2. \A b \in blobs \ blobs' : TooOld(b.stamp)
  BY <1>1 DEF BackupInv, RunInv, PrunesTooOld
<1>3. ASSUME NEW q \in Runs PROVE RunInv(q)'
  <2>1. /\ pc'[q] = pc[q] \/ q = r
        /\ Running(q)' => Running(q)
        /\ doomed'[q] \subseteq doomed[q]
    BY <1>0 DEF Running, At
  <2>2. Running(q)' => Clocked(q)' /\ \A b \in blobs' : Before(b.stamp, dump'[q].stamp)
    BY <1>0, <1>1, <2>1 DEF BackupInv, RunInv, Clocked
  <2>3. NothingStored(q)' /\ PrunesTooOld(q)'
    BY <1>0, <1>1, <2>1 DEF BackupInv, RunInv, NothingStored, PrunesTooOld, TooOld
  <2>4. FoundWhole(q)'
    <3>1. pc'[q] \in {"metric", "prune", "delete", "exit0", "heartbeat"} =>
             Stored(q, TRUE) \in blobs \/ TooOld(dump[q].stamp)
      BY <1>0, <2>1 DEF BackupInv, RunInv, FoundWhole
    <3>2. Stored(q, TRUE).stamp = dump[q].stamp
      BY DEF Stored
    <3>3. Stored(q, TRUE) \in blobs => Stored(q, TRUE) \in blobs' \/ TooOld(dump[q].stamp)
      BY <1>2, <3>2
    <3>4. QED
      BY <1>0, <3>1, <3>3 DEF FoundWhole, Stored, TooOld
  <2>5. QED
    BY <1>0, <2>2, <2>3, <2>4 DEF RunInv, Before
<1>4. ASSUME NEW p \in Runs, NEW q \in Runs PROVE PairInv(p, q)'
  BY <1>0 DEF BackupInv, PairInv, Running, At, Before
<1>5. EndsReported'
  <2>1. ASSUME NEW e \in ended, NEW b \in blobs, b.stamp = e.stamp, b.whole
        PROVE  TooOld(e.stamp) \/ \E c \in blobs' : c.stamp = e.stamp /\ c.whole
    BY <1>2, <2>1
  <2>2. QED
    BY <1>0, <2>1 DEF BackupInv, EndsReported, TooOld
<1>6. QED
  BY <1>0, <1>1, <1>3, <1>4, <1>5 DEF BackupInv

LEMMA MidnightStep ==
    ASSUME Shape, BackupInv, Midnight
    PROVE  BackupInv'
<1>0. day' = day + 1 /\ UNCHANGED <<pc, dump, doomed, blobs, failures, ended, started>>
  BY DEF Midnight
<1>1. \A s \in Stamp : TooOld(s) => TooOld(s)'
  BY <1>0, ShapeFacts DEF TooOld
<1>2. ASSUME NEW q \in Runs PROVE RunInv(q)'
  <2>1. Running(q) => Clocked(q)'
    BY <1>0, ShapeFacts DEF BackupInv, RunInv, Running, At, Clocked, Midnight
  <2>2. \A b \in doomed[q] : b.stamp \in Stamp
    BY DEF Shape, Blob
  <2>3. FoundWhole(q)' /\ PrunesTooOld(q)'
    BY <1>0, <1>1, <2>2, ShapeFacts DEF BackupInv, RunInv, FoundWhole, PrunesTooOld, Stored, TooOld
  <2>4. QED
    BY <1>0, <2>1, <2>3 DEF BackupInv, RunInv, Running, At, NothingStored, Before
<1>3. ASSUME NEW p \in Runs, NEW q \in Runs PROVE PairInv(p, q)'
  BY <1>0 DEF BackupInv, PairInv, Running, At, Before
<1>4. EndsReported'
  <2>1. \A e \in ended : e.stamp \in Stamp
    BY DEF Shape, Ending
  <2>2. \A e \in ended : TooOld(e.stamp) => TooOld(e.stamp)'
    BY <1>0, <1>1, <2>1
  <2>3. QED
    BY <1>0, <2>2 DEF BackupInv, EndsReported
<1>5. QED
  BY <1>0, <1>2, <1>3, <1>4 DEF BackupInv

LEMMA BackupInvariant == Spec => [](Shape /\ BackupInv)
<1>1. Init => BackupInv
  BY DEF Init, BackupInv, RunInv, PairInv, Running, At, NothingStored, FoundWhole, PrunesTooOld,
     EndsReported
<1>2. Shape /\ BackupInv /\ [Next]_vars => BackupInv'
  <2> SUFFICES ASSUME Shape, BackupInv, [Next]_vars PROVE BackupInv'
    OBVIOUS
  <2>0. /\ pc \in [Runs -> Steps] /\ doomed \in [Runs -> SUBSET Blob]
        /\ \A r \in Runs : NothingStored(r) /\ FoundWhole(r) /\ PrunesTooOld(r)
        /\ EndsReported
    BY DEF Shape, BackupInv, RunInv
  <2>1. ASSUME NEW r \in Runs, DumpDatabase(r) PROVE BackupInv'
    <3>1. /\ \A q \in Runs \ {r} : pc'[q] = pc[q] /\ dump'[q] = dump[q] /\ doomed'[q] = doomed[q]
          /\ pc[r] = "dump" /\ pc'[r] \in {"verify", "exit1"} /\ dump'[r].stamp = dump[r].stamp
          /\ UNCHANGED <<day, doomed, blobs, failures, ended, started>>
      BY <2>0, <2>1 DEF DumpDatabase, GoTo, At, Shape, Dump
    <3>2. NothingStored(r)' /\ FoundWhole(r)' /\ PrunesTooOld(r)' /\ EndsReported'
      BY <2>0, <3>1 DEF NothingStored, FoundWhole, PrunesTooOld, TooOld, EndsReported
    <3>3. UNCHANGED <<day, blobs, started>>
      BY <3>1
    <3>4. QED
      BY <3>1, <3>2, <3>3, QuietStep
  <2>2. ASSUME NEW r \in Runs, Verify(r) PROVE BackupInv'
    <3>1. /\ pc[r] = "verify" /\ (GoTo(r, "upload") \/ GoTo(r, "exit1"))
          /\ UNCHANGED <<day, dump, doomed, blobs, failures, ended, started>>
      BY <2>2 DEF Verify, At
    <3>2. NothingStored(r)' /\ FoundWhole(r)'
      BY <2>0, <3>1 DEF GoTo, NothingStored, FoundWhole
    <3>3. QED
      BY <3>1, <3>2, GoOnStep
  <2>3. ASSUME NEW r \in Runs, ReadBack(r) PROVE BackupInv'
    <3>1. /\ pc[r] = "readback"
          /\ (Stored(r, TRUE) \in blobs /\ GoTo(r, "metric")) \/ GoTo(r, "exit1")
          /\ UNCHANGED <<day, dump, doomed, blobs, failures, ended, started>>
      BY <2>3 DEF ReadBack, At
    <3>2. NothingStored(r)' /\ FoundWhole(r)'
      BY <2>0, <3>1 DEF GoTo, NothingStored, FoundWhole, Stored
    <3>3. QED
      BY <3>1, <3>2, GoOnStep
  <2>4. ASSUME NEW r \in Runs, PublishSize(r) PROVE BackupInv'
    <3>1. pc[r] = "metric" /\ GoTo(r, "prune")
          /\ UNCHANGED <<day, dump, doomed, blobs, failures, ended, started>>
      BY <2>4 DEF PublishSize, At
    <3>2. NothingStored(r)' /\ FoundWhole(r)'
      BY <2>0, <3>1 DEF GoTo, NothingStored, FoundWhole, Stored, TooOld
    <3>3. QED
      BY <3>1, <3>2, GoOnStep
  <2>5. ASSUME NEW r \in Runs, ListExpired(r) PROVE BackupInv'
    <3>1. /\ \A q \in Runs \ {r} : pc'[q] = pc[q] /\ doomed'[q] = doomed[q]
          /\ pc[r] = "prune" /\ pc'[r] \in {"delete", "exit0"}
          /\ doomed'[r] \in {doomed[r], Expired(blobs)}
          /\ UNCHANGED <<day, dump, blobs, failures, ended, started>>
      BY <2>0, <2>5 DEF ListExpired, GoTo, At
    <3>2. NothingStored(r)' /\ FoundWhole(r)' /\ EndsReported'
      BY <2>0, <3>1 DEF NothingStored, FoundWhole, Stored, TooOld, EndsReported
    <3>3. PrunesTooOld(r)'
      BY <2>0, <3>1 DEF PrunesTooOld, TooOld, Expired
    <3>4. UNCHANGED <<day, blobs, started>>
      BY <3>1
    <3>5. QED
      BY <3>1, <3>2, <3>3, <3>4, QuietStep
  <2>6. ASSUME NEW r \in Runs, OnExit(r) PROVE BackupInv'
    <3>1. EndsReported'
      <4>1. \/ dump[r].stamp \in failures' \/ TooOld(dump[r].stamp)
            \/ Stored(r, TRUE) \in blobs
        <5>1. CASE pc[r] = "exit1"
          BY <2>6, <5>1 DEF OnExit, ExitStatus, At
        <5>2. CASE pc[r] = "exit0"
          BY <2>0, <5>2 DEF FoundWhole
        <5>3. QED
          BY <2>6, <5>1, <5>2 DEF OnExit, At
      <4>2. /\ failures \subseteq failures'
            /\ ended' = ended \cup {[stamp |-> dump[r].stamp, trapped |-> TRUE]}
            /\ UNCHANGED <<day, blobs>>
        BY <2>6 DEF OnExit, End
      <4>3. Stored(r, TRUE).stamp = dump[r].stamp /\ Stored(r, TRUE).whole
        BY DEF Stored
      <4>4. ASSUME NEW e \in ended', e.trapped
            PROVE  \/ e.stamp \in failures' \/ TooOld(e.stamp)'
                   \/ \E b \in blobs' : b.stamp = e.stamp /\ b.whole
        <5>1. CASE e \in ended
          BY <2>0, <4>2, <4>4, <5>1 DEF EndsReported, TooOld
        <5>2. CASE e = [stamp |-> dump[r].stamp, trapped |-> TRUE]
          BY <4>1, <4>2, <4>3, <5>2 DEF TooOld
        <5>3. QED
          BY <4>2, <5>1, <5>2
      <4>5. QED
        BY <4>4 DEF EndsReported
    <3>2. UNCHANGED <<day, blobs, started>>
      BY <2>6 DEF OnExit
    <3>3. CASE Gone(r)
      BY <3>1, <3>2, <3>3, GoneStep
    <3>4. CASE ExitStatus(r) = 0 /\ GoTo(r, "heartbeat") /\ UNCHANGED <<dump, problem, doomed>>
      <4>1. /\ \A q \in Runs \ {r} : pc'[q] = pc[q] /\ dump'[q] = dump[q] /\ doomed'[q] = doomed[q]
            /\ pc[r] = "exit0" /\ pc'[r] = "heartbeat" /\ dump'[r].stamp = dump[r].stamp
        BY <2>0, <2>6, <3>4 DEF OnExit, ExitStatus, GoTo, At
      <4>2. NothingStored(r)' /\ FoundWhole(r)' /\ PrunesTooOld(r)'
        BY <2>0, <3>2, <3>4, <4>1 DEF NothingStored, FoundWhole, PrunesTooOld, Stored, TooOld
      <4>3. QED
        BY <3>1, <3>2, <4>1, <4>2, QuietStep
    <3>5. QED
      BY <2>6, <3>3, <3>4 DEF OnExit, Finish
  <2>7. ASSUME NEW r \in Runs, ReportHeartbeat(r) \/ Stop(r) PROVE BackupInv'
    <3>1. Gone(r) /\ UNCHANGED <<day, blobs, started>> /\ UNCHANGED <<failures, ended>>
      BY <2>7 DEF ReportHeartbeat, Stop
    <3>2. EndsReported'
      BY <2>0, <3>1 DEF EndsReported, TooOld
    <3>3. QED
      BY <3>1, <3>2, GoneStep
  <2>9. ASSUME NEW r \in Runs, Prepare(r) PROVE BackupInv'
    <3>1. UNCHANGED <<day, blobs, started, failures>> /\ pc[r] = "prepare"
      BY <2>9 DEF Prepare, At
    <3>2. EndsReported'
      BY <2>0, <2>9, <3>1 DEF Prepare, End, EndsReported, TooOld
    <3>3. CASE Gone(r)
      BY <3>1, <3>2, <3>3, GoneStep
    <3>4. CASE GoTo(r, "dump") /\ UNCHANGED <<dump, problem, doomed, ended>>
      <4>1. NothingStored(r)' /\ FoundWhole(r)'
        BY <2>0, <3>1, <3>4 DEF GoTo, NothingStored, FoundWhole
      <4>2. QED
        BY <3>1, <3>4, <4>1, GoOnStep
    <3>5. QED
      BY <2>9, <3>3, <3>4 DEF Prepare
  <2>8. CASE UNCHANGED vars
    BY <2>8 DEF vars, BackupInv, RunInv, PairInv, Running, At, Clocked, NothingStored, FoundWhole,
       PrunesTooOld, Stored, TooOld, EndsReported
  <2>10. QED
    BY <2>1, <2>2, <2>3, <2>4, <2>5, <2>6, <2>7, <2>8, <2>9, StartStep, UploadStep, DeleteStep,
       MidnightStep DEF Next, Step
<1>3. QED
  BY <1>1, <1>2, ShapeInvariant, PTL DEF Spec

(***************************************************************************)
(* What the invariant is for.                                              *)
(***************************************************************************)
\* Every variable has its shape and no stamp is stored twice, however runs overlap, fail and stop.
THEOREM TypeCorrect == Spec => []TypeOK
<1>1. Shape /\ BackupInv => TypeOK
  BY DEF Shape, BackupInv, TypeOK
<1>2. QED
  BY <1>1, BackupInvariant, PTL

\* What is uploaded is whole, or cut where pg_dump may leave it so.
Checked(r) ==
    /\ pc[r] = "verify" => dump[r].contents \in Faults \cup {"whole"}
    /\ pc[r] = "upload" => dump[r].contents \in (Faults \cap {"cut"}) \cup {"whole"}
SoundInv ==
    /\ \A r \in Runs : Checked(r)
    /\ \A b \in blobs : b.sound \/ "cut" \in Faults

LEMMA SoundInvariant == Spec => []SoundInv
<1>1. Init => SoundInv
  BY DEF Init, SoundInv, Checked
<1>2. Shape /\ SoundInv /\ [Next]_vars => SoundInv'
  <2> SUFFICES ASSUME Shape, SoundInv, [Next]_vars PROVE SoundInv'
    OBVIOUS
  <2>0. pc \in [Runs -> Steps] /\ dump \in [Runs -> Dump] /\ \A r \in Runs : Checked(r)
    BY DEF Shape, SoundInv
  \* A step of one run that stores nothing.
  <2>1. ASSUME NEW r \in Runs, blobs' \subseteq blobs, Checked(r)',
               \A q \in Runs \ {r} : pc'[q] = pc[q] /\ dump'[q] = dump[q]
        PROVE  SoundInv'
    <3>1. ASSUME NEW q \in Runs PROVE Checked(q)'
      BY <2>0, <2>1 DEF Checked
    <3>2. QED
      BY <2>1, <3>1 DEF SoundInv
  <2>2. ASSUME NEW r \in Runs, DumpDatabase(r) PROVE SoundInv'
    <3>1. Checked(r)' /\ \A q \in Runs \ {r} : pc'[q] = pc[q] /\ dump'[q] = dump[q]
      BY <2>0, <2>2 DEF DumpDatabase, GoTo, Checked, Dump
    <3>2. QED
      BY <2>1, <2>2, <3>1 DEF DumpDatabase
  <2>3. ASSUME NEW r \in Runs, Verify(r) PROVE SoundInv'
    <3>1. Checked(r)' /\ \A q \in Runs \ {r} : pc'[q] = pc[q] /\ dump'[q] = dump[q]
      BY <2>0, <2>3 DEF Verify, GoTo, At, Checked
    <3>2. QED
      BY <2>1, <2>3, <3>1 DEF Verify
  <2>4. ASSUME NEW r \in Runs, Upload(r) PROVE SoundInv'
    <3>1. pc[r] = "upload" /\ UNCHANGED dump
          /\ \A q \in Runs : pc'[q] = pc[q] \/ pc'[q] \in {"readback", "exit1"}
      BY <2>0, <2>4 DEF Upload, GoTo, At
    <3>2. \A q \in Runs : Checked(q)'
      BY <2>0, <3>1 DEF Checked
    <3>3. PICK stored \in {{}, {Stored(r, FALSE)}, {Stored(r, TRUE)}} : blobs' = blobs \cup stored
      BY <2>4 DEF Upload
    <3>4. \A whole \in BOOLEAN : Stored(r, whole).sound = (dump[r].contents = "whole")
      BY DEF Stored
    <3>5. dump[r].contents = "whole" \/ "cut" \in Faults
      BY <2>0, <3>1 DEF Checked
    <3>6. \A b \in blobs' : b.sound \/ "cut" \in Faults
      BY <3>3, <3>4, <3>5 DEF SoundInv
    <3>7. QED
      BY <3>2, <3>6 DEF SoundInv
  <2>5. ASSUME NEW r \in Runs, \/ Start(r) \/ ReadBack(r) \/ PublishSize(r) \/ ListExpired(r)
                               \/ DeleteNext(r)
        PROVE  SoundInv'
    <3>1. /\ \A q \in Runs \ {r} : pc'[q] = pc[q] /\ dump'[q] = dump[q]
          /\ pc'[r] \notin {"verify", "upload"} /\ blobs' \subseteq blobs
      BY <2>0, <2>5 DEF Start, ReadBack, PublishSize, ListExpired, DeleteNext, GoTo, At
    <3>2. QED
      BY <2>1, <3>1 DEF Checked
  <2>6. ASSUME NEW r \in Runs, Gone(r), UNCHANGED blobs PROVE SoundInv'
    <3>1. /\ \A q \in Runs \ {r} : pc'[q] = pc[q] /\ dump'[q] = dump[q]
          /\ pc'[r] = "off"
      BY <2>0, <2>6 DEF Gone, GoTo
    <3>2. QED
      BY <2>1, <2>6, <3>1 DEF Checked
  <2>7. ASSUME NEW r \in Runs, NEW step \in {"dump", "heartbeat"}, GoTo(r, step),
               UNCHANGED <<dump, blobs>>
        PROVE  SoundInv'
    <3>1. /\ \A q \in Runs \ {r} : pc'[q] = pc[q] /\ dump'[q] = dump[q]
          /\ pc'[r] = step
      BY <2>0, <2>7 DEF GoTo
    <3>2. QED
      BY <2>1, <2>7, <3>1 DEF Checked
  <2>8. ASSUME NEW r \in Runs, Prepare(r) \/ OnExit(r) \/ ReportHeartbeat(r) \/ Stop(r)
        PROVE  SoundInv'
    BY <2>6, <2>7, <2>8 DEF Prepare, OnExit, Finish, ReportHeartbeat, Stop
  <2>9. CASE Midnight \/ UNCHANGED vars
    BY <2>9 DEF Midnight, vars, SoundInv, Checked
  <2>10. QED
    BY <2>2, <2>3, <2>4, <2>5, <2>8, <2>9 DEF Next, Step
<1>3. QED
  BY <1>1, <1>2, ShapeInvariant, PTL DEF Spec

\* No run ends in silence once its exit trap is set: whatever step fails, whatever other runs do, it
\* tells of every end that leaves nothing to restore, as long as pg_dump leaves no dump that is cut
\* where it says it did well.
THEOREM NoRunEndsInSilence ==
    ASSUME "cut" \notin Faults
    PROVE  Spec => []NoSilentEnd
<1>1. BackupInv /\ SoundInv => NoSilentEnd
  <2> SUFFICES ASSUME BackupInv, SoundInv, NEW e \in ended, e.trapped
               PROVE  Told(e.stamp)
    BY DEF NoSilentEnd
  <2>1. \/ e.stamp \in failures \/ TooOld(e.stamp)
        \/ \E b \in blobs : b.stamp = e.stamp /\ b.whole
    BY DEF BackupInv, EndsReported
  <2>2. \A b \in blobs : b.sound
    BY DEF SoundInv
  <2>3. QED
    BY <2>1, <2>2 DEF Told, TooOld, Kept, Restorable
<1>2. QED
  BY <1>1, BackupInvariant, SoundInvariant, PTL

\* Where a dump is kept for a day at least, a prune deletes nothing that a heartbeat relies on: the
\* run that prunes has stored a newer dump itself, and has found it whole.
LEMMA DeleteKeepsANewer ==
    ASSUME Shape, BackupInv, RetentionDays > 0, NEW r \in Runs, pc[r] = "delete",
           NEW b \in doomed[r], b \in blobs
    PROVE  /\ Stored(r, TRUE) \in blobs \ {b}
           /\ b.stamp.serial < dump[r].stamp.serial
<1>1. b.stamp \in Stamp /\ dump[r].stamp \in Stamp
  BY DEF Shape, Blob, Dump
<1>2. /\ Clocked(r) /\ FoundWhole(r) /\ PrunesTooOld(r)
      /\ \A c \in blobs : Before(c.stamp, dump[r].stamp)
  BY DEF BackupInv, RunInv, Running, At
<1>3. ~TooOld(dump[r].stamp) /\ b.stamp.day < dump[r].stamp.day
  BY <1>1, <1>2, ShapeFacts DEF Clocked, TooOld, PrunesTooOld
<1>4. Stored(r, TRUE) \in blobs /\ Stored(r, TRUE) # b
  BY <1>1, <1>2, <1>3, ShapeFacts DEF FoundWhole, Stored
<1>5. b.stamp.serial < dump[r].stamp.serial
  BY <1>2, <1>3 DEF Before
<1>6. QED
  BY <1>4, <1>5

\* A heartbeat means a dump that can be restored: for the whole of the retention window its own, and
\* after it its own or a newer one, although runs of cron's and by hand prune at the same time and
\* midnight may pass in between.  With a retention of no days at all, a run that midnight overtakes
\* prunes its own dump and then publishes its heartbeat: that is why a day is asked for.
THEOREM HeartbeatsTellTheTruth ==
    ASSUME RetentionDays > 0, "cut" \notin Faults
    PROVE  Spec => []HeartbeatMeansRestorable
<1>1. Init => HeartbeatMeansRestorable
  BY DEF Init, HeartbeatMeansRestorable
<1>2. Shape /\ BackupInv /\ SoundInv /\ HeartbeatMeansRestorable /\ [Next]_vars
         => HeartbeatMeansRestorable'
  <2> SUFFICES ASSUME Shape, BackupInv, SoundInv, HeartbeatMeansRestorable, [Next]_vars
               PROVE  HeartbeatMeansRestorable'
    OBVIOUS
  <2>0. /\ \A s \in heartbeats : s \in Stamp /\ s.day \in Nat /\ s.serial \in Nat
        /\ \A b \in blobs : b.stamp.day \in Nat /\ b.stamp.serial \in Nat
        /\ day \in Nat /\ RetentionDays \in Nat
        /\ \A b \in blobs : b.sound
    BY ShapeFacts DEF Shape, SoundInv
  <2>1. CASE blobs \subseteq blobs' /\ day' \in {day, day + 1} /\ UNCHANGED heartbeats
    <3>1. \A s \in heartbeats : s.day + RetentionDays >= day' => s.day + RetentionDays >= day
      BY <2>0, <2>1
    <3>2. QED
      BY <2>1, <3>1 DEF HeartbeatMeansRestorable, Kept
  <2>2. ASSUME NEW r \in Runs, DeleteNext(r) PROVE HeartbeatMeansRestorable'
    <3>1. CASE UNCHANGED <<day, blobs, heartbeats>>
      BY <3>1 DEF HeartbeatMeansRestorable, Kept
    <3>2. CASE /\ pc[r] = "delete" /\ UNCHANGED <<day, heartbeats>>
               /\ \E b \in doomed[r] : b \in blobs /\ blobs' = blobs \ {b}
      <4>1. PICK b \in doomed[r] : b \in blobs /\ blobs' = blobs \ {b}
        BY <3>2
      <4>2. /\ Stored(r, TRUE) \in blobs' /\ b.stamp.serial < Stored(r, TRUE).stamp.serial
            /\ Restorable(Stored(r, TRUE))
        <5>1. Stored(r, TRUE) \in blobs \ {b} /\ b.stamp.serial < dump[r].stamp.serial
          BY <3>2, <4>1, DeleteKeepsANewer
        <5>2. Stored(r, TRUE).stamp = dump[r].stamp /\ Stored(r, TRUE).whole
          BY DEF Stored
        <5>3. QED
          BY <2>0, <4>1, <5>1, <5>2 DEF Restorable
      <4>3. TooOld(b.stamp)
        BY DEF BackupInv, RunInv, PrunesTooOld
      <4>4. ASSUME NEW s \in heartbeats, s.day + RetentionDays >= day
            PROVE  Kept(s)'
        <5>1. b.stamp # s
          BY <2>0, <4>1, <4>3, <4>4 DEF TooOld
        <5>2. PICK c \in blobs : c.stamp = s /\ Restorable(c)
          BY <4>4 DEF HeartbeatMeansRestorable, Kept
        <5>3. c \in blobs'
          BY <4>1, <5>1, <5>2
        <5>4. QED
          BY <5>2, <5>3 DEF Kept
      <4>5. ASSUME NEW s \in heartbeats
            PROVE  \E c \in blobs' : Restorable(c) /\ c.stamp.serial >= s.serial
        <5>1. PICK c \in blobs : Restorable(c) /\ c.stamp.serial >= s.serial
          BY DEF HeartbeatMeansRestorable
        <5>2. CASE c # b
          BY <4>1, <5>1, <5>2
        <5>3. CASE c = b
          <6>1. Stored(r, TRUE).stamp.serial >= s.serial
            <7>1. /\ b.stamp.serial \in Nat /\ s.serial \in Nat /\ b.stamp.serial >= s.serial
                  /\ Stored(r, TRUE).stamp.serial \in Nat
              BY <2>0, <4>1, <4>2, <5>1, <5>3
            <7>2. b.stamp.serial < Stored(r, TRUE).stamp.serial
              BY <4>2
            <7>3. \A i, j, k \in Nat : i >= j /\ i < k => k >= j
              OBVIOUS
            <7>4. QED
              BY <7>1, <7>2, <7>3
          <6>2. QED
            BY <4>2, <6>1
        <5>4. QED
          BY <5>2, <5>3
      <4>6. QED
        BY <3>2, <4>4, <4>5 DEF HeartbeatMeansRestorable
    <3>3. QED
      BY <2>2, <3>1, <3>2 DEF DeleteNext, At
  <2>3. ASSUME NEW r \in Runs, ReportHeartbeat(r) PROVE HeartbeatMeansRestorable'
    <3>1. /\ Stored(r, TRUE) \in blobs /\ ~TooOld(dump[r].stamp)
      <4>1. pc[r] = "heartbeat"
        BY <2>3 DEF ReportHeartbeat, At
      <4>2. Clocked(r) /\ FoundWhole(r)
        BY <4>1 DEF BackupInv, RunInv, Running, At
      <4>3. dump[r].stamp.day \in Nat
        BY ShapeFacts
      <4>4. ~TooOld(dump[r].stamp)
        BY <2>0, <4>2, <4>3 DEF Clocked, TooOld
      <4>5. QED
        BY <4>1, <4>2, <4>4 DEF FoundWhole
    <3>2. heartbeats' \subseteq heartbeats \cup {dump[r].stamp} /\ UNCHANGED <<day, blobs>>
      BY <2>3 DEF ReportHeartbeat
    <3>3. Stored(r, TRUE).stamp = dump[r].stamp /\ Restorable(Stored(r, TRUE))
      <4>1. Stored(r, TRUE).stamp = dump[r].stamp /\ Stored(r, TRUE).whole
        BY DEF Stored
      <4>2. QED
        BY <2>0, <3>1, <4>1 DEF Restorable
    <3>4. dump[r].stamp.serial >= dump[r].stamp.serial
      BY ShapeFacts
    <3>5. ASSUME NEW s \in heartbeats'
          PROVE  /\ s.day + RetentionDays >= day' => Kept(s)'
                 /\ \E b \in blobs' : Restorable(b) /\ b.stamp.serial >= s.serial
      <4>1. CASE s \in heartbeats
        BY <3>2, <4>1 DEF HeartbeatMeansRestorable, Kept
      <4>2. CASE s = dump[r].stamp
        BY <3>1, <3>2, <3>3, <3>4, <4>2 DEF Kept
      <4>3. QED
        BY <3>2, <3>5, <4>1, <4>2
    <3>6. QED
      BY <3>5 DEF HeartbeatMeansRestorable
  <2>4. ASSUME NEW r \in Runs,
               \/ Start(r) \/ Prepare(r) \/ DumpDatabase(r) \/ Verify(r) \/ Upload(r) \/ ReadBack(r)
               \/ PublishSize(r) \/ ListExpired(r) \/ OnExit(r) \/ Stop(r)
        PROVE  HeartbeatMeansRestorable'
    <3>1. blobs \subseteq blobs' /\ UNCHANGED <<day, heartbeats>>
      BY <2>4 DEF Start, Prepare, DumpDatabase, Verify, Upload, ReadBack, PublishSize, ListExpired, OnExit,
         Stop
    <3>2. QED
      BY <2>1, <3>1
  <2>5. CASE Midnight
    BY <2>1, <2>5 DEF Midnight
  <2>6. CASE UNCHANGED vars
    BY <2>1, <2>6 DEF vars
  <2>7. QED
    BY <2>2, <2>3, <2>4, <2>5, <2>6 DEF Next, Step
<1>3. QED
  BY <1>1, <1>2, BackupInvariant, SoundInvariant, PTL DEF Spec
=============================================================================
