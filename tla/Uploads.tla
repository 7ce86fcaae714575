------------------------------- MODULE Uploads -------------------------------
(***************************************************************************)
(* The upload pipeline of one tenant: the request that streams bytes into  *)
(* quarantine and records a row, the verifier loops and per-upload dispatch *)
(* tasks that claim a row and decide it, the quarantine sweeper and the    *)
(* deletion of a file.                                                     *)
(*                                                                         *)
(*   phonix-server/src/files.rs     the upload request                     *)
(*   phonix-server/src/jobs.rs      verifier loop, dispatch task, sweeper  *)
(*   phonix-services/src/files/*    upload, verify, access                 *)
(*   phonix-db/src/files.rs         every statement on file_uploads        *)
(*   phonix-storage/src/local.rs    the objects on disk                    *)
(*                                                                         *)
(* One step of the model is one statement, one transaction or one storage  *)
(* call: what another task can observe between two awaits.  A file's bytes *)
(* are either in quarantine or in their bucket; names, digests, sizes and  *)
(* MIME types are not kept, except that `Acceptable' says which files the  *)
(* inspection passes.  Time is two events: a claim outliving               *)
(* claim_timeout_secs and a row outliving quarantine_ttl_mins.             *)
(***************************************************************************)
EXTENDS Naturals, Sequences, FiniteSets

CONSTANTS
    Files,        \* uploads; each is a row id, a quarantine key and a storage key
    Acceptable,   \* the files whose bytes the inspection accepts
    Loops,        \* verifier loops, one in every server process
    Concurrency,  \* storage.jobs.concurrency: the size of a claimed batch
    MaxAttempts,  \* storage.jobs.max_attempts
    Hazards,      \* which of AllHazards the environment may exhibit
    MaxFaults     \* bound: how many of the counted hazards may happen

\* crash        a task dies between two of its steps
\* storage      a storage call fails (StorageError::Io)
\* db           a statement or transaction fails and is rolled back
\* lost_ack     a transaction commits and its client is told that it failed
\* slow         a claim outlives its timeout while its runner is still at work
\* late         a row outlives the quarantine TTL before it has been decided
\* early_delete a file is deleted before it has been decided
AllHazards == {"crash", "storage", "db", "lost_ack", "slow", "late", "early_delete"}

ASSUME UploadsAssumption ==
    /\ IsFiniteSet(Files) /\ IsFiniteSet(Loops)
    /\ Files \cap Loops = {}
    /\ Acceptable \subseteq Files
    /\ Concurrency \in Nat \ {0}
    /\ MaxAttempts \in Nat \ {0}
    /\ Hazards \subseteq AllHazards
    /\ MaxFaults \in Nat

VARIABLES
    row,         \* file_uploads: the row of each file, AbsentRow when there is none
    quarantine,  \* the files whose bytes are at their quarantine key
    bucket,      \* the files whose bytes are at their storage key
    events,      \* the outbox rows enqueued for each file, counted by outcome
    request,     \* the upload request of each file
    runner,      \* verifier loops and dispatch tasks
    sweeper,     \* the quarantine sweeper
    deleter,     \* the delete request of each file
    emptied,     \* history: the files a deletion has taken the object of
    faults       \* how many counted hazards have happened

vars == <<row, quarantine, bucket, events, request, runner, sweeper, deleter, emptied, faults>>
objects == <<quarantine, bucket>>
deletions == <<deleter, emptied>>

(* A dispatch task is spawned for one upload, so a file names its task.    *)
Runners == Loops \cup Files

Statuses == {"absent", "received", "verifying", "stored", "rejected", "failed"}
Undecided == {"received", "verifying"}
Terminal == {"stored", "rejected", "failed"}
Outcomes == {"stored", "rejected"}

Row == [status: Statuses, quarantine_key: BOOLEAN, storage_key: BOOLEAN,
        claim: {"none", "live", "expired"}, attempts: Nat, old: BOOLEAN]

AbsentRow == [status |-> "absent", quarantine_key |-> FALSE, storage_key |-> FALSE,
              claim |-> "none", attempts |-> 0, old |-> FALSE]

(* What a runner remembers of a row it claimed: FileRow as RETURNING gave it. *)
Claim == [file: Files, attempts: Nat, quarantine_key: BOOLEAN]

RunnerSteps == {"idle", "claim", "inspect", "promote", "commit", "undo",
                "refuse", "reject", "retry", "giveup"}

TypeOK ==
    /\ row \in [Files -> Row]
    /\ quarantine \in SUBSET Files
    /\ bucket \in SUBSET Files
    /\ events \in [Files -> [Outcomes -> Nat]]
    /\ request \in [Files -> {"idle", "written", "unrecorded", "done"}]
    /\ runner \in [Runners -> [pc: RunnerSteps, work: Seq(Claim)]]
    /\ sweeper \in [work: SUBSET Files, deleted: SUBSET Files]
    /\ deleter \in [Files -> {"idle", "storage", "quarantine", "nothing", "removed"}]
    /\ emptied \in SUBSET Files
    /\ faults \in 0..MaxFaults

Init ==
    /\ row = [f \in Files |-> AbsentRow]
    /\ quarantine = {}
    /\ bucket = {}
    /\ events = [f \in Files |-> [o \in Outcomes |-> 0]]
    /\ request = [f \in Files |-> "idle"]
    /\ runner = [r \in Runners |-> [pc |-> "idle", work |-> <<>>]]
    /\ sweeper = [work |-> {}, deleted |-> {}]
    /\ deleter = [f \in Files |-> "idle"]
    /\ emptied = {}
    /\ faults = 0

Smooth == faults' = faults

Fault(kind) ==
    /\ kind \in Hazards
    /\ faults < MaxFaults
    /\ faults' = faults + 1

-----------------------------------------------------------------------------
(* Statements on file_uploads.  An UPDATE or DELETE by id touches nothing  *)
(* when the row is gone, and none of the callers looks at rows_affected.   *)

Updated(f, new) == IF row[f].status = "absent" THEN row ELSE [row EXCEPT ![f] = new]

(* Mutants: the claim query without its timeout test, and without the       *)
(* verifying rows.                                                         *)
OutstandingIgnoringClaims == {f \in Files : row[f].status \in Undecided}
OutstandingReceivedOnly == {f \in Files : row[f].status = "received"}

(* db/files.rs OUTSTANDING: never started, or started by a worker whose    *)
(* claim has timed out.  A verifying row always has a claimed_at.          *)
Outstanding ==
    {f \in Files : \/ row[f].status = "received"
                   \/ row[f].status = "verifying" /\ row[f].claim = "expired"}

(* The row as a claim leaves it: attempts is incremented and never tested. *)
ClaimedRow(f) ==
    [row[f] EXCEPT !.status = "verifying", !.claim = "live", !.attempts = @ + 1]

ClaimOf(f) ==
    [file |-> f, attempts |-> row[f].attempts + 1, quarantine_key |-> row[f].quarantine_key]

mark_stored(f) ==
    Updated(f, [row[f] EXCEPT !.status = "stored", !.storage_key = TRUE,
                              !.quarantine_key = FALSE, !.claim = "none"])

mark_rejected(f) ==
    Updated(f, [row[f] EXCEPT !.status = "rejected", !.quarantine_key = FALSE,
                              !.claim = "none"])

release(f) == Updated(f, [row[f] EXCEPT !.status = "received", !.claim = "none"])

mark_failed(f) == Updated(f, [row[f] EXCEPT !.status = "failed", !.claim = "none"])

(* Mutant: the outbox insert is forgotten.                                 *)
enqueueForgotten(f, outcome) == events
enqueue(f, outcome) == [events EXCEPT ![f][outcome] = @ + 1]

-----------------------------------------------------------------------------
(* The upload request.                                                     *)

(* The stream ends and DiskWriter::finish publishes the object.  A stream  *)
(* that is cut or runs past the limit leaves neither object nor row.       *)
Write(f) ==
    /\ request[f] = "idle"
    /\ request' = [request EXCEPT ![f] = "written"]
    /\ quarantine' = quarantine \cup {f}
    /\ Smooth
    /\ UNCHANGED <<row, bucket, events, runner, sweeper, deletions>>

ReceivedRow == [AbsentRow EXCEPT !.status = "received", !.quarantine_key = TRUE]

(* record_upload, then dispatch spawns the task that will claim the row.   *)
Record(f) ==
    /\ request[f] = "written"
    /\ UNCHANGED <<objects, events, sweeper, deletions>>
    /\ \/ /\ Smooth
          /\ row' = [row EXCEPT ![f] = ReceivedRow]
          /\ request' = [request EXCEPT ![f] = "done"]
          /\ runner' = [runner EXCEPT ![f].pc = "claim"]
       \/ /\ \/ Fault("db") /\ UNCHANGED row
             \/ Fault("lost_ack") /\ row' = [row EXCEPT ![f] = ReceivedRow]
          /\ request' = [request EXCEPT ![f] = "unrecorded"]
          /\ UNCHANGED runner

(* upload::discard: the insert failed, so the bytes go; a failure to remove *)
(* them is logged.                                                         *)
Discard(f) ==
    /\ request[f] = "unrecorded"
    /\ request' = [request EXCEPT ![f] = "done"]
    /\ \/ Smooth /\ quarantine' = quarantine \ {f}
       \/ Fault("storage") /\ UNCHANGED quarantine
    /\ UNCHANGED <<row, bucket, events, runner, sweeper, deletions>>

RequestCrash(f) ==
    /\ request[f] \in {"written", "unrecorded"}
    /\ Fault("crash")
    /\ request' = [request EXCEPT ![f] = "done"]
    /\ UNCHANGED <<row, objects, events, runner, sweeper, deletions>>

-----------------------------------------------------------------------------
(* Claiming.                                                               *)

(* The first min(Concurrency, |Outstanding|) rows; created_at is not kept, *)
(* so any of them may come first.                                          *)
Batches ==
    LET size == IF Cardinality(Outstanding) < Concurrency
                THEN Cardinality(Outstanding) ELSE Concurrency
    IN {s \in [1..size -> Outstanding] : \A i, j \in 1..size : s[i] = s[j] => i = j}

claim_batch(l) ==
    /\ l \in Loops /\ runner[l].pc = "idle"
    /\ Outstanding # {}
    /\ Smooth
    /\ \E batch \in Batches :
         LET claimed == {batch[i] : i \in DOMAIN batch}
         IN /\ row' = [f \in Files |-> IF f \in claimed THEN ClaimedRow(f) ELSE row[f]]
            /\ runner' = [runner EXCEPT ![l] =
                            [pc |-> "inspect",
                             work |-> [i \in DOMAIN batch |-> ClaimOf(batch[i])]]]
    /\ UNCHANGED <<objects, events, request, sweeper, deletions>>

(* A dispatch task claims its own row, or finds somebody got there first;  *)
(* an error is logged and the task ends.                                   *)
claim_one(f) ==
    /\ runner[f].pc = "claim"
    /\ \/ /\ Smooth
          /\ f \in Outstanding
          /\ row' = [row EXCEPT ![f] = ClaimedRow(f)]
          /\ runner' = [runner EXCEPT ![f] = [pc |-> "inspect", work |-> <<ClaimOf(f)>>]]
       \/ /\ (Smooth /\ f \notin Outstanding) \/ Fault("db")
          /\ runner' = [runner EXCEPT ![f].pc = "idle"]
          /\ UNCHANGED row
    /\ UNCHANGED <<objects, events, request, sweeper, deletions>>

-----------------------------------------------------------------------------
(* Verification.  Current(r) is the claimed row `run' is called with.      *)

Current(r) == Head(runner[r].work)

Held(r) == {runner[r].work[i].file : i \in DOMAIN runner[r].work}

Goto(r, pc) == runner' = [runner EXCEPT ![r].pc = pc]

(* `run' returns: the loop takes the next row of its batch, or goes back   *)
(* to waiting.                                                             *)
Finish(r) ==
    LET rest == Tail(runner[r].work)
    IN runner' = [runner EXCEPT ![r] =
                    [pc |-> IF rest = <<>> THEN "idle" ELSE "inspect", work |-> rest]]

(* quarantine_key_of, stat, read_head, inspect and digest: nothing here    *)
(* writes.  A row without a quarantine key and a missing object are both   *)
(* NotFound, which is not retryable; an Io error is.                       *)
Inspect(r) ==
    /\ runner[r].pc = "inspect"
    /\ LET c == Current(r)
           readable == c.quarantine_key /\ c.file \in quarantine
       IN \/ Smooth /\ ~readable /\ Goto(r, "giveup")
          \/ Smooth /\ readable /\ c.file \in Acceptable /\ Goto(r, "promote")
          \/ Smooth /\ readable /\ c.file \notin Acceptable /\ Goto(r, "refuse")
          \/ Fault("storage") /\ c.quarantine_key /\ Goto(r, "retry")
    /\ UNCHANGED <<row, objects, events, request, sweeper, deletions>>

(* Mutant: the row is written without the object having moved.             *)
PromoteLater(r) ==
    /\ runner[r].pc = "promote"
    /\ Smooth
    /\ Goto(r, "commit")
    /\ UNCHANGED <<row, objects, events, request, sweeper, deletions>>

(* storage.promote from quarantine to the bucket: a rename, or a copy that *)
(* may fail to remove the original, then a stat of the destination.        *)
Promote(r) ==
    /\ runner[r].pc = "promote"
    /\ LET f == Current(r).file
       IN \/ /\ Smooth /\ f \notin quarantine
             /\ Goto(r, "giveup")
             /\ UNCHANGED objects
          \/ /\ f \in quarantine
             /\ bucket' = bucket \cup {f}
             /\ \/ Smooth /\ quarantine' = quarantine \ {f} /\ Goto(r, "commit")
                \/ Fault("storage") /\ UNCHANGED quarantine /\ Goto(r, "commit")
                \/ Fault("storage") /\ quarantine' = quarantine \ {f} /\ Goto(r, "retry")
          \/ /\ Fault("storage")
             /\ Goto(r, "retry")
             /\ UNCHANGED objects
    /\ UNCHANGED <<row, events, request, sweeper, deletions>>

(* Mutant: the event is written outside the transaction.                   *)
CommitTellsFirst(r) ==
    /\ runner[r].pc = "commit"
    /\ events' = enqueue(Current(r).file, "stored")
    /\ \/ Smooth /\ row' = mark_stored(Current(r).file) /\ Finish(r)
       \/ Fault("db") /\ UNCHANGED row /\ Goto(r, "undo")
    /\ UNCHANGED <<objects, request, sweeper, deletions>>

(* commit_stored: mark_stored and the outbox row in one transaction.       *)
Commit(r) ==
    /\ runner[r].pc = "commit"
    /\ LET f == Current(r).file
           applied == row' = mark_stored(f) /\ events' = enqueue(f, "stored")
       IN \/ Smooth /\ applied /\ Finish(r)
          \/ Fault("lost_ack") /\ applied /\ Goto(r, "undo")
          \/ Fault("db") /\ UNCHANGED <<row, events>> /\ Goto(r, "undo")
    /\ UNCHANGED <<objects, request, sweeper, deletions>>

(* Mutant: the promoted object is removed rather than moved back.          *)
UndoDeletes(r) ==
    /\ runner[r].pc = "undo"
    /\ Smooth
    /\ bucket' = bucket \ {Current(r).file}
    /\ Goto(r, "retry")
    /\ UNCHANGED <<row, quarantine, events, request, sweeper, deletions>>

(* The commit returned an error: the object goes back to quarantine, and a *)
(* failure to move it back is only logged.  The error is a database error, *)
(* so it is retryable.                                                     *)
Undo(r) ==
    /\ runner[r].pc = "undo"
    /\ LET f == Current(r).file
       IN \/ /\ Smooth /\ f \in bucket
             /\ quarantine' = quarantine \cup {f}
             /\ bucket' = bucket \ {f}
          \/ /\ (Smooth /\ f \notin bucket) \/ Fault("storage")
             /\ UNCHANGED objects
    /\ Goto(r, "retry")
    /\ UNCHANGED <<row, events, request, sweeper, deletions>>

(* refuse: the object is deleted first; a failure is only logged.          *)
Refuse(r) ==
    /\ runner[r].pc = "refuse"
    /\ \/ Smooth /\ quarantine' = quarantine \ {Current(r).file}
       \/ Fault("storage") /\ UNCHANGED quarantine
    /\ Goto(r, "reject")
    /\ UNCHANGED <<row, bucket, events, request, sweeper, deletions>>

(* refuse: then mark_rejected and the outbox row in one transaction.       *)
CommitRefusal(r) ==
    /\ runner[r].pc = "reject"
    /\ LET f == Current(r).file
           applied == row' = mark_rejected(f) /\ events' = enqueue(f, "rejected")
       IN \/ Smooth /\ applied /\ Finish(r)
          \/ Fault("lost_ack") /\ applied /\ Goto(r, "retry")
          \/ Fault("db") /\ UNCHANGED <<row, events>> /\ Goto(r, "retry")
    /\ UNCHANGED <<objects, request, sweeper, deletions>>

(* What `run' makes of an error: back on the queue while it is retryable   *)
(* and attempts are left, failed otherwise.  Neither statement looks at    *)
(* the status it overwrites; if it fails the row keeps its claim.          *)
Settle(r) ==
    /\ runner[r].pc \in {"retry", "giveup"}
    /\ LET c == Current(r)
           again == runner[r].pc = "retry" /\ c.attempts < MaxAttempts
       IN \/ Smooth /\ row' = IF again THEN release(c.file) ELSE mark_failed(c.file)
          \/ Fault("db") /\ UNCHANGED row
    /\ Finish(r)
    /\ UNCHANGED <<objects, events, request, sweeper, deletions>>

(* A process dies with its loop or its dispatch task.  A loop is back when *)
(* the process restarts; a dispatch task is not.                           *)
RunnerCrash(r) ==
    /\ runner[r].pc # "idle"
    /\ Fault("crash")
    /\ runner' = [runner EXCEPT ![r] = [pc |-> "idle", work |-> <<>>]]
    /\ UNCHANGED <<row, objects, events, request, sweeper, deletions>>

-----------------------------------------------------------------------------
(* Time.                                                                   *)

(* claimed_at falls behind claim_timeout_secs.  With no slow runner this   *)
(* happens only to a row nobody is working on any more.                    *)
ClaimExpires(f) ==
    /\ row[f].status = "verifying" /\ row[f].claim = "live"
    /\ \/ Smooth /\ \A r \in Runners : f \notin Held(r)
       \/ Fault("slow") /\ \E r \in Runners : f \in Held(r)
    /\ row' = [row EXCEPT ![f].claim = "expired"]
    /\ UNCHANGED <<objects, events, request, runner, sweeper, deletions>>

(* created_at falls behind quarantine_ttl_mins.  Rows that are stored or   *)
(* rejected age too, and nothing looks.                                    *)
RowAges(f) ==
    /\ ~row[f].old
    /\ \/ row[f].status = "failed"
       \/ row[f].status \in Undecided /\ "late" \in Hazards
    /\ row' = [row EXCEPT ![f].old = TRUE]
    /\ Smooth
    /\ UNCHANGED <<objects, events, request, runner, sweeper, deletions>>

-----------------------------------------------------------------------------
(* The sweeper: reads a batch of rows, then for each deletes the object    *)
(* and after that the row, whatever the row has become since.              *)

(* Mutant: failed rows are left out.                                       *)
expired_quarantine ==
    {f \in Files : /\ row[f].quarantine_key
                   /\ row[f].status \in {"received", "verifying", "failed"}
                   /\ row[f].old}

SweepRead ==
    /\ sweeper.work = {}
    /\ expired_quarantine # {}
    /\ sweeper' = [work |-> expired_quarantine, deleted |-> {}]
    /\ Smooth
    /\ UNCHANGED <<row, objects, events, request, runner, deletions>>

(* One row at a time; a storage failure leaves the row for another pass.   *)
SweepObject(f) ==
    /\ f \in sweeper.work /\ sweeper.deleted = {}
    /\ \/ /\ Smooth
          /\ quarantine' = quarantine \ {f}
          /\ sweeper' = [sweeper EXCEPT !.deleted = {f}]
       \/ /\ Fault("storage")
          /\ sweeper' = [sweeper EXCEPT !.work = @ \ {f}]
          /\ UNCHANGED quarantine
    /\ UNCHANGED <<row, bucket, events, request, runner, deletions>>

SweepRow(f) ==
    /\ f \in sweeper.deleted
    /\ sweeper' = [work |-> sweeper.work \ {f}, deleted |-> {}]
    /\ \/ Smooth /\ row' = [row EXCEPT ![f] = AbsentRow]
       \/ Fault("db") /\ UNCHANGED row
    /\ UNCHANGED <<objects, events, request, runner, deletions>>

SweeperCrash ==
    /\ sweeper.work # {}
    /\ Fault("crash")
    /\ sweeper' = [work |-> {}, deleted |-> {}]
    /\ UNCHANGED <<row, objects, events, request, runner, deletions>>

-----------------------------------------------------------------------------
(* Deleting a file: load, remove the object the loaded row named, delete   *)
(* the row.                                                                *)

DeleteLoad(f) ==
    /\ row[f].status \in (IF "early_delete" \in Hazards THEN Undecided ELSE {}) \cup Terminal
    /\ deleter[f] = "idle"
    /\ deleter' = [deleter EXCEPT ![f] =
                     IF row[f].storage_key THEN "storage"
                     ELSE IF row[f].quarantine_key THEN "quarantine" ELSE "nothing"]
    /\ Smooth
    /\ UNCHANGED <<row, objects, events, request, runner, sweeper, emptied>>

(* remove_object is infallible: a storage failure is logged and the row    *)
(* goes all the same.                                                      *)
DeleteObject(f) ==
    /\ deleter[f] \in {"storage", "quarantine", "nothing"}
    /\ deleter' = [deleter EXCEPT ![f] = "removed"]
    /\ emptied' = emptied \cup {f}
    /\ \/ /\ Smooth
          /\ quarantine' = IF deleter[f] = "quarantine" THEN quarantine \ {f} ELSE quarantine
          /\ bucket' = IF deleter[f] = "storage" THEN bucket \ {f} ELSE bucket
       \/ /\ Fault("storage") /\ deleter[f] # "nothing"
          /\ UNCHANGED objects
    /\ UNCHANGED <<row, events, request, runner, sweeper>>

DeleteRow(f) ==
    /\ deleter[f] = "removed"
    /\ deleter' = [deleter EXCEPT ![f] = "idle"]
    /\ \/ Smooth /\ row' = [row EXCEPT ![f] = AbsentRow]
       \/ Fault("db") /\ UNCHANGED row
    /\ UNCHANGED <<objects, events, request, runner, sweeper, emptied>>

DeleterCrash(f) ==
    /\ deleter[f] # "idle"
    /\ Fault("crash")
    /\ deleter' = [deleter EXCEPT ![f] = "idle"]
    /\ UNCHANGED <<row, objects, events, request, runner, sweeper, emptied>>

-----------------------------------------------------------------------------
Verify(r) ==
    \/ Inspect(r) \/ Promote(r) \/ Commit(r) \/ Undo(r)
    \/ Refuse(r) \/ CommitRefusal(r) \/ Settle(r)

Next ==
    \/ \E f \in Files :
         \/ Write(f) \/ Record(f) \/ Discard(f) \/ RequestCrash(f)
         \/ claim_one(f)
         \/ ClaimExpires(f) \/ RowAges(f)
         \/ SweepObject(f) \/ SweepRow(f)
         \/ DeleteLoad(f) \/ DeleteObject(f) \/ DeleteRow(f) \/ DeleterCrash(f)
    \/ \E l \in Loops : claim_batch(l)
    \/ \E r \in Runners : Verify(r) \/ RunnerCrash(r)
    \/ SweepRead
    \/ SweeperCrash

Spec == Init /\ [][Next]_vars

(* The loops never end: each wakes up, takes what there is and runs it to  *)
(* the end (tokio drives every ready task).  Clients owe nothing: an upload *)
(* or a deletion may never come, and a request that has started finishes.  *)
Fairness ==
    /\ \A f \in Files : /\ WF_vars(Record(f) \/ Discard(f))
                        /\ WF_vars(claim_one(f))
                        /\ WF_vars(ClaimExpires(f))
                        /\ WF_vars(RowAges(f))
                        /\ WF_vars(SweepObject(f) \/ SweepRow(f))
                        /\ WF_vars(DeleteObject(f) \/ DeleteRow(f))
    /\ \A l \in Loops : WF_vars(claim_batch(l))
    /\ \A r \in Runners : WF_vars(Verify(r))
    /\ WF_vars(SweepRead)

FairSpec == Spec /\ Fairness

-----------------------------------------------------------------------------
(* What the pipeline promises.                                             *)

(* verify.rs, rule one, and open_for_download: a row that says stored has   *)
(* its bytes at the storage key, and a download finds them, unless a deletion *)
(* has taken them and not yet the row.  It needs a claim timeout no runner *)
(* outlives and commits that are acknowledged: with two runners on one row,*)
(* or a commit that only seemed to fail, the undo takes a stored object.   *)
StoredHasBytes ==
    \A f \in Files : row[f].status = "stored" => f \in bucket \/ f \in emptied

(* Across crashes, retries, overlapping runners, promotion and its undo, the *)
(* bytes of a file the inspection would accept exist somewhere for as long *)
(* as it has a row younger than the quarantine TTL, unless a deletion took *)
(* them.  (The sweeper takes the object of an old row first and may fail to *)
(* delete the row.)                                                        *)
AcceptedNeverLost ==
    \A f \in Acceptable :
        row[f].status # "absent" /\ ~row[f].old /\ f \notin emptied
            => f \in quarantine \cup bucket

(* verify.rs, rule two, and claim_batch: the event commits with the change  *)
(* it describes.  A row is announced once when it is decided, as what it    *)
(* is, and never otherwise.                                                *)
ToldIffDecided ==
    \A f \in Files : row[f].status # "absent" =>
        \A o \in Outcomes : events[f][o] = IF row[f].status = o THEN 1 ELSE 0

(* commit_stored and refuse: a decision is never silent, whatever the       *)
(* environment does.                                                       *)
DecidedIsTold ==
    \A f \in Files : \A o \in Outcomes : row[f].status = o => events[f][o] > 0

(* jobs.rs verifier_loop, sweeper_loop: whatever dies, an upload that has a *)
(* row is decided, given up on or deleted in the end; and what was given up *)
(* on is collected, bytes and row, unless the row no longer names a         *)
(* quarantined object.                                                     *)
EveryUploadEnds ==
    \A f \in Files :
        /\ (row[f].status \in Undecided) ~> (row[f].status \notin Undecided)
        /\ (row[f].status = "failed" /\ row[f].quarantine_key) ~> (row[f].status = "absent")

(* The pipeline implements the life cycle the migration draws.             *)
AbstractState ==
    [f \in Files |-> IF row[f].status \in Undecided THEN "pending" ELSE row[f].status]

AbstractTold == [f \in Files |-> {o \in Outcomes : events[f][o] > 0}]

Lifecycle == INSTANCE UploadLifecycle WITH state <- AbstractState, told <- AbstractTold

ImplementsLifecycle == Lifecycle!Spec

-----------------------------------------------------------------------------
(* What the repository says of the program and a run refutes.              *)

(* verify.rs:21 "Retrying is safe because naming is deterministic ... a     *)
(* retry overwrites its own partial work": an acceptable file is given up   *)
(* on only once its attempts are spent.                                    *)
FailedOnlyWhenExhausted ==
    \A f \in Acceptable : row[f].status = "failed" => row[f].attempts >= MaxAttempts

(* jobs.rs:370 a row the sweeper removes is one whose job never ran at all: *)
(* a stored file leaves only through a deletion somebody asked for.         *)
StoredLeavesByDeletion ==
    [][\A f \in Files : row[f].status = "stored" /\ row'[f].status = "absent"
          => deleter[f] = "removed"]_row

=============================================================================
