---------------------------- MODULE UploadsProofs ----------------------------
(***************************************************************************)
(* The bytes of a file, its row and its announcement agree, for every      *)
(* number of files, loops, attempts and faults: under which of the         *)
(* environment's hazards is an assumption of each theorem.                 *)
(*                                                                         *)
(* A row comes from its request alone (Recorded), so what has been written *)
(* is still there when it is recorded, and the sweeper and the refusal     *)
(* take only what they may (BytesOK): that needs acknowledged commits.     *)
(* While no claim outlives its runner, a row is in the hands of one runner *)
(* (Alone), which tells what it decides, once (Told), after it has moved   *)
(* the object (Moved).  And while nobody removes an undecided row, what is *)
(* held is verifying and what is swept or deleted has ended (Settled): each*)
(* step is a move of UploadLifecycle or none.                              *)
(***************************************************************************)
EXTENDS Uploads, FiniteSetTheorems, SequenceTheorems, TLAPS

RunnerType == [pc: RunnerSteps, work: Seq(Claim)]

\* A runner has work in hand exactly while it is verifying, and a dispatch task
\* is there once its request is done.
RunnersShape ==
    /\ \A r \in Runners : runner[r].work = <<>> <=> runner[r].pc \in {"idle", "claim"}
    /\ \A f \in Files : runner[f].pc # "idle" => request[f] = "done"

WorkShape == RunnersShape /\ sweeper.deleted \subseteq sweeper.work

TypeInv == TypeOK /\ WorkShape

-----------------------------------------------------------------------------
(* Runners and their work                                                  *)

LEMMA FilesAreRunners == \A f \in Files : f \in Runners
BY DEF Runners

LEMMA TailFacts ==
    ASSUME NEW S, NEW s \in Seq(S), s # <<>>
    PROVE  /\ Len(s) \in Nat \ {0}
           /\ DOMAIN s = 1..Len(s)
           /\ Head(s) = s[1] /\ Head(s) \in S
           /\ Tail(s) \in Seq(S)
           /\ DOMAIN Tail(s) = 1..(Len(s) - 1)
           /\ \A i \in 1..(Len(s) - 1) : Tail(s)[i] = s[i + 1]
<1>1. Len(s) \in Nat \ {0}
  BY EmptySeq
<1>2. DOMAIN s = 1..Len(s)
  BY LenProperties
<1>3. /\ Head(s) = s[1] /\ Head(s) \in S
      /\ Tail(s) \in Seq(S) /\ Len(Tail(s)) = Len(s) - 1
      /\ \A i \in 1..(Len(s) - 1) : Tail(s)[i] = s[i + 1]
  BY <1>1, HeadTailProperties, SMT
<1>4. QED
  BY <1>1, <1>2, <1>3, LenProperties

\* The files a runner holds are told by its work alone.
LEMMA HeldSame ==
    ASSUME NEW r, runner'[r].work = runner[r].work
    PROVE  Held(r)' = Held(r)
BY DEF Held

LEMMA NothingHeld ==
    ASSUME NEW r, runner[r].work = <<>>
    PROVE  Held(r) = {}
BY EmptySeq DEF Held

LEMMA CurrentIsHeld ==
    ASSUME TypeOK, NEW r \in Runners, runner[r].work # <<>>
    PROVE  /\ Current(r) \in Claim
           /\ Current(r) = runner[r].work[1]
           /\ 1 \in DOMAIN runner[r].work
           /\ Current(r).file \in Files
           /\ Current(r).file \in Held(r)
<1>1. runner[r].work \in Seq(Claim)
  BY DEF TypeOK
<1>2. /\ DOMAIN runner[r].work = 1..Len(runner[r].work) /\ Len(runner[r].work) \in Nat \ {0}
      /\ Head(runner[r].work) = runner[r].work[1] /\ Head(runner[r].work) \in Claim
  BY <1>1, TailFacts
<1>3. QED
  BY <1>2 DEF Current, Held, Claim

LEMMA HeldFiles ==
    ASSUME TypeOK, NEW r \in Runners
    PROVE  Held(r) \subseteq Files
<1>1. runner[r].work \in Seq(Claim)
  BY DEF TypeOK
<1>2. \A i \in DOMAIN runner[r].work : runner[r].work[i] \in Claim
  BY <1>1, LenProperties, ElementOfSeq
<1>3. QED
  BY <1>2 DEF Held, Claim

\* One runner moves to another place of `run' with the same work.
LEMMA GotoFacts ==
    ASSUME TypeOK, NEW r \in Runners, NEW pc \in RunnerSteps, Goto(r, pc)
    PROVE  /\ runner' \in [Runners -> RunnerType]
           /\ runner'[r] = [pc |-> pc, work |-> runner[r].work]
           /\ \A q \in Runners : q # r => runner'[q] = runner[q]
           /\ \A q \in Runners : runner'[q].work = runner[q].work
           /\ \A q \in Runners : Held(q)' = Held(q) /\ Current(q)' = Current(q)
<1>1. runner \in [Runners -> RunnerType] /\ runner[r] \in RunnerType
  BY DEF TypeOK, RunnerType
<1>2. runner' = [runner EXCEPT ![r] = [runner[r] EXCEPT !.pc = pc]]
  BY DEF Goto
<1>3. [runner[r] EXCEPT !.pc = pc] = [pc |-> pc, work |-> runner[r].work]
  BY <1>1 DEF RunnerType
<1>4. [pc |-> pc, work |-> runner[r].work] \in RunnerType
  BY <1>1 DEF RunnerType
<1>5. /\ runner' \in [Runners -> RunnerType]
      /\ runner'[r] = [pc |-> pc, work |-> runner[r].work]
      /\ \A q \in Runners : q # r => runner'[q] = runner[q]
  BY <1>1, <1>2, <1>3, <1>4
<1>6. \A q \in Runners : runner'[q].work = runner[q].work
  BY <1>5
<1>7. QED
  BY <1>5, <1>6, HeldSame DEF Current

\* No file is twice in the batch of a runner.
Distinct(r) ==
    \A i, j \in DOMAIN runner[r].work : runner[r].work[i].file = runner[r].work[j].file => i = j

\* A runner is done with the first row of its batch.
LEMMA FinishFacts ==
    ASSUME TypeOK, NEW r \in Runners, runner[r].work # <<>>, Finish(r)
    PROVE  /\ runner' \in [Runners -> RunnerType]
           /\ \A q \in Runners : q # r => runner'[q] = runner[q] /\ Held(q)' = Held(q)
           /\ runner'[r].pc \in {"idle", "inspect"}
           /\ runner'[r].pc = "idle" <=> runner'[r].work = <<>>
           /\ Held(r)' \subseteq Held(r)
           /\ Distinct(r) => Distinct(r)' /\ Current(r).file \notin Held(r)'
<1> DEFINE work == runner[r].work
           pc == IF Tail(work) = <<>> THEN "idle" ELSE "inspect"
<1>1. runner \in [Runners -> RunnerType] /\ work \in Seq(Claim) /\ work # <<>>
  BY DEF TypeOK, RunnerType
<1>2. /\ Len(work) \in Nat \ {0}
      /\ DOMAIN work = 1..Len(work)
      /\ Head(work) = work[1]
      /\ Tail(work) \in Seq(Claim)
      /\ DOMAIN Tail(work) = 1..(Len(work) - 1)
      /\ \A i \in 1..(Len(work) - 1) : Tail(work)[i] = work[i + 1]
  BY <1>1, TailFacts
<1>3. pc \in {"idle", "inspect"} /\ (pc = "idle" <=> Tail(work) = <<>>)
  OBVIOUS
<1>4. [pc |-> pc, work |-> Tail(work)] \in RunnerType
  BY <1>2, <1>3 DEF RunnerType, RunnerSteps
<1>5. runner' = [runner EXCEPT ![r] = [pc |-> pc, work |-> Tail(work)]]
  BY DEF Finish
<1>6. /\ runner' \in [Runners -> RunnerType]
      /\ runner'[r] = [pc |-> pc, work |-> Tail(work)]
      /\ \A q \in Runners : q # r => runner'[q] = runner[q]
  BY <1>1, <1>4, <1>5
<1>7. \A q \in Runners : q # r => Held(q)' = Held(q)
  BY <1>6, HeldSame
<1>8. Held(r)' = {Tail(work)[i].file : i \in DOMAIN Tail(work)}
  BY <1>6 DEF Held
<1>9. \A i \in 1..(Len(work) - 1) : i + 1 \in DOMAIN work /\ i + 1 # 1
  BY <1>2
<1>10. Held(r)' \subseteq Held(r)
  <2>1. ASSUME NEW i \in DOMAIN Tail(work) PROVE Tail(work)[i].file \in Held(r)
    <3>1. i + 1 \in DOMAIN work /\ Tail(work)[i] = work[i + 1]
      BY <1>2, <1>9
    <3>2. QED
      BY <3>1 DEF Held
  <2>2. QED
    BY <1>8, <2>1
<1>11. ASSUME Distinct(r) PROVE Distinct(r)' /\ Current(r).file \notin Held(r)'
  <2>1. ASSUME NEW i \in DOMAIN Tail(work), NEW j \in DOMAIN Tail(work),
               Tail(work)[i].file = Tail(work)[j].file
        PROVE  i = j
    <3>1. i + 1 = j + 1
      BY <1>2, <1>9, <1>11, <2>1, SMTT(30) DEF Distinct
    <3>2. QED
      BY <1>2, <3>1
  <2>2. Distinct(r)'
    BY <1>6, <2>1 DEF Distinct
  <2>3. 1 \in DOMAIN work
    BY <1>2
  <2>4. Current(r) = work[1]
    BY <1>2 DEF Current
  <2>5. \A i \in DOMAIN Tail(work) : Tail(work)[i].file # Current(r).file
    BY <1>2, <1>9, <1>11, <2>3, <2>4, SMTT(30) DEF Distinct
  <2>6. QED
    BY <1>8, <2>2, <2>5
<1>12. runner'[r].pc = pc /\ runner'[r].work = Tail(work)
  BY <1>6
<1>13. runner'[r].pc \in {"idle", "inspect"} /\ (runner'[r].pc = "idle" <=> runner'[r].work = <<>>)
  BY <1>3, <1>12
<1>14. QED
  BY <1>6, <1>7, <1>10, <1>11, <1>13

-----------------------------------------------------------------------------
(* Statements on rows                                                      *)

\* What a statement by id makes of the table: a row that is there gets the
\* status and keeps its age, one that is gone stays gone.
Marked(f, rows, status) ==
    /\ rows \in [Files -> Row]
    /\ \A g \in Files : g # f => rows[g] = row[g]
    /\ row[f].status = "absent" => rows[f] = row[f]
    /\ row[f].status # "absent" => rows[f].status = status /\ rows[f].old = row[f].old

LEMMA UpdatedIsMarked ==
    ASSUME TypeOK, NEW f \in Files, NEW new \in Row, new.old = row[f].old
    PROVE  Marked(f, Updated(f, new), new.status)
BY DEF TypeOK, Marked, Updated

LEMMA MarkFacts ==
    ASSUME TypeOK, NEW f \in Files
    PROVE  /\ Marked(f, mark_stored(f), "stored")
           /\ Marked(f, mark_rejected(f), "rejected")
           /\ Marked(f, mark_failed(f), "failed")
           /\ Marked(f, release(f), "received")
<1> DEFINE stored == [row[f] EXCEPT !.status = "stored", !.storage_key = TRUE,
                                    !.quarantine_key = FALSE, !.claim = "none"]
           rejected == [row[f] EXCEPT !.status = "rejected", !.quarantine_key = FALSE,
                                      !.claim = "none"]
           released == [row[f] EXCEPT !.status = "received", !.claim = "none"]
           failed == [row[f] EXCEPT !.status = "failed", !.claim = "none"]
<1>1. row[f] \in Row
  BY DEF TypeOK
<1>2. /\ stored \in Row /\ stored.status = "stored" /\ stored.old = row[f].old
      /\ rejected \in Row /\ rejected.status = "rejected" /\ rejected.old = row[f].old
      /\ released \in Row /\ released.status = "received" /\ released.old = row[f].old
      /\ failed \in Row /\ failed.status = "failed" /\ failed.old = row[f].old
  BY <1>1 DEF Row, Statuses
<1>3. /\ mark_stored(f) = Updated(f, stored) /\ mark_rejected(f) = Updated(f, rejected)
      /\ release(f) = Updated(f, released) /\ mark_failed(f) = Updated(f, failed)
  BY DEF mark_stored, mark_rejected, release, mark_failed
<1> HIDE DEF stored, rejected, released, failed
<1>4. /\ Marked(f, Updated(f, stored), stored.status)
      /\ Marked(f, Updated(f, rejected), rejected.status)
      /\ Marked(f, Updated(f, released), released.status)
      /\ Marked(f, Updated(f, failed), failed.status)
  BY <1>2, UpdatedIsMarked
<1>5. QED
  BY <1>2, <1>3, <1>4

LEMMA AbsentRowFacts ==
    /\ AbsentRow \in Row /\ AbsentRow.status = "absent" /\ AbsentRow.old = FALSE
    /\ ReceivedRow \in Row /\ ReceivedRow.status = "received" /\ ReceivedRow.old = FALSE
BY DEF AbsentRow, ReceivedRow, Row, Statuses

LEMMA ClaimedRowFacts ==
    ASSUME TypeOK, NEW f \in Files
    PROVE  /\ ClaimedRow(f) \in Row /\ ClaimOf(f) \in Claim /\ ClaimOf(f).file = f
           /\ ClaimedRow(f).status = "verifying" /\ ClaimedRow(f).claim = "live"
           /\ ClaimedRow(f).old = row[f].old
<1>1. row[f] \in Row
  BY DEF TypeOK
<1>2. row[f].attempts + 1 \in Nat
  BY <1>1 DEF Row
<1>3. QED
  BY <1>1, <1>2 DEF ClaimedRow, ClaimOf, Claim, Row, Statuses

\* Either claim: a runner without work takes some of the outstanding rows.
TakesRows(r) ==
    \E claimed \in SUBSET Outstanding :
        /\ row' \in [Files -> Row]
        /\ \A f \in Files : row'[f] = IF f \in claimed THEN ClaimedRow(f) ELSE row[f]
        /\ runner' \in [Runners -> RunnerType]
        /\ \A q \in Runners : q # r => runner'[q] = runner[q]
        /\ runner'[r].pc = "inspect" /\ runner'[r].work # <<>>
        /\ Held(r)' = claimed /\ Distinct(r)'

LEMMA BatchSize ==
    ASSUME Outstanding # {}
    PROVE  LET size == IF Cardinality(Outstanding) < Concurrency
                       THEN Cardinality(Outstanding) ELSE Concurrency
           IN size \in Nat \ {0}
<1>1. IsFiniteSet(Files) /\ Concurrency \in Nat \ {0}
  BY UploadsAssumption DEF UploadsAssumption
<1>2. Outstanding \subseteq Files
  BY DEF Outstanding
<1>3. IsFiniteSet(Outstanding)
  BY <1>1, <1>2, FS_Subset
<1>4. Cardinality(Outstanding) \in Nat /\ Cardinality(Outstanding) # 0
  BY <1>3, FS_CardinalityType, FS_EmptySet
<1>5. QED
  BY <1>1, <1>4

LEMMA BatchTakesRows ==
    ASSUME TypeOK, NEW l \in Loops, claim_batch(l)
    PROVE  TakesRows(l)
<1> DEFINE size == IF Cardinality(Outstanding) < Concurrency
                   THEN Cardinality(Outstanding) ELSE Concurrency
<1>1. l \in Runners /\ runner \in [Runners -> RunnerType]
  BY DEF Runners, TypeOK, RunnerType
<1>2. size \in Nat \ {0}
  BY BatchSize DEF claim_batch
<1>3. Batches = {s \in [1..size -> Outstanding] : \A i, j \in 1..size : s[i] = s[j] => i = j}
  BY DEF Batches
<1> HIDE DEF size
<1>4. PICK batch \in Batches :
        /\ row' = [f \in Files |-> IF f \in {batch[i] : i \in DOMAIN batch} THEN ClaimedRow(f) ELSE row[f]]
        /\ runner' = [runner EXCEPT ![l] =
                        [pc |-> "inspect", work |-> [i \in DOMAIN batch |-> ClaimOf(batch[i])]]]
  BY DEF claim_batch
<1> DEFINE claimed == {batch[i] : i \in DOMAIN batch}
           work == [i \in 1..size |-> ClaimOf(batch[i])]
<1>5. /\ DOMAIN batch = 1..size
      /\ \A i \in 1..size : batch[i] \in Outstanding
      /\ \A i, j \in 1..size : batch[i] = batch[j] => i = j
  BY <1>3
<1>6. Outstanding \subseteq Files
  BY DEF Outstanding
<1>7. claimed \in SUBSET Outstanding
  BY <1>5
<1>8. row' \in [Files -> Row] /\ \A f \in Files : row'[f] = IF f \in claimed THEN ClaimedRow(f) ELSE row[f]
  <2>1. \A f \in Files : ClaimedRow(f) \in Row /\ row[f] \in Row
    BY ClaimedRowFacts DEF TypeOK
  <2>2. QED
    BY <1>4, <2>1
<1>9. \A i \in 1..size : ClaimOf(batch[i]) \in Claim /\ ClaimOf(batch[i]).file = batch[i]
  BY <1>5, <1>6, ClaimedRowFacts
<1>10. work \in [1..size -> Claim]
  BY <1>9
<1>11. work \in Seq(Claim) /\ DOMAIN work = 1..size
  BY <1>2, <1>10
<1>12. work # <<>>
  <2>1. 1 \in DOMAIN work
    BY <1>2, <1>11
  <2>2. DOMAIN <<>> = {}
    OBVIOUS
  <2>3. QED
    BY <2>1, <2>2
<1>13. \A i \in 1..size : work[i].file = batch[i]
  BY <1>9
<1>14. [pc |-> "inspect", work |-> work] \in RunnerType
  BY <1>11 DEF RunnerType, RunnerSteps
<1>15. runner' = [runner EXCEPT ![l] = [pc |-> "inspect", work |-> work]]
  BY <1>4, <1>5
<1>16. /\ runner' \in [Runners -> RunnerType]
       /\ runner'[l] = [pc |-> "inspect", work |-> work]
       /\ \A q \in Runners : q # l => runner'[q] = runner[q]
  BY <1>1, <1>14, <1>15
<1>17. runner'[l].pc = "inspect" /\ runner'[l].work = work
  BY <1>16
<1> HIDE DEF work
<1>18. Held(l)' = claimed
  <2>1. Held(l)' = {work[i].file : i \in 1..size}
    BY <1>11, <1>17 DEF Held
  <2>2. QED
    BY <1>5, <1>13, <2>1
<1>19. Distinct(l)'
  BY <1>5, <1>11, <1>13, <1>17 DEF Distinct
<1>20. QED
  BY <1>7, <1>8, <1>12, <1>16, <1>17, <1>18, <1>19 DEF TakesRows

\* The dispatch task takes its own row or goes home.
LEMMA OwnTakesRow ==
    ASSUME TypeOK, NEW f \in Files, claim_one(f)
    PROVE  \/ TakesRows(f)
           \/ /\ UNCHANGED row
              /\ runner' = [runner EXCEPT ![f].pc = "idle"]
<1>1. CASE /\ f \in Outstanding
           /\ row' = [row EXCEPT ![f] = ClaimedRow(f)]
           /\ runner' = [runner EXCEPT ![f] = [pc |-> "inspect", work |-> <<ClaimOf(f)>>]]
  <2> DEFINE work == <<ClaimOf(f)>>
  <2>1. f \in Runners /\ runner \in [Runners -> RunnerType] /\ row \in [Files -> Row]
    BY DEF Runners, TypeOK, RunnerType
  <2>2. ClaimOf(f) \in Claim /\ ClaimOf(f).file = f /\ ClaimedRow(f) \in Row
    BY ClaimedRowFacts
  <2>3. work \in Seq(Claim) /\ DOMAIN work = {1} /\ work[1] = ClaimOf(f) /\ work # <<>>
    BY <2>2
  <2>4. [pc |-> "inspect", work |-> work] \in RunnerType
    BY <2>3 DEF RunnerType, RunnerSteps
  <2>5. /\ runner' \in [Runners -> RunnerType]
        /\ runner'[f] = [pc |-> "inspect", work |-> work]
        /\ \A q \in Runners : q # f => runner'[q] = runner[q]
    BY <1>1, <2>1, <2>4
  <2> HIDE DEF work
  <2>6. Held(f)' = {f} /\ Distinct(f)'
    BY <2>2, <2>3, <2>5 DEF Held, Distinct
  <2>7. /\ row' \in [Files -> Row]
        /\ \A g \in Files : row'[g] = IF g \in {f} THEN ClaimedRow(g) ELSE row[g]
    BY <1>1, <2>1, <2>2
  <2>8. {f} \in SUBSET Outstanding
    BY <1>1
  <2>9. TakesRows(f)
    <3>1. runner'[f].pc = "inspect" /\ runner'[f].work = work
      BY <2>5
    <3>2. runner'[f].work # <<>>
      BY <2>3, <3>1
    <3>3. QED
      BY <2>5, <2>6, <2>7, <2>8, <3>1, <3>2 DEF TakesRows
  <2>10. QED
    BY <2>9
<1>2. QED
  BY <1>1 DEF claim_one

-----------------------------------------------------------------------------
(* Types and the shape of the work in hand                                 *)

Working == RunnerSteps \ {"idle", "claim"}

\* What a step of the verification makes of its runner.
LEMMA VerifyMoves ==
    ASSUME TypeInv, NEW r \in Runners, Verify(r)
    PROVE  /\ runner[r].work # <<>>
           /\ Finish(r) \/ \E pc \in Working : Goto(r, pc)
<1>1. runner[r].pc \in Working
  BY DEF Verify, Inspect, Promote, Commit, Undo, Refuse, CommitRefusal, Settle, Working, RunnerSteps
<1>2. runner[r].work # <<>>
  BY <1>1 DEF TypeInv, WorkShape, RunnersShape, Working
<1>3. Finish(r) \/ \E pc \in Working : Goto(r, pc)
  <2>1. \A pc \in {"giveup", "promote", "refuse", "retry", "commit", "undo", "reject"} : pc \in Working
    BY DEF Working, RunnerSteps
  <2>2. QED
    BY <2>1 DEF Verify, Inspect, Promote, Commit, Undo, Refuse, CommitRefusal, Settle
<1>4. QED
  BY <1>2, <1>3

\* The steps that move no runner.
StillSteps ==
    \/ \E f \in Files : \/ Write(f) \/ Discard(f) \/ RequestCrash(f) \/ ClaimExpires(f) \/ RowAges(f)
                        \/ SweepObject(f) \/ SweepRow(f)
                        \/ DeleteLoad(f) \/ DeleteObject(f) \/ DeleteRow(f) \/ DeleterCrash(f)
    \/ SweepRead \/ SweeperCrash

LEMMA NextSplits ==
    ASSUME Next
    PROVE  \/ StillSteps
           \/ \E f \in Files : Record(f) \/ claim_one(f)
           \/ \E l \in Loops : claim_batch(l)
           \/ \E r \in Runners : Verify(r) \/ RunnerCrash(r)
BY DEF Next, StillSteps

LEMMA StillFrame ==
    ASSUME StillSteps
    PROVE  UNCHANGED runner
BY DEF StillSteps, Write, Discard, RequestCrash, ClaimExpires, RowAges, SweepObject, SweepRow,
       DeleteLoad, DeleteObject, DeleteRow, DeleterCrash, SweepRead, SweeperCrash

LEMMA RequestsStep ==
    ASSUME TypeOK, Next
    PROVE  \A f \in Files : request[f] = "done" => request'[f] = "done"
<1> USE DEF TypeOK
<1>1. CASE StillSteps
  BY <1>1 DEF StillSteps, Write, Discard, RequestCrash, ClaimExpires, RowAges, SweepObject, SweepRow,
       DeleteLoad, DeleteObject, DeleteRow, DeleterCrash, SweepRead, SweeperCrash
<1>2. CASE \E f \in Files : Record(f)
  BY <1>2 DEF Record
<1>3. CASE \E f \in Files : claim_one(f)
  BY <1>3 DEF claim_one
<1>4. CASE \E l \in Loops : claim_batch(l)
  BY <1>4 DEF claim_batch
<1>5. CASE \E r \in Runners : Verify(r) \/ RunnerCrash(r)
  BY <1>5 DEF Verify, Inspect, Promote, Commit, Undo, Refuse, CommitRefusal, Settle, RunnerCrash
<1>6. QED
  BY <1>1, <1>2, <1>3, <1>4, <1>5, NextSplits

\* In every step a runner keeps its work or a part of it, or it had none and
\* takes outstanding rows.
LEMMA RunnersStep ==
    ASSUME TypeInv, Next
    PROVE  /\ runner' \in [Runners -> RunnerType]
           /\ RunnersShape'
           /\ \A q \in Runners : Held(q)' \subseteq Held(q) \/ TakesRows(q)
<1>0. TypeOK /\ RunnersShape /\ runner \in [Runners -> RunnerType]
  BY DEF TypeInv, WorkShape, TypeOK, RunnerType
<1>1. \A f \in Files : f \in Runners /\ f \notin Loops
  BY UploadsAssumption DEF UploadsAssumption, Runners
<1>2. \A f \in Files : request[f] = "done" => request'[f] = "done"
  BY <1>0, RequestsStep
<1>3. CASE UNCHANGED runner
  <2>1. RunnersShape'
    BY <1>0, <1>2, <1>3 DEF RunnersShape
  <2>2. \A q \in Runners : Held(q)' \subseteq Held(q)
    BY <1>3, HeldSame
  <2>3. QED
    BY <1>0, <1>3, <2>1, <2>2
<1>4. ASSUME NEW f \in Files, NEW pc \in {"idle", "claim"},
             runner[f].pc \in {"idle", "claim"}, Goto(f, pc),
             pc # "idle" => request'[f] = "done"
      PROVE  /\ runner' \in [Runners -> RunnerType]
             /\ RunnersShape'
             /\ \A q \in Runners : Held(q)' \subseteq Held(q)
  <2>1. f \in Runners /\ pc \in RunnerSteps
    BY <1>1 DEF RunnerSteps
  <2>2. /\ runner' \in [Runners -> RunnerType]
        /\ runner'[f] = [pc |-> pc, work |-> runner[f].work]
        /\ \A q \in Runners : q # f => runner'[q] = runner[q]
        /\ \A q \in Runners : Held(q)' = Held(q)
    BY <1>0, <1>4, <2>1, GotoFacts
  <2>3. runner[f].work = <<>>
    BY <1>0, <1>4, <2>1 DEF RunnersShape
  <2>4. RunnersShape'
    <3>1. runner'[f].pc = pc /\ runner'[f].work = <<>>
      BY <2>2, <2>3
    <3>2. QED
      BY <1>0, <1>1, <1>2, <1>4, <2>2, <3>1 DEF RunnersShape
  <2>5. QED
    BY <2>2, <2>4
<1>5. ASSUME NEW r \in Runners, TakesRows(r), r \in Loops \/ runner[r].pc # "idle"
      PROVE  /\ runner' \in [Runners -> RunnerType]
             /\ RunnersShape'
             /\ \A q \in Runners : q # r => Held(q)' \subseteq Held(q)
  <2>1. /\ runner' \in [Runners -> RunnerType]
        /\ \A q \in Runners : q # r => runner'[q] = runner[q]
        /\ runner'[r].pc = "inspect" /\ runner'[r].work # <<>>
    BY <1>5 DEF TakesRows
  <2>2. RunnersShape'
    BY <1>0, <1>1, <1>2, <1>5, <2>1 DEF RunnersShape
  <2>3. QED
    BY <2>1, <2>2, HeldSame
<1>6. CASE StillSteps
  BY <1>3, <1>6, StillFrame
<1>7. ASSUME NEW f \in Files, Record(f)
      PROVE  /\ runner' \in [Runners -> RunnerType]
             /\ RunnersShape'
             /\ \A q \in Runners : Held(q)' \subseteq Held(q)
  <2>1. runner[f].pc = "idle"
    BY <1>0, <1>7 DEF Record, RunnersShape
  <2>2. CASE request' = [request EXCEPT ![f] = "done"] /\ runner' = [runner EXCEPT ![f].pc = "claim"]
    <3>1. request'[f] = "done"
      BY <1>0, <2>2 DEF TypeOK
    <3>2. Goto(f, "claim")
      BY <2>2 DEF Goto
    <3>3. QED
      BY <1>4, <2>1, <3>1, <3>2
  <2>3. CASE UNCHANGED runner
    <3>1. RunnersShape'
      BY <1>0, <1>2, <2>3 DEF RunnersShape
    <3>2. QED
      BY <1>0, <2>3, <3>1, HeldSame
  <2>4. QED
    BY <1>7, <2>2, <2>3 DEF Record
<1>8. ASSUME NEW f \in Files, claim_one(f)
      PROVE  /\ runner' \in [Runners -> RunnerType]
             /\ RunnersShape'
             /\ \A q \in Runners : Held(q)' \subseteq Held(q) \/ TakesRows(q)
  <2>1. runner[f].pc = "claim"
    BY <1>8 DEF claim_one
  <2>2. CASE TakesRows(f)
    BY <1>1, <1>5, <2>1, <2>2
  <2>3. CASE runner' = [runner EXCEPT ![f].pc = "idle"]
    <3>1. Goto(f, "idle")
      BY <2>3 DEF Goto
    <3>2. QED
      BY <1>4, <2>1, <3>1
  <2>4. QED
    BY <1>0, <1>8, <2>2, <2>3, OwnTakesRow
<1>9. ASSUME NEW l \in Loops, claim_batch(l)
      PROVE  /\ runner' \in [Runners -> RunnerType]
             /\ RunnersShape'
             /\ \A q \in Runners : Held(q)' \subseteq Held(q) \/ TakesRows(q)
  BY <1>0, <1>5, <1>9, BatchTakesRows DEF Runners
<1>10. ASSUME NEW r \in Runners, Verify(r)
       PROVE  /\ runner' \in [Runners -> RunnerType]
              /\ RunnersShape'
              /\ \A q \in Runners : Held(q)' \subseteq Held(q)
  <2>1. runner[r].work # <<>> /\ (Finish(r) \/ \E pc \in Working : Goto(r, pc))
    BY <1>10, VerifyMoves
  <2>2. runner[r].pc \notin {"idle", "claim"}
    BY <1>0, <2>1 DEF RunnersShape
  <2>3. CASE Finish(r)
    <3>1. /\ runner' \in [Runners -> RunnerType]
          /\ \A q \in Runners : q # r => runner'[q] = runner[q] /\ Held(q)' = Held(q)
          /\ runner'[r].pc \in {"idle", "inspect"}
          /\ runner'[r].pc = "idle" <=> runner'[r].work = <<>>
          /\ Held(r)' \subseteq Held(r)
      BY <1>0, <2>1, <2>3, FinishFacts
    <3>2. RunnersShape'
      BY <1>0, <1>1, <1>2, <2>2, <3>1 DEF RunnersShape
    <3>3. QED
      BY <3>1, <3>2
  <2>4. CASE \E pc \in Working : Goto(r, pc)
    <3>1. PICK pc \in Working : Goto(r, pc)
      BY <2>4
    <3>2. pc \in RunnerSteps /\ pc \notin {"idle", "claim"}
      BY DEF Working
    <3>3. /\ runner' \in [Runners -> RunnerType]
          /\ runner'[r] = [pc |-> pc, work |-> runner[r].work]
          /\ \A q \in Runners : q # r => runner'[q] = runner[q]
          /\ \A q \in Runners : Held(q)' = Held(q)
      BY <1>0, <3>1, <3>2, GotoFacts
    <3>4. runner'[r].pc = pc /\ runner'[r].work = runner[r].work
      BY <3>3
    <3>5. RunnersShape'
      BY <1>0, <1>1, <1>2, <2>1, <2>2, <3>2, <3>3, <3>4 DEF RunnersShape
    <3>6. QED
      BY <3>3, <3>5
  <2>5. QED
    BY <2>1, <2>3, <2>4
<1>11. ASSUME NEW r \in Runners, RunnerCrash(r)
       PROVE  /\ runner' \in [Runners -> RunnerType]
              /\ RunnersShape'
              /\ \A q \in Runners : Held(q)' \subseteq Held(q)
  <2> DEFINE none == [pc |-> "idle", work |-> <<>>]
  <2>1. none \in RunnerType
    BY DEF RunnerType, RunnerSteps
  <2>2. runner' = [runner EXCEPT ![r] = none]
    BY <1>11 DEF RunnerCrash
  <2>3. /\ runner' \in [Runners -> RunnerType]
        /\ runner'[r].pc = "idle" /\ runner'[r].work = <<>>
        /\ \A q \in Runners : q # r => runner'[q] = runner[q]
    BY <1>0, <2>1, <2>2
  <2>4. RunnersShape'
    BY <1>0, <1>1, <1>2, <2>3 DEF RunnersShape
  <2>5. Held(r)' = {}
    BY <2>3, EmptySeq DEF Held
  <2>6. QED
    BY <2>3, <2>4, <2>5, HeldSame
<1>12. QED
  BY <1>6, <1>7, <1>8, <1>9, <1>10, <1>11, NextSplits

LEMMA FaultsStep ==
    ASSUME TypeOK, Next
    PROVE  faults' \in 0..MaxFaults
<1>1. faults \in 0..MaxFaults /\ MaxFaults \in Nat
  BY UploadsAssumption DEF UploadsAssumption, TypeOK
<1>2. Smooth => faults' \in 0..MaxFaults
  BY <1>1 DEF Smooth
<1>3. \A kind : Fault(kind) => faults' \in 0..MaxFaults
  BY <1>1 DEF Fault
<1>4. CASE StillSteps
  BY <1>2, <1>3, <1>4 DEF StillSteps, Write, Discard, RequestCrash, ClaimExpires, RowAges, SweepObject,
       SweepRow, DeleteLoad, DeleteObject, DeleteRow, DeleterCrash, SweepRead, SweeperCrash
<1>5. CASE \E f \in Files : Record(f) \/ claim_one(f)
  BY <1>2, <1>3, <1>5 DEF Record, claim_one
<1>6. CASE \E l \in Loops : claim_batch(l)
  BY <1>2, <1>6 DEF claim_batch
<1>7. CASE \E r \in Runners : Verify(r) \/ RunnerCrash(r)
  BY <1>2, <1>3, <1>7 DEF Verify, Inspect, Promote, Commit, Undo, Refuse, CommitRefusal, Settle, RunnerCrash
<1>8. QED
  BY <1>4, <1>5, <1>6, <1>7, NextSplits

\* An outbox row is only ever added.
LEMMA EnqueueFacts ==
    ASSUME TypeOK, NEW f \in Files, NEW outcome \in Outcomes
    PROVE  /\ enqueue(f, outcome) \in [Files -> [Outcomes -> Nat]]
           /\ enqueue(f, outcome)[f][outcome] = events[f][outcome] + 1
           /\ \A o \in Outcomes : o # outcome => enqueue(f, outcome)[f][o] = events[f][o]
           /\ \A g \in Files : g # f => enqueue(f, outcome)[g] = events[g]
<1> DEFINE told == [events[f] EXCEPT ![outcome] = @ + 1]
<1>1. events \in [Files -> [Outcomes -> Nat]]
  BY DEF TypeOK
<1>2. enqueue(f, outcome) = [events EXCEPT ![f] = told]
  BY <1>1 DEF enqueue
<1>3. /\ told \in [Outcomes -> Nat]
      /\ told[outcome] = events[f][outcome] + 1
      /\ \A o \in Outcomes : o # outcome => told[o] = events[f][o]
  BY <1>1
<1> HIDE DEF told
<1>4. QED
  BY <1>1, <1>2, <1>3

\* What is true of the table, the objects and the events after each step of the
\* verification, whatever it is a part of.
LEMMA VerifyTypes ==
    ASSUME TypeInv, NEW r \in Runners, Verify(r)
    PROVE  /\ row' \in [Files -> Row]
           /\ quarantine' \in SUBSET Files /\ bucket' \in SUBSET Files
           /\ events' \in [Files -> [Outcomes -> Nat]]
<1>1. TypeOK /\ runner[r].work # <<>>
  BY VerifyMoves DEF TypeInv
<1>2. Current(r).file \in Files
  BY <1>1, CurrentIsHeld
<1>3. \A f \in Files : /\ mark_stored(f) \in [Files -> Row] /\ mark_rejected(f) \in [Files -> Row]
                       /\ release(f) \in [Files -> Row] /\ mark_failed(f) \in [Files -> Row]
  BY <1>1, MarkFacts DEF Marked
<1>4. \A f \in Files, o \in Outcomes : enqueue(f, o) \in [Files -> [Outcomes -> Nat]]
  BY <1>1, EnqueueFacts
<1>5. /\ row \in [Files -> Row] /\ quarantine \in SUBSET Files /\ bucket \in SUBSET Files
      /\ events \in [Files -> [Outcomes -> Nat]]
  BY <1>1 DEF TypeOK
<1>6. CASE Inspect(r)
  BY <1>5, <1>6 DEF Inspect, objects
<1>7. CASE Promote(r)
  BY <1>2, <1>5, <1>7 DEF Promote, objects
<1>8. CASE Commit(r)
  BY <1>2, <1>3, <1>4, <1>5, <1>8 DEF Commit, objects, Outcomes
<1>9. CASE Undo(r)
  BY <1>2, <1>5, <1>9 DEF Undo, objects
<1>10. CASE Refuse(r)
  BY <1>2, <1>5, <1>10 DEF Refuse, objects
<1>11. CASE CommitRefusal(r)
  BY <1>2, <1>3, <1>4, <1>5, <1>11 DEF CommitRefusal, objects, Outcomes
<1>12. CASE Settle(r)
  BY <1>2, <1>3, <1>5, <1>12 DEF Settle, objects
<1>13. QED
  BY <1>6, <1>7, <1>8, <1>9, <1>10, <1>11, <1>12 DEF Verify

LEMMA TypeStep ==
    ASSUME TypeInv, Next
    PROVE  TypeInv'
<1> DEFINE Rest == /\ row' \in [Files -> Row]
                   /\ quarantine' \in SUBSET Files /\ bucket' \in SUBSET Files
                   /\ events' \in [Files -> [Outcomes -> Nat]]
                   /\ request' \in [Files -> {"idle", "written", "unrecorded", "done"}]
                   /\ sweeper' \in [work: SUBSET Files, deleted: SUBSET Files]
                   /\ sweeper'.deleted \subseteq sweeper'.work
                   /\ deleter' \in [Files -> {"idle", "storage", "quarantine", "nothing", "removed"}]
                   /\ emptied' \in SUBSET Files
<1>1. /\ row \in [Files -> Row]
      /\ quarantine \in SUBSET Files /\ bucket \in SUBSET Files
      /\ events \in [Files -> [Outcomes -> Nat]]
      /\ request \in [Files -> {"idle", "written", "unrecorded", "done"}]
      /\ sweeper \in [work: SUBSET Files, deleted: SUBSET Files]
      /\ sweeper.deleted \subseteq sweeper.work
      /\ deleter \in [Files -> {"idle", "storage", "quarantine", "nothing", "removed"}]
      /\ emptied \in SUBSET Files
      /\ TypeOK
  BY DEF TypeInv, TypeOK, WorkShape
<1>2. ASSUME StillSteps PROVE Rest
  <2>1. ASSUME NEW f \in Files PROVE AbsentRow \in Row /\ row[f] \in Row
    BY <1>1, AbsentRowFacts
  <2>2. ASSUME NEW f \in Files,
               Write(f) \/ Discard(f) \/ RequestCrash(f) \/ DeleteLoad(f) \/ DeleteObject(f) \/ DeleterCrash(f)
        PROVE  Rest
    BY <1>1, <2>2 DEF Write, Discard, RequestCrash, DeleteLoad, DeleteObject, DeleterCrash, objects, deletions
  <2>3. ASSUME NEW f \in Files, ClaimExpires(f) PROVE Rest
    <3>1. [row[f] EXCEPT !.claim = "expired"] \in Row
      BY <2>1 DEF Row
    <3>2. row' = [row EXCEPT ![f] = [row[f] EXCEPT !.claim = "expired"]]
      BY <2>3 DEF ClaimExpires
    <3>3. row' \in [Files -> Row]
      BY <1>1, <3>1, <3>2
    <3>4. QED
      BY <1>1, <2>3, <3>3 DEF ClaimExpires, objects, deletions
  <2>4. ASSUME NEW f \in Files, RowAges(f) PROVE Rest
    <3>1. [row[f] EXCEPT !.old = TRUE] \in Row
      BY <2>1 DEF Row
    <3>2. row' = [row EXCEPT ![f] = [row[f] EXCEPT !.old = TRUE]]
      BY <2>4 DEF RowAges
    <3>3. row' \in [Files -> Row]
      BY <1>1, <3>1, <3>2
    <3>4. QED
      BY <1>1, <2>4, <3>3 DEF RowAges, objects, deletions
  <2>5. ASSUME NEW f \in Files, SweepObject(f) PROVE Rest
    <3>1. sweeper' \in [work: SUBSET Files, deleted: SUBSET Files] /\ sweeper'.deleted \subseteq sweeper'.work
      BY <1>1, <2>5 DEF SweepObject
    <3>2. QED
      BY <1>1, <2>5, <3>1 DEF SweepObject, objects, deletions
  <2>6. ASSUME NEW f \in Files, SweepRow(f) \/ DeleteRow(f) PROVE Rest
    <3>1. [row EXCEPT ![f] = AbsentRow] \in [Files -> Row]
      BY <1>1, <2>1
    <3>2. CASE SweepRow(f)
      <4>1. sweeper' \in [work: SUBSET Files, deleted: SUBSET Files] /\ sweeper'.deleted \subseteq sweeper'.work
        BY <1>1, <3>2 DEF SweepRow
      <4>2. QED
        BY <1>1, <3>1, <3>2, <4>1 DEF SweepRow, objects, deletions
    <3>3. CASE DeleteRow(f)
      BY <1>1, <3>1, <3>3 DEF DeleteRow, objects, deletions
    <3>4. QED
      BY <2>6, <3>2, <3>3
  <2>7. ASSUME SweepRead \/ SweeperCrash PROVE Rest
    <3>1. expired_quarantine \subseteq Files
      BY DEF expired_quarantine
    <3>2. QED
      BY <1>1, <2>7, <3>1 DEF SweepRead, SweeperCrash, objects, deletions
  <2>8. QED
    BY <1>2, <2>2, <2>3, <2>4, <2>5, <2>6, <2>7 DEF StillSteps
<1>3. ASSUME NEW f \in Files, Record(f) PROVE Rest
  <2>1. [row EXCEPT ![f] = ReceivedRow] \in [Files -> Row]
    BY <1>1, AbsentRowFacts
  <2>2. row' \in [Files -> Row]
    BY <1>1, <1>3, <2>1 DEF Record
  <2>3. QED
    BY <1>1, <1>3, <2>2 DEF Record, objects, deletions
<1>4. ASSUME NEW f \in Files, claim_one(f) PROVE Rest
  <2>1. row' \in [Files -> Row]
    BY <1>1, <1>4, OwnTakesRow DEF TakesRows
  <2>2. QED
    BY <1>1, <1>4, <2>1 DEF claim_one, objects, deletions
<1>5. ASSUME NEW l \in Loops, claim_batch(l) PROVE Rest
  <2>1. row' \in [Files -> Row]
    BY <1>1, <1>5, BatchTakesRows DEF TakesRows
  <2>2. QED
    BY <1>1, <1>5, <2>1 DEF claim_batch, objects, deletions
<1>6. ASSUME NEW r \in Runners, Verify(r) PROVE Rest
  <2>1. UNCHANGED <<request, sweeper, deletions>>
    BY <1>6 DEF Verify, Inspect, Promote, Commit, Undo, Refuse, CommitRefusal, Settle
  <2>2. QED
    BY <1>1, <1>6, <2>1, VerifyTypes DEF deletions
<1>7. ASSUME NEW r \in Runners, RunnerCrash(r) PROVE Rest
  BY <1>1, <1>7 DEF RunnerCrash, objects, deletions
<1> HIDE DEF Rest
<1>8. Rest
  BY <1>2, <1>3, <1>4, <1>5, <1>6, <1>7, NextSplits
<1>9. QED
  BY <1>1, <1>8, FaultsStep, RunnersStep DEF Rest, TypeInv, WorkShape, TypeOK, RunnerType

LEMMA TypeInit == Init => TypeInv
<1> SUFFICES ASSUME Init PROVE TypeInv
  OBVIOUS
<1>1. MaxFaults \in Nat
  BY UploadsAssumption DEF UploadsAssumption
<1>2. AbsentRow \in Row
  BY AbsentRowFacts
<1>3. <<>> \in Seq(Claim)
  BY EmptySeq
<1>4. TypeOK
  BY <1>1, <1>2, <1>3 DEF Init, TypeOK, Outcomes, RunnerSteps
<1>5. WorkShape
  BY FilesAreRunners DEF Init, WorkShape, RunnersShape
<1>6. QED
  BY <1>4, <1>5 DEF TypeInv

LEMMA StutterType == TypeInv /\ UNCHANGED vars => TypeInv'
BY DEF TypeInv, TypeOK, WorkShape, RunnersShape, vars, objects, deletions

LEMMA SpecTypeInv == Spec => []TypeInv
BY TypeInit, TypeStep, StutterType, PTL DEF Spec

\* Rows, objects, events, requests and runners have their types throughout: in
\* particular a runner never loses track of the batch it claimed (jobs.rs).
THEOREM TypeCorrect == Spec => []TypeOK
<1>1. TypeInv => TypeOK
  BY DEF TypeInv
<1>2. QED
  BY <1>1, SpecTypeInv, PTL

-----------------------------------------------------------------------------
(* A decision is told                                                      *)

\* Nobody but a runner, or the request, gives a row another status than none.
LEMMA StillRows ==
    ASSUME TypeInv, StillSteps, NEW f \in Files
    PROVE  /\ UNCHANGED events
           /\ row'[f].status \in {row[f].status, "absent"}
           /\ row'[f].claim = row[f].claim \/ row'[f].status = "absent" \/ ClaimExpires(f)
           /\ row'[f].old = row[f].old \/ row'[f].status = "absent" \/ RowAges(f)
<1>1. row \in [Files -> Row]
  BY DEF TypeInv, TypeOK
<1>2. UNCHANGED events
  BY DEF StillSteps, Write, Discard, RequestCrash, ClaimExpires, RowAges, SweepObject, SweepRow,
       DeleteLoad, DeleteObject, DeleteRow, DeleterCrash, SweepRead, SweeperCrash
<1>3. CASE UNCHANGED row
  BY <1>2, <1>3
<1>4. ASSUME NEW g \in Files, ClaimExpires(g)
      PROVE  /\ row'[f].status = row[f].status /\ row'[f].old = row[f].old
             /\ row'[f].claim = row[f].claim \/ g = f
  BY <1>1, <1>4 DEF ClaimExpires, Row
<1>5. ASSUME NEW g \in Files, RowAges(g)
      PROVE  /\ row'[f].status = row[f].status /\ row'[f].claim = row[f].claim
             /\ row'[f].old = row[f].old \/ g = f
  BY <1>1, <1>5 DEF RowAges, Row
<1>6. ASSUME NEW g \in Files, row' = [row EXCEPT ![g] = AbsentRow]
      PROVE  row'[f] = row[f] \/ row'[f].status = "absent"
  BY <1>1, <1>6, AbsentRowFacts
<1>7. \/ UNCHANGED row
      \/ \E g \in Files : \/ ClaimExpires(g) \/ RowAges(g)
                          \/ row' = [row EXCEPT ![g] = AbsentRow]
  BY DEF StillSteps, Write, Discard, RequestCrash, SweepObject, SweepRow,
       DeleteLoad, DeleteObject, DeleteRow, DeleterCrash, SweepRead, SweeperCrash
<1>8. QED
  BY <1>2, <1>3, <1>4, <1>5, <1>6, <1>7

\* The rows a claim leaves.
LEMMA TakenRows ==
    ASSUME TypeInv, NEW r, TakesRows(r), NEW f \in Files
    PROVE  \/ row'[f] = row[f] /\ f \notin Held(r)'
           \/ /\ f \in Outstanding /\ f \in Held(r)' /\ row'[f].status = "verifying"
              /\ row'[f].claim = "live" /\ row'[f].old = row[f].old
BY ClaimedRowFacts DEF TypeInv, TakesRows

\* The request and the claims.
LEMMA ArrivingRows ==
    ASSUME TypeInv, NEW f \in Files,
           \/ \E g \in Files : Record(g) \/ claim_one(g)
           \/ \E l \in Loops : claim_batch(l)
           \/ \E r \in Runners : RunnerCrash(r)
    PROVE  /\ UNCHANGED events
           /\ row'[f] = row[f] \/ row'[f].status \in {"received", "verifying"}
<1>1. TypeOK /\ row \in [Files -> Row]
  BY DEF TypeInv, TypeOK
<1>2. ASSUME NEW g \in Files, Record(g)
      PROVE  /\ UNCHANGED events
             /\ row'[f] = row[f] \/ row'[f].status = "received"
  BY <1>1, <1>2, AbsentRowFacts DEF Record
<1>3. ASSUME NEW g \in Files, claim_one(g)
      PROVE  /\ UNCHANGED events
             /\ row'[f] = row[f] \/ row'[f].status = "verifying"
  <2>1. UNCHANGED events
    BY <1>3 DEF claim_one
  <2>2. QED
    BY <1>1, <1>3, <2>1, OwnTakesRow, TakenRows
<1>4. ASSUME NEW l \in Loops, claim_batch(l)
      PROVE  /\ UNCHANGED events
             /\ row'[f] = row[f] \/ row'[f].status = "verifying"
  <2>1. UNCHANGED events
    BY <1>4 DEF claim_batch
  <2>2. QED
    BY <1>1, <1>4, <2>1, BatchTakesRows, TakenRows
<1>5. ASSUME NEW r \in Runners, RunnerCrash(r)
      PROVE  UNCHANGED <<events, row>>
  BY <1>5 DEF RunnerCrash
<1>6. QED
  BY <1>2, <1>3, <1>4, <1>5

\* The steps of a verification: the row it works on is left alone, decided together
\* with its event, or put back or given up on without one.
LEMMA VerifyRows ==
    ASSUME TypeInv, NEW r \in Runners, Verify(r)
    PROVE  LET f == Current(r).file
           IN \/ UNCHANGED <<row, events>>
              \/ /\ runner[r].pc = "commit"
                 /\ Marked(f, row', "stored") /\ events' = enqueue(f, "stored")
              \/ /\ runner[r].pc = "reject"
                 /\ Marked(f, row', "rejected") /\ events' = enqueue(f, "rejected")
              \/ /\ UNCHANGED events
                 /\ Marked(f, row', "received") \/ Marked(f, row', "failed")
<1>1. TypeOK /\ Current(r).file \in Files
  BY VerifyMoves, CurrentIsHeld DEF TypeInv
<1>2. LET f == Current(r).file
      IN /\ Marked(f, mark_stored(f), "stored") /\ Marked(f, mark_rejected(f), "rejected")
         /\ Marked(f, mark_failed(f), "failed") /\ Marked(f, release(f), "received")
  BY <1>1, MarkFacts
<1>3. CASE Inspect(r) \/ Promote(r) \/ Undo(r) \/ Refuse(r)
  BY <1>3 DEF Inspect, Promote, Undo, Refuse
<1>4. CASE Commit(r)
  BY <1>2, <1>4 DEF Commit
<1>5. CASE CommitRefusal(r)
  BY <1>2, <1>5 DEF CommitRefusal
<1>6. CASE Settle(r)
  BY <1>2, <1>6 DEF Settle
<1>7. QED
  BY <1>3, <1>4, <1>5, <1>6 DEF Verify

LEMMA DecidedStep ==
    ASSUME TypeInv, DecidedIsTold, Next
    PROVE  DecidedIsTold'
<1>1. TypeOK /\ events \in [Files -> [Outcomes -> Nat]]
  BY DEF TypeInv, TypeOK
<1>2. ASSUME NEW g \in Files, NEW o \in Outcomes, row'[g].status = o
      PROVE  events'[g][o] > 0
  <2>1. CASE StillSteps
    BY <1>2, <2>1, StillRows DEF DecidedIsTold, Outcomes
  <2>2. CASE \/ \E f \in Files : Record(f) \/ claim_one(f)
             \/ \E l \in Loops : claim_batch(l)
             \/ \E r \in Runners : RunnerCrash(r)
    BY <1>2, <2>2, ArrivingRows DEF DecidedIsTold, Outcomes
  <2>3. ASSUME NEW r \in Runners, Verify(r) PROVE events'[g][o] > 0
    <3> DEFINE f == Current(r).file
    <3>1. f \in Files
      BY <1>1, <2>3, VerifyMoves, CurrentIsHeld
    <3>2. CASE UNCHANGED <<row, events>>
      BY <1>2, <3>2 DEF DecidedIsTold
    <3>3. ASSUME NEW outcome \in Outcomes,
                 Marked(f, row', outcome), events' = enqueue(f, outcome)
          PROVE  events'[g][o] > 0
      <4>1. /\ events'[f][outcome] = events[f][outcome] + 1
            /\ \A x \in Outcomes : x # outcome => events'[f][x] = events[f][x]
            /\ \A h \in Files : h # f => events'[h] = events[h]
        BY <1>1, <3>1, <3>3, EnqueueFacts
      <4>2. events[f][outcome] \in Nat
        BY <1>1, <3>1
      <4>3. row'[g] = row[g] \/ (g = f /\ row'[g].status = outcome)
        BY <3>1, <3>3 DEF Marked
      <4>4. CASE g = f /\ o = outcome
        BY <4>1, <4>2, <4>4
      <4>5. CASE ~(g = f /\ o = outcome)
        <5>1. row[g].status = o
          BY <1>2, <4>3, <4>5
        <5>2. events'[g][o] = events[g][o]
          BY <4>1, <4>5
        <5>3. QED
          BY <5>1, <5>2 DEF DecidedIsTold
      <4>6. QED
        BY <4>4, <4>5
    <3>4. ASSUME UNCHANGED events, Marked(f, row', "received") \/ Marked(f, row', "failed")
          PROVE  events'[g][o] > 0
      <4>1. row[g].status = o
        BY <1>2, <3>1, <3>4 DEF Marked, Outcomes
      <4>2. QED
        BY <3>4, <4>1 DEF DecidedIsTold
    <3>5. "stored" \in Outcomes /\ "rejected" \in Outcomes
      BY DEF Outcomes
    <3> HIDE DEF f
    <3>6. QED
      BY <2>3, <3>2, <3>3, <3>4, <3>5, VerifyRows DEF f
  <2>4. QED
    BY <2>1, <2>2, <2>3, NextSplits
<1>3. QED
  BY <1>2 DEF DecidedIsTold

\* A decision is never silent (verify.rs, rule two): whatever fails, overlaps, is
\* late or loses its acknowledgement, a row that says how its upload ended has an
\* event that said so.
THEOREM DecisionsTold == Spec => []DecidedIsTold
<1>1. Init => DecidedIsTold
  BY AbsentRowFacts DEF Init, DecidedIsTold, Outcomes
<1>2. TypeInv /\ DecidedIsTold /\ [Next]_vars => DecidedIsTold'
  BY DecidedStep DEF DecidedIsTold, vars
<1>3. QED
  BY <1>1, <1>2, SpecTypeInv, PTL DEF Spec

-----------------------------------------------------------------------------
(* The bytes of an acceptable file                                         *)

\* What only a recorded upload has: a row, a runner, a deletion or a sweep.
InUse(f) ==
    \/ row[f].status # "absent"
    \/ \E r \in Runners : f \in Held(r)
    \/ deleter[f] # "idle"
    \/ f \in sweeper.work

\* It needs acknowledged commits: an insert that only seemed to fail leaves a row
\* whose request goes on to discard the bytes.
Recorded == \A f \in Files : InUse(f) => request[f] = "done"

\* A row appears only when its request records it.
LEMMA RowAppears ==
    ASSUME TypeInv, Next, "lost_ack" \notin Hazards, NEW f \in Files,
           row[f].status = "absent", row'[f].status # "absent"
    PROVE  Record(f) /\ request'[f] = "done"
<1>1. TypeOK /\ row \in [Files -> Row] /\ request \in [Files -> {"idle", "written", "unrecorded", "done"}]
  BY DEF TypeInv, TypeOK
<1>2. ~StillSteps
  BY StillRows
<1>3. \A r : ~TakesRows(r)
  BY TakenRows DEF Outstanding
<1>4. \A l \in Loops : ~claim_batch(l)
  BY <1>1, <1>3, BatchTakesRows
<1>5. \A g \in Files : ~claim_one(g)
  BY <1>1, <1>3, OwnTakesRow
<1>6. \A r \in Runners : ~RunnerCrash(r)
  BY DEF RunnerCrash
<1>7. ASSUME NEW r \in Runners, Verify(r) PROVE FALSE
  <2>1. Current(r).file \in Files
    BY <1>1, <1>7, VerifyMoves, CurrentIsHeld
  <2>2. row'[f] = row[f]
    BY <1>7, <2>1, VerifyRows DEF Marked
  <2>3. QED
    BY <2>2
<1>8. PICK g \in Files : Record(g)
  BY <1>2, <1>4, <1>5, <1>6, <1>7, NextSplits
<1>9. ~Fault("lost_ack")
  BY DEF Fault
<1>10. row' = [row EXCEPT ![g] = ReceivedRow] /\ request' = [request EXCEPT ![g] = "done"]
  BY <1>8, <1>9 DEF Record
<1>11. g = f
  BY <1>1, <1>10
<1>12. QED
  BY <1>1, <1>8, <1>10, <1>11

\* A deletion starts from a row, and so does a sweep.
LEMMA CollectorsStep ==
    ASSUME TypeInv, Next, NEW f \in Files
    PROVE  /\ deleter'[f] # "idle" => deleter[f] # "idle" \/ DeleteLoad(f)
           /\ f \in sweeper'.work => f \in sweeper.work \/ SweepRead
<1>1. /\ deleter \in [Files -> {"idle", "storage", "quarantine", "nothing", "removed"}]
      /\ sweeper \in [work: SUBSET Files, deleted: SUBSET Files]
  BY DEF TypeInv, TypeOK
<1>2. CASE StillSteps
  <2>1. CASE UNCHANGED <<deleter, sweeper>>
    BY <2>1
  <2>2. CASE SweepRead
    BY <2>2 DEF SweepRead, deletions
  <2>3. CASE SweeperCrash
    BY <1>1, <2>3 DEF SweeperCrash, deletions
  <2>4. ASSUME NEW g \in Files, SweepObject(g) \/ SweepRow(g)
        PROVE  UNCHANGED deleter /\ (f \in sweeper'.work => f \in sweeper.work)
    BY <1>1, <2>4 DEF SweepObject, SweepRow, deletions
  <2>5. ASSUME NEW g \in Files, DeleteLoad(g) \/ DeleteObject(g) \/ DeleteRow(g) \/ DeleterCrash(g)
        PROVE  UNCHANGED sweeper /\ (deleter'[f] # "idle" => deleter[f] # "idle" \/ DeleteLoad(f))
    BY <1>1, <2>5 DEF DeleteLoad, DeleteObject, DeleteRow, DeleterCrash
  <2>6. ASSUME NEW g \in Files, Write(g) \/ Discard(g) \/ RequestCrash(g) \/ ClaimExpires(g) \/ RowAges(g)
        PROVE  UNCHANGED <<deleter, sweeper>>
    BY <2>6 DEF Write, Discard, RequestCrash, ClaimExpires, RowAges, deletions
  <2>7. QED
    BY <1>2, <2>1, <2>2, <2>3, <2>4, <2>5, <2>6 DEF StillSteps
<1>3. CASE \E g \in Files : Record(g) \/ claim_one(g)
  BY <1>3 DEF Record, claim_one, deletions
<1>4. CASE \E l \in Loops : claim_batch(l)
  BY <1>4 DEF claim_batch, deletions
<1>5. CASE \E r \in Runners : Verify(r) \/ RunnerCrash(r)
  BY <1>5 DEF Verify, Inspect, Promote, Commit, Undo, Refuse, CommitRefusal, Settle, RunnerCrash, deletions
<1>6. QED
  BY <1>2, <1>3, <1>4, <1>5, NextSplits

LEMMA RecordedStep ==
    ASSUME TypeInv, Recorded, Next, "lost_ack" \notin Hazards
    PROVE  Recorded'
<1>1. ASSUME NEW f \in Files, InUse(f)', ~InUse(f)
      PROVE  request'[f] = "done"
  <2>1. /\ row[f].status = "absent" /\ deleter[f] = "idle" /\ f \notin sweeper.work
        /\ \A r \in Runners : f \notin Held(r)
    BY <1>1 DEF InUse
  <2>2. \A r \in Runners : f \notin Held(r)'
    <3>1. f \notin Outstanding
      BY <2>1 DEF Outstanding
    <3>2. QED
      BY <2>1, <3>1, RunnersStep DEF TakesRows
  <2>3. deleter'[f] = "idle"
    <3>1. ~DeleteLoad(f)
      BY <2>1 DEF DeleteLoad, Undecided, Terminal
    <3>2. QED
      BY <2>1, <3>1, CollectorsStep
  <2>4. f \notin sweeper'.work
    <3>1. f \notin expired_quarantine
      BY <2>1 DEF expired_quarantine
    <3>2. SweepRead => f \notin sweeper'.work
      BY <3>1 DEF SweepRead
    <3>3. QED
      BY <2>1, <3>2, CollectorsStep
  <2>5. row'[f].status # "absent"
    BY <1>1, <2>2, <2>3, <2>4 DEF InUse
  <2>6. QED
    BY <2>1, <2>5, RowAppears
<1>2. ASSUME NEW f \in Files, InUse(f)', InUse(f)
      PROVE  request'[f] = "done"
  BY <1>2, RequestsStep DEF Recorded, TypeInv
<1>3. QED
  BY <1>1, <1>2 DEF Recorded

\* Where a runner has got to, when it is not where it was.
LEMMA PlacesStep ==
    ASSUME TypeInv, Next, NEW q \in Runners
    PROVE  \/ runner'[q] = runner[q]
           \/ runner'[q].pc \in {"idle", "claim", "inspect"}
           \/ Verify(q) /\ runner[q].work # <<>> /\ \E pc \in Working : Goto(q, pc)
<1>1. TypeOK /\ runner \in [Runners -> RunnerType]
  BY DEF TypeInv, TypeOK, RunnerType
<1>2. CASE StillSteps
  BY <1>2, StillFrame
<1>3. ASSUME NEW r, TakesRows(r)
      PROVE  runner'[q] = runner[q] \/ runner'[q].pc = "inspect"
  BY <1>3 DEF TakesRows
<1>4. ASSUME NEW f \in Files, NEW pc \in {"idle", "claim"}, runner' = [runner EXCEPT ![f].pc = pc]
      PROVE  runner'[q] = runner[q] \/ runner'[q].pc \in {"idle", "claim"}
  BY <1>1, <1>4, FilesAreRunners DEF RunnerType
<1>5. ASSUME NEW f \in Files, Record(f) \/ claim_one(f)
      PROVE  runner'[q] = runner[q] \/ runner'[q].pc \in {"idle", "claim", "inspect"}
  <2>1. CASE Record(f)
    BY <1>4, <2>1 DEF Record
  <2>2. CASE claim_one(f)
    BY <1>1, <1>3, <1>4, <2>2, OwnTakesRow
  <2>3. QED
    BY <1>5, <2>1, <2>2
<1>6. ASSUME NEW l \in Loops, claim_batch(l)
      PROVE  runner'[q] = runner[q] \/ runner'[q].pc = "inspect"
  BY <1>1, <1>3, <1>6, BatchTakesRows
<1>7. ASSUME NEW r \in Runners, RunnerCrash(r)
      PROVE  runner'[q] = runner[q] \/ runner'[q].pc = "idle"
  BY <1>1, <1>7 DEF RunnerCrash
<1>8. ASSUME NEW r \in Runners, Verify(r)
      PROVE  \/ runner'[q] = runner[q]
             \/ runner'[q].pc \in {"idle", "inspect"}
             \/ Verify(q) /\ runner[q].work # <<>> /\ \E pc \in Working : Goto(q, pc)
  <2>1. runner[r].work # <<>> /\ (Finish(r) \/ \E pc \in Working : Goto(r, pc))
    BY <1>8, VerifyMoves
  <2>2. CASE Finish(r)
    BY <1>1, <2>1, <2>2, FinishFacts
  <2>3. CASE \E pc \in Working : Goto(r, pc)
    <3>1. q # r => runner'[q] = runner[q]
      BY <1>1, <2>3 DEF Goto
    <3>2. QED
      BY <1>8, <2>1, <2>3, <3>1
  <2>4. QED
    BY <2>1, <2>2, <2>3
<1>9. QED
  BY <1>2, <1>5, <1>6, <1>7, <1>8, NextSplits

\* Only the inspection sends a runner to refuse, and only a promotion to commit.
LEMMA RefusesAfterInspecting ==
    ASSUME TypeInv, Next, NEW q \in Runners, runner'[q] # runner[q], runner'[q].pc = "refuse"
    PROVE  Current(q)' = Current(q) /\ Current(q).file \notin Acceptable
<1>1. TypeOK /\ Verify(q) /\ runner[q].work # <<>> /\ \E pc \in Working : Goto(q, pc)
  BY PlacesStep DEF TypeInv
<1>2. PICK pc \in Working : Goto(q, pc)
  BY <1>1
<1>3. pc \in RunnerSteps
  BY DEF Working
<1>4. runner'[q] = [pc |-> pc, work |-> runner[q].work] /\ Current(q)' = Current(q)
  BY <1>1, <1>2, <1>3, GotoFacts
<1>5. \A place : Goto(q, place) => runner'[q].pc = place
  BY <1>1 DEF Goto, TypeOK
<1>6. \/ /\ Inspect(q) /\ Current(q).file \notin Acceptable
      \/ Finish(q)
  BY <1>1, <1>5 DEF Verify, Inspect, Promote, Commit, Undo, Refuse, CommitRefusal, Settle
<1>7. ~Finish(q)
  BY <1>1, FinishFacts
<1>8. QED
  BY <1>4, <1>6, <1>7

\* Which steps take bytes away.
LEMMA BytesGo ==
    ASSUME TypeInv, Next, NEW f \in Files, f \in quarantine \cup bucket
    PROVE  \/ f \in quarantine' \cup bucket'
           \/ Discard(f)
           \/ \E r \in Runners : Refuse(r) /\ Current(r).file = f
           \/ SweepObject(f)
           \/ DeleteObject(f)
<1>1. CASE UNCHANGED objects
  BY <1>1 DEF objects
<1>2. CASE StillSteps
  <2>1. ASSUME NEW g \in Files, Write(g) \/ Discard(g) \/ SweepObject(g) \/ DeleteObject(g)
        PROVE  \/ f \in quarantine' \cup bucket'
               \/ g = f /\ (Discard(f) \/ SweepObject(f) \/ DeleteObject(f))
    BY <2>1 DEF Write, Discard, SweepObject, DeleteObject, objects
  <2>2. \/ \E g \in Files : Write(g) \/ Discard(g) \/ SweepObject(g) \/ DeleteObject(g)
        \/ UNCHANGED objects
    BY <1>2 DEF StillSteps, RequestCrash, ClaimExpires, RowAges, SweepRow, DeleteLoad, DeleteRow,
         DeleterCrash, SweepRead, SweeperCrash, objects
  <2>3. QED
    BY <1>1, <2>1, <2>2
<1>3. CASE \E g \in Files : Record(g) \/ claim_one(g)
  BY <1>1, <1>3 DEF Record, claim_one
<1>4. CASE \E l \in Loops : claim_batch(l)
  BY <1>1, <1>4 DEF claim_batch
<1>5. ASSUME NEW r \in Runners, Verify(r) \/ RunnerCrash(r)
      PROVE  f \in quarantine' \cup bucket' \/ (Refuse(r) /\ Current(r).file = f)
  <2>1. CASE Promote(r)
    BY <2>1 DEF Promote, objects
  <2>2. CASE Undo(r)
    BY <2>2 DEF Undo, objects
  <2>3. CASE Refuse(r)
    BY <2>3 DEF Refuse, objects
  <2>4. CASE UNCHANGED objects
    BY <2>4 DEF objects
  <2>5. QED
    BY <1>5, <2>1, <2>2, <2>3, <2>4
      DEF Verify, Inspect, Commit, CommitRefusal, Settle, RunnerCrash, objects
<1>6. QED
  BY <1>2, <1>3, <1>4, <1>5, NextSplits

\* What is swept has outlived its TTL, what is refused is not acceptable, and what
\* has been written is there to be recorded.
BytesOK ==
    /\ \A f \in Files : request[f] = "written" => f \in quarantine
    /\ \A f \in sweeper.work : row[f].status = "absent" \/ row[f].old
    /\ \A r \in Runners : runner[r].pc = "refuse" => Current(r).file \notin Acceptable
    /\ AcceptedNeverLost

\* A row keeps its age.
LEMMA OldStaysOld ==
    ASSUME TypeInv, Next, NEW f \in Files, row[f].old, row[f].status # "absent"
    PROVE  row'[f].old \/ row'[f].status = "absent" \/ Record(f)
<1>1. TypeOK /\ row \in [Files -> Row]
  BY DEF TypeInv, TypeOK
<1>2. CASE StillSteps
  BY <1>2, StillRows DEF RowAges
<1>3. ASSUME NEW r, TakesRows(r) PROVE row'[f].old
  BY <1>3, TakenRows
<1>4. ASSUME NEW g \in Files, Record(g) PROVE row'[f].old \/ Record(f)
  BY <1>1, <1>4 DEF Record
<1>5. ASSUME NEW g \in Files, claim_one(g) PROVE row'[f].old
  BY <1>1, <1>3, <1>5, OwnTakesRow
<1>6. ASSUME NEW l \in Loops, claim_batch(l) PROVE row'[f].old
  BY <1>1, <1>3, <1>6, BatchTakesRows
<1>7. ASSUME NEW r \in Runners, Verify(r) PROVE row'[f].old
  <2>1. Current(r).file \in Files
    BY <1>1, <1>7, VerifyMoves, CurrentIsHeld
  <2>2. CASE UNCHANGED row
    BY <2>2
  <2>3. ASSUME NEW status, Marked(Current(r).file, row', status) PROVE row'[f].old
    BY <2>1, <2>3 DEF Marked
  <2>4. QED
    BY <1>7, <2>2, <2>3, VerifyRows
<1>8. ASSUME NEW r \in Runners, RunnerCrash(r) PROVE row'[f].old
  BY <1>8 DEF RunnerCrash
<1>9. QED
  BY <1>2, <1>4, <1>5, <1>6, <1>7, <1>8, NextSplits

LEMMA BytesStep ==
    ASSUME TypeInv, Recorded, BytesOK, Next, "lost_ack" \notin Hazards
    PROVE  BytesOK'
<1>1. /\ TypeOK
      /\ request \in [Files -> {"idle", "written", "unrecorded", "done"}]
      /\ sweeper.work \subseteq Files /\ sweeper.deleted \subseteq sweeper.work
  BY DEF TypeInv, TypeOK, WorkShape
<1>2. \A f \in Files : request[f] # "done" => ~InUse(f)
  BY DEF Recorded
<1>3. ASSUME NEW f \in Files, Record(f) PROVE row[f].status = "absent"
  BY <1>2, <1>3 DEF Record, InUse
<1>4. ASSUME NEW f \in Files, request'[f] = "written"
      PROVE  f \in quarantine'
  <2>1. CASE request[f] = "written"
    <3>1. f \in quarantine /\ ~InUse(f)
      BY <1>2, <2>1 DEF BytesOK
    <3>2. \A r \in Runners : Verify(r) => Current(r).file # f
      BY <1>1, <3>1, VerifyMoves, CurrentIsHeld DEF InUse
    <3>3. f \notin sweeper.work /\ deleter[f] = "idle" /\ ~Discard(f)
      BY <2>1, <3>1 DEF InUse, Discard
    <3>4. ~SweepObject(f) /\ ~DeleteObject(f)
      BY <3>3 DEF SweepObject, DeleteObject
    <3>5. CASE StillSteps
      <4>1. ASSUME NEW g \in Files,
                   Write(g) \/ Discard(g) \/ SweepObject(g) \/ DeleteObject(g)
            PROVE  f \in quarantine'
        BY <3>1, <3>3, <3>4, <4>1 DEF Write, Discard, SweepObject, DeleteObject, objects
      <4>2. \/ \E g \in Files : Write(g) \/ Discard(g) \/ SweepObject(g) \/ DeleteObject(g)
            \/ UNCHANGED quarantine
        BY <3>5 DEF StillSteps, RequestCrash, ClaimExpires, RowAges, SweepRow, DeleteLoad, DeleteRow,
             DeleterCrash, SweepRead, SweeperCrash, objects
      <4>3. QED
        BY <3>1, <4>1, <4>2
    <3>6. CASE \/ \E g \in Files : Record(g) \/ claim_one(g)
               \/ \E l \in Loops : claim_batch(l)
               \/ \E r \in Runners : RunnerCrash(r)
      BY <3>1, <3>6 DEF Record, claim_one, claim_batch, RunnerCrash, objects
    <3>7. ASSUME NEW r \in Runners, Verify(r) PROVE f \in quarantine'
      BY <3>1, <3>2, <3>7
        DEF Verify, Inspect, Promote, Commit, Undo, Refuse, CommitRefusal, Settle, objects
    <3>8. QED
      BY <3>5, <3>6, <3>7, NextSplits
  <2>2. CASE request[f] # "written"
    <3>1. ASSUME NEW g \in Files, request'[g] = "written", request[g] # "written"
          PROVE  Write(g)
      <4>1. CASE StillSteps
        BY <1>1, <3>1, <4>1 DEF StillSteps, Write, Discard, RequestCrash, ClaimExpires, RowAges,
             SweepObject, SweepRow, DeleteLoad, DeleteObject, DeleteRow, DeleterCrash, SweepRead, SweeperCrash
      <4>2. CASE \E h \in Files : Record(h)
        BY <1>1, <3>1, <4>2 DEF Record
      <4>3. CASE UNCHANGED request
        BY <3>1, <4>3
      <4>4. QED
        BY <4>1, <4>2, <4>3, NextSplits DEF claim_one, claim_batch, Verify, Inspect, Promote, Commit,
             Undo, Refuse, CommitRefusal, Settle, RunnerCrash
    <3>2. Write(f)
      BY <1>4, <2>2, <3>1
    <3>3. QED
      BY <3>2 DEF Write
  <2>3. QED
    BY <2>1, <2>2
<1>5. ASSUME NEW f \in sweeper'.work
      PROVE  row'[f].status = "absent" \/ row'[f].old
  <2>1. TypeOK'
    BY TypeStep DEF TypeInv
  <2>2. f \in Files
    BY <2>1 DEF TypeOK
  <2>3. CASE f \in sweeper.work
    <3>1. row[f].status = "absent" \/ row[f].old
      BY <2>3 DEF BytesOK
    <3>2. InUse(f) /\ request[f] = "done"
      BY <2>2, <2>3 DEF InUse, Recorded
    <3>3. ~Record(f)
      BY <3>2 DEF Record
    <3>4. CASE row[f].status = "absent"
      BY <2>2, <3>3, <3>4, RowAppears
    <3>5. CASE row[f].status # "absent"
      BY <2>2, <3>1, <3>3, <3>5, OldStaysOld
    <3>6. QED
      BY <3>4, <3>5
  <2>4. CASE f \notin sweeper.work
    <3>1. SweepRead
      BY <1>5, <2>2, <2>4, CollectorsStep
    <3>2. QED
      BY <1>5, <3>1 DEF SweepRead, expired_quarantine
  <2>5. QED
    BY <2>3, <2>4
<1>6. ASSUME NEW r \in Runners, runner'[r].pc = "refuse"
      PROVE  Current(r)'.file \notin Acceptable
  <2>1. CASE runner'[r] = runner[r]
    BY <1>6, <2>1 DEF BytesOK, Current
  <2>2. CASE runner'[r] # runner[r]
    BY <1>6, <2>2, RefusesAfterInspecting
  <2>3. QED
    BY <2>1, <2>2
<1>7. ASSUME NEW f \in Acceptable, row'[f].status # "absent", ~row'[f].old, f \notin emptied'
      PROVE  f \in quarantine' \cup bucket'
  <2>1. f \in Files /\ emptied \subseteq emptied'
    <3>1. f \in Files
      BY UploadsAssumption DEF UploadsAssumption
    <3>2. emptied \subseteq emptied'
      BY NextSplits DEF StillSteps, Write, Record, Discard, RequestCrash, claim_one, claim_batch, ClaimExpires,
         RowAges, SweepObject, SweepRow, DeleteLoad, DeleteObject, DeleteRow, DeleterCrash, SweepRead,
         SweeperCrash, Verify, Inspect, Promote, Commit, Undo, Refuse, CommitRefusal, Settle,
         RunnerCrash, deletions
    <3>3. QED
      BY <3>1, <3>2
  <2>2. CASE Record(f)
    <3>1. f \in quarantine
      BY <2>1, <2>2 DEF Record, BytesOK
    <3>2. QED
      BY <2>2, <3>1 DEF Record, objects
  <2>3. CASE ~Record(f)
    <3>1. row[f].status # "absent"
      BY <1>7, <2>1, <2>3, RowAppears
    <3>2. ~row[f].old
      BY <1>7, <2>1, <2>3, <3>1, OldStaysOld
    <3>3. f \in quarantine \cup bucket
      BY <1>7, <2>1, <3>1, <3>2 DEF BytesOK, AcceptedNeverLost
    <3>4. ~Discard(f)
      BY <1>2, <2>1, <3>1 DEF Discard, InUse
    <3>5. \A r \in Runners : Refuse(r) => Current(r).file # f
      BY <1>7 DEF Refuse, BytesOK
    <3>6. ~SweepObject(f)
      BY <3>1, <3>2 DEF SweepObject, BytesOK
    <3>7. ~DeleteObject(f)
      BY <1>7 DEF DeleteObject
    <3>8. QED
      BY <2>1, <3>3, <3>4, <3>5, <3>6, <3>7, BytesGo
  <2>4. QED
    BY <2>2, <2>3
<1>8. QED
  BY <1>4, <1>5, <1>6, <1>7 DEF BytesOK, AcceptedNeverLost

LEMMA BytesInit == Init => Recorded /\ BytesOK
<1> SUFFICES ASSUME Init PROVE Recorded /\ BytesOK
  OBVIOUS
<1>1. \A f \in Files : row[f].status = "absent" /\ request[f] = "idle" /\ deleter[f] = "idle"
  BY AbsentRowFacts DEF Init
<1>2. \A r \in Runners : Held(r) = {} /\ runner[r].pc = "idle"
  BY NothingHeld DEF Init
<1>3. sweeper.work = {}
  BY DEF Init
<1>4. Acceptable \subseteq Files
  BY UploadsAssumption DEF UploadsAssumption
<1>5. QED
  BY <1>1, <1>2, <1>3, <1>4 DEF Recorded, InUse, BytesOK, AcceptedNeverLost

LEMMA BytesStutter == Recorded /\ BytesOK /\ UNCHANGED vars => Recorded' /\ BytesOK'
BY DEF Recorded, InUse, Held, Current, BytesOK, AcceptedNeverLost, vars, objects, deletions

LEMMA SpecBytes ==
    ASSUME "lost_ack" \notin Hazards
    PROVE  Spec => [](TypeInv /\ Recorded /\ BytesOK)
<1>1. Init => Recorded /\ BytesOK
  BY BytesInit
<1>2. TypeInv /\ Recorded /\ BytesOK /\ [Next]_vars => Recorded' /\ BytesOK'
  BY RecordedStep, BytesStep, BytesStutter
<1>3. QED
  BY <1>1, <1>2, SpecTypeInv, PTL DEF Spec

\* Rule one of verify.rs from the side of the bytes: with crashes, failing calls,
\* overlapping runners, early deletions and late rows, any number of them, the bytes
\* of an acceptable file stay in quarantine or in the bucket until the row outlives
\* the TTL or a deletion takes them.  Commits must be acknowledged: an insert whose
\* acknowledgement is lost is followed by upload::discard.
THEOREM AcceptedBytesKept ==
    ASSUME "lost_ack" \notin Hazards
    PROVE  Spec => []AcceptedNeverLost
<1>1. BytesOK => AcceptedNeverLost
  BY DEF BytesOK
<1>2. QED
  BY <1>1, SpecBytes, PTL

-----------------------------------------------------------------------------
(* One runner to a row                                                     *)

\* A file is in the batch of one runner, once, and its row is verifying under a
\* claim that has not expired, or gone.  It needs a claim timeout that no runner
\* outlives.
Alone ==
    /\ \A r \in Runners : Distinct(r)
    /\ \A r, q \in Runners : r # q => Held(r) \cap Held(q) = {}
    /\ \A r \in Runners : \A f \in Held(r) :
         row[f].status # "absent" => row[f].status = "verifying" /\ row[f].claim = "live"

\* Nothing has been announced of an upload that is not recorded, and of a row what
\* it says.
Told ==
    /\ \A f \in Files : request[f] # "done" => \A o \in Outcomes : events[f][o] = 0
    /\ ToldIffDecided

\* The object has moved before the row says so.
Moved ==
    /\ \A r \in Runners : runner[r].pc = "commit" => Current(r).file \in bucket \cup emptied
    /\ StoredHasBytes

\* The work of one runner at most changes.
LEMMA WorkStep ==
    ASSUME TypeInv, Next, NEW q \in Runners
    PROVE  \/ runner'[q].work = runner[q].work /\ Held(q)' = Held(q)
           \/ runner'[q].work = <<>> /\ Held(q)' = {}
           \/ TakesRows(q)
           \/ runner[q].work # <<>> /\ Finish(q)
<1>1. TypeOK /\ runner \in [Runners -> RunnerType]
  BY DEF TypeInv, TypeOK, RunnerType
<1>2. CASE runner'[q].work = runner[q].work
  BY <1>2, HeldSame
<1>3. CASE runner'[q].work = <<>>
  <2>1. Held(q)' = {}
    BY <1>3, EmptySeq DEF Held
  <2>2. QED
    BY <1>3, <2>1
<1>4. CASE StillSteps
  BY <1>2, <1>4, StillFrame
<1>5. ASSUME NEW r, TakesRows(r)
      PROVE  runner'[q] = runner[q] \/ TakesRows(q)
  BY <1>5 DEF TakesRows
<1>6. ASSUME NEW f \in Files, NEW pc \in {"idle", "claim"}, runner' = [runner EXCEPT ![f].pc = pc]
      PROVE  runner'[q].work = runner[q].work
  BY <1>1, <1>6, FilesAreRunners DEF RunnerType
<1>7. ASSUME NEW f \in Files, Record(f) \/ claim_one(f)
      PROVE  runner'[q].work = runner[q].work \/ TakesRows(q)
  <2>1. CASE Record(f)
    BY <1>6, <2>1 DEF Record
  <2>2. CASE claim_one(f)
    BY <1>1, <1>5, <1>6, <2>2, OwnTakesRow
  <2>3. QED
    BY <1>7, <2>1, <2>2
<1>8. ASSUME NEW l \in Loops, claim_batch(l)
      PROVE  runner'[q] = runner[q] \/ TakesRows(q)
  BY <1>1, <1>5, <1>8, BatchTakesRows
<1>9. ASSUME NEW r \in Runners, RunnerCrash(r)
      PROVE  runner'[q] = runner[q] \/ runner'[q].work = <<>>
  BY <1>1, <1>9 DEF RunnerCrash
<1>10. ASSUME NEW r \in Runners, Verify(r)
       PROVE  runner'[q].work = runner[q].work \/ (runner[q].work # <<>> /\ Finish(q))
  <2>1. runner[r].work # <<>> /\ (Finish(r) \/ \E pc \in Working : Goto(r, pc))
    BY <1>10, VerifyMoves
  <2>2. CASE Finish(r)
    BY <1>1, <2>1, <2>2, FinishFacts
  <2>3. CASE \E pc \in Working : Goto(r, pc)
    BY <1>1, <2>3, GotoFacts DEF Working
  <2>4. QED
    BY <2>1, <2>2, <2>3
<1>11. QED
  BY <1>2, <1>3, <1>4, <1>7, <1>8, <1>9, <1>10, NextSplits

\* A verification that changes its row is done with it, when commits are
\* acknowledged.
LEMMA DecidesLast ==
    ASSUME TypeInv, NEW r \in Runners, Verify(r), "lost_ack" \notin Hazards
    PROVE  UNCHANGED <<row, events>> \/ Finish(r)
<1>1. ~Fault("lost_ack")
  BY DEF Fault
<1>2. QED
  BY <1>1 DEF Verify, Inspect, Promote, Commit, Undo, Refuse, CommitRefusal, Settle

\* Nobody else changes the row of a file that a runner holds, except to remove it.
LEMMA HeldRow ==
    ASSUME TypeInv, Recorded, Alone, Next, {"lost_ack", "slow"} \cap Hazards = {},
           NEW r \in Runners, NEW f \in Held(r), f \in Held(r)', row'[f].status # "absent"
    PROVE  row'[f].status = "verifying" /\ row'[f].claim = "live"
<1>1. TypeOK /\ f \in Files /\ row \in [Files -> Row]
  BY HeldFiles DEF TypeInv, TypeOK
<1>2. request[f] = "done"
  BY <1>1 DEF Recorded, InUse
<1>3. ~Record(f)
  BY <1>2 DEF Record
<1>4. row[f].status = "verifying" /\ row[f].claim = "live"
  BY <1>1, <1>3, RowAppears DEF Alone
<1>5. CASE UNCHANGED row
  BY <1>4, <1>5
<1>6. CASE StillSteps
  <2>1. ~ClaimExpires(f)
    BY DEF ClaimExpires, Fault
  <2>2. QED
    BY <1>1, <1>4, <1>6, <2>1, StillRows
<1>7. ASSUME NEW q, TakesRows(q)
      PROVE  row'[f].status = "verifying" /\ row'[f].claim = "live"
  BY <1>1, <1>4, <1>7, TakenRows
<1>8. ASSUME NEW g \in Files, Record(g) \/ claim_one(g)
      PROVE  row'[f].status = "verifying" /\ row'[f].claim = "live"
  <2>1. CASE Record(g)
    BY <1>1, <1>3, <1>4, <2>1 DEF Record
  <2>2. CASE claim_one(g)
    BY <1>1, <1>5, <1>7, <2>2, OwnTakesRow
  <2>3. QED
    BY <1>8, <2>1, <2>2
<1>9. ASSUME NEW l \in Loops, claim_batch(l)
      PROVE  row'[f].status = "verifying" /\ row'[f].claim = "live"
  BY <1>1, <1>7, <1>9, BatchTakesRows
<1>10. ASSUME NEW q \in Runners, Verify(q)
       PROVE  row'[f].status = "verifying" /\ row'[f].claim = "live"
  <2>1. /\ runner[q].work # <<>>
        /\ Current(q).file \in Held(q) /\ Current(q).file \in Files
    BY <1>1, <1>10, VerifyMoves, CurrentIsHeld
  <2>2. CASE Current(q).file # f
    <3>1. row'[f] = row[f]
      BY <1>1, <1>10, <2>1, <2>2, VerifyRows DEF Marked
    <3>2. QED
      BY <1>4, <3>1
  <2>3. CASE Current(q).file = f
    <3>1. q = r
      BY <2>1, <2>3 DEF Alone
    <3>2. ~Finish(r)
      BY <1>1, <2>1, <2>3, <3>1, FinishFacts DEF Alone
    <3>3. QED
      BY <1>5, <1>10, <3>1, <3>2, DecidesLast
  <2>4. QED
    BY <2>2, <2>3
<1>11. ASSUME NEW q \in Runners, RunnerCrash(q)
       PROVE  UNCHANGED row
  BY <1>11 DEF RunnerCrash
<1>12. QED
  BY <1>5, <1>6, <1>8, <1>9, <1>10, <1>11, NextSplits

LEMMA AloneStep ==
    ASSUME TypeInv, Recorded, Alone, Next, {"lost_ack", "slow"} \cap Hazards = {}
    PROVE  Alone'
<1>1. TypeOK
  BY DEF TypeInv
<1>2. ASSUME NEW r \in Runners PROVE Distinct(r)'
  <2>1. Distinct(r)
    BY DEF Alone
  <2>2. CASE runner'[r].work = runner[r].work
    BY <2>1, <2>2 DEF Distinct
  <2>3. CASE runner'[r].work = <<>>
    <3>1. DOMAIN runner'[r].work = {}
      BY <2>3, EmptySeq
    <3>2. QED
      BY <3>1 DEF Distinct
  <2>4. CASE TakesRows(r)
    BY <2>4 DEF TakesRows
  <2>5. CASE runner[r].work # <<>> /\ Finish(r)
    BY <1>1, <2>1, <2>5, FinishFacts
  <2>6. QED
    BY <2>2, <2>3, <2>4, <2>5, WorkStep
<1>3. ASSUME NEW r \in Runners, TakesRows(r), NEW q \in Runners, q # r
      PROVE  Held(r)' \cap Held(q)' = {}
  <2>1. runner'[q] = runner[q] /\ Held(r)' \subseteq Outstanding
    BY <1>3 DEF TakesRows
  <2>2. Held(q)' = Held(q)
    BY <2>1, HeldSame
  <2>3. \A f \in Held(q) : f \notin Outstanding
    BY <1>1, HeldFiles DEF Alone, Outstanding
  <2>4. QED
    BY <2>1, <2>2, <2>3
<1>4. ASSUME NEW r \in Runners, NEW q \in Runners, r # q
      PROVE  Held(r)' \cap Held(q)' = {}
  <2>1. CASE TakesRows(r)
    BY <1>3, <1>4, <2>1
  <2>2. CASE TakesRows(q)
    BY <1>3, <1>4, <2>2
  <2>3. CASE ~TakesRows(r) /\ ~TakesRows(q)
    <3>1. Held(r)' \subseteq Held(r) /\ Held(q)' \subseteq Held(q)
      BY <2>3, RunnersStep
    <3>2. QED
      BY <1>4, <3>1 DEF Alone
  <2>4. QED
    BY <2>1, <2>2, <2>3
<1>5. ASSUME NEW r \in Runners, NEW f \in Held(r)', row'[f].status # "absent"
      PROVE  row'[f].status = "verifying" /\ row'[f].claim = "live"
  <2>1. CASE TakesRows(r)
    <3>1. f \in Files
      BY <1>5, <2>1 DEF TakesRows, Outstanding
    <3>2. QED
      BY <1>5, <2>1, <3>1, TakenRows
  <2>2. CASE ~TakesRows(r)
    <3>1. f \in Held(r)
      BY <1>5, <2>2, RunnersStep
    <3>2. QED
      BY <1>5, <3>1, HeldRow
  <2>3. QED
    BY <2>1, <2>2
<1>6. QED
  BY <1>2, <1>4, <1>5 DEF Alone

-----------------------------------------------------------------------------
(* Told once, and stored with its bytes                                    *)

\* What a step does to the row and the events of one file, once a runner is alone
\* with it.
LEMMA AloneRows ==
    ASSUME TypeInv, Recorded, Alone, Next, "lost_ack" \notin Hazards, NEW f \in Files
    PROVE  \/ UNCHANGED events /\ row'[f].status \in {row[f].status, "absent"}
           \/ UNCHANGED events /\ Record(f) /\ row[f].status = "absent" /\ row'[f].status = "received"
           \/ /\ UNCHANGED events /\ row[f].status \in Undecided
              /\ row'[f].status \in {"received", "verifying", "failed"}
           \/ /\ row'[f].status = row[f].status /\ events'[f] = events[f]
           \/ \E r \in Runners, outcome \in Outcomes :
                /\ Verify(r) /\ Current(r).file = f
                /\ outcome = "stored" => runner[r].pc = "commit" /\ Commit(r)
                /\ events' = enqueue(f, outcome)
                /\ \/ row[f].status = "absent" /\ row'[f].status = "absent"
                   \/ row[f].status = "verifying" /\ row'[f].status = outcome
<1>1. TypeOK /\ row \in [Files -> Row]
  BY DEF TypeInv, TypeOK
<1>2. CASE StillSteps
  BY <1>2, StillRows
<1>3. ASSUME NEW r, TakesRows(r)
      PROVE  \/ row'[f].status = row[f].status
             \/ row[f].status \in Undecided /\ row'[f].status = "verifying"
  BY <1>3, TakenRows DEF Outstanding, Undecided
<1>4. ASSUME NEW g \in Files, Record(g)
      PROVE  /\ UNCHANGED events
             /\ \/ row'[f].status = row[f].status
                \/ Record(f) /\ row[f].status = "absent" /\ row'[f].status = "received"
  <2>1. UNCHANGED events
    BY <1>4 DEF Record
  <2>2. CASE row'[f] = row[f]
    BY <2>1, <2>2
  <2>3. CASE row'[f] # row[f]
    <3>1. g = f /\ row'[f].status = "received"
      BY <1>1, <1>4, <2>3, AbsentRowFacts DEF Record
    <3>2. row[f].status = "absent"
      BY <1>4, <3>1 DEF Recorded, InUse, Record
    <3>3. QED
      BY <1>4, <2>1, <3>1, <3>2
  <2>4. QED
    BY <2>2, <2>3
<1>5. ASSUME NEW g \in Files, claim_one(g)
      PROVE  /\ UNCHANGED events
             /\ \/ row'[f].status = row[f].status
                \/ row[f].status \in Undecided /\ row'[f].status = "verifying"
  <2>1. UNCHANGED events
    BY <1>5 DEF claim_one
  <2>2. QED
    BY <1>1, <1>3, <1>5, <2>1, OwnTakesRow
<1>6. ASSUME NEW l \in Loops, claim_batch(l)
      PROVE  /\ UNCHANGED events
             /\ \/ row'[f].status = row[f].status
                \/ row[f].status \in Undecided /\ row'[f].status = "verifying"
  <2>1. UNCHANGED events
    BY <1>6 DEF claim_batch
  <2>2. QED
    BY <1>1, <1>3, <1>6, <2>1, BatchTakesRows
<1>7. ASSUME NEW r \in Runners, RunnerCrash(r)
      PROVE  UNCHANGED <<events, row>>
  BY <1>7 DEF RunnerCrash
<1>8. ASSUME NEW r \in Runners, Verify(r), Current(r).file # f
      PROVE  row'[f].status = row[f].status /\ events'[f] = events[f]
  <2>1. Current(r).file \in Files
    BY <1>1, <1>8, VerifyMoves, CurrentIsHeld
  <2>2. row'[f] = row[f]
    BY <1>8, <2>1, VerifyRows DEF Marked
  <2>3. events'[f] = events[f]
    <3>1. \A o \in Outcomes : enqueue(Current(r).file, o)[f] = events[f]
      BY <1>1, <1>8, <2>1, EnqueueFacts
    <3>2. "stored" \in Outcomes /\ "rejected" \in Outcomes
      BY DEF Outcomes
    <3>3. QED
      BY <1>8, <3>1, <3>2, VerifyRows
  <2>4. QED
    BY <2>2, <2>3
<1>9. ASSUME NEW r \in Runners, Verify(r), Current(r).file = f
      PROVE  \/ UNCHANGED events /\ row'[f].status = row[f].status
             \/ /\ UNCHANGED events /\ row[f].status = "verifying"
                /\ row'[f].status \in {"received", "failed"}
             \/ \E outcome \in Outcomes :
                  /\ outcome = "stored" => runner[r].pc = "commit" /\ Commit(r)
                  /\ events' = enqueue(f, outcome)
                  /\ \/ row[f].status = "absent" /\ row'[f].status = "absent"
                     \/ row[f].status = "verifying" /\ row'[f].status = outcome
  <2>1. row[f].status \in {"absent", "verifying"}
    BY <1>1, <1>9, VerifyMoves, CurrentIsHeld DEF Alone
  <2>2. CASE UNCHANGED <<row, events>>
    BY <2>2
  <2>3. ASSUME NEW status, Marked(f, row', status)
        PROVE  \/ row[f].status = "absent" /\ row'[f].status = "absent"
               \/ row[f].status = "verifying" /\ row'[f].status = status
    BY <2>1, <2>3 DEF Marked
  <2>4. runner[r].pc = "commit" => Commit(r)
    BY <1>9 DEF Verify, Inspect, Promote, Undo, Refuse, CommitRefusal, Settle
  <2>5. "stored" \in Outcomes /\ "rejected" \in Outcomes
    BY DEF Outcomes
  <2>6. QED
    BY <1>9, <2>2, <2>3, <2>4, <2>5, VerifyRows
<1>10. CASE \E g \in Files : Record(g)
  BY <1>4, <1>10
<1>11. CASE \E g \in Files : claim_one(g)
  BY <1>5, <1>11
<1>12. CASE \E l \in Loops : claim_batch(l)
  BY <1>6, <1>12
<1>13. CASE \E r \in Runners : RunnerCrash(r)
  BY <1>7, <1>13
<1>14. ASSUME NEW r \in Runners, Verify(r)
       PROVE  \/ UNCHANGED events /\ row'[f].status = row[f].status
              \/ /\ UNCHANGED events /\ row[f].status = "verifying"
                 /\ row'[f].status \in {"received", "failed"}
              \/ row'[f].status = row[f].status /\ events'[f] = events[f]
              \/ \E outcome \in Outcomes :
                   /\ Verify(r) /\ Current(r).file = f
                   /\ outcome = "stored" => runner[r].pc = "commit" /\ Commit(r)
                   /\ events' = enqueue(f, outcome)
                   /\ \/ row[f].status = "absent" /\ row'[f].status = "absent"
                      \/ row[f].status = "verifying" /\ row'[f].status = outcome
  BY <1>8, <1>9, <1>14
<1>15. CASE \E r \in Runners : Verify(r)
  <2>1. PICK r \in Runners : Verify(r)
    BY <1>15
  <2>2. row[f].status = "verifying" => row[f].status \in Undecided
    BY DEF Undecided
  <2>3. QED
    BY <1>14, <2>1, <2>2, Zenon
<1>16. QED
  BY <1>2, <1>10, <1>11, <1>12, <1>13, <1>15, NextSplits

LEMMA ToldStep ==
    ASSUME TypeInv, Recorded, Alone, Told, Next, "lost_ack" \notin Hazards
    PROVE  Told'
<1>1. TypeOK /\ events \in [Files -> [Outcomes -> Nat]]
  BY DEF TypeInv, TypeOK
<1>2. ASSUME NEW f \in Files, request'[f] # "done", NEW o \in Outcomes
      PROVE  events'[f][o] = 0
  <2>1. request[f] # "done" /\ ~InUse(f)
    BY <1>1, <1>2, RequestsStep DEF Recorded
  <2>2. events[f][o] = 0
    BY <2>1 DEF Told
  <2>3. \A r \in Runners : Verify(r) => Current(r).file # f
    BY <1>1, <2>1, VerifyMoves, CurrentIsHeld DEF InUse
  <2>4. events'[f] = events[f]
    BY <2>3, AloneRows
  <2>5. QED
    BY <2>2, <2>4
<1>3. ASSUME NEW f \in Files, row'[f].status # "absent", NEW o \in Outcomes
      PROVE  events'[f][o] = IF row'[f].status = o THEN 1 ELSE 0
  <2>1. row[f].status # "absent" => events[f][o] = IF row[f].status = o THEN 1 ELSE 0
    BY DEF Told, ToldIffDecided
  <2>2. o \notin {"received", "verifying", "failed", "absent"}
    BY DEF Outcomes
  <2>3. CASE events'[f] = events[f] /\ row'[f].status = row[f].status
    BY <1>3, <2>1, <2>3
  <2>4. CASE UNCHANGED events /\ Record(f) /\ row'[f].status = "received"
    <3>1. events[f][o] = 0
      BY <2>4 DEF Told, Record
    <3>2. QED
      BY <2>2, <2>4, <3>1
  <2>5. CASE /\ UNCHANGED events /\ row[f].status \in Undecided
             /\ row'[f].status \in {"received", "verifying", "failed"}
    BY <2>1, <2>2, <2>5 DEF Undecided
  <2>6. ASSUME NEW outcome \in Outcomes, events' = enqueue(f, outcome),
               row[f].status = "verifying", row'[f].status = outcome
        PROVE  events'[f][o] = IF row'[f].status = o THEN 1 ELSE 0
    <3>1. events[f][o] = 0
      BY <2>1, <2>2, <2>6
    <3>2. events'[f][o] = IF o = outcome THEN events[f][o] + 1 ELSE events[f][o]
      BY <1>1, <2>6, EnqueueFacts
    <3>3. QED
      BY <2>6, <3>1, <3>2
  <2>7. QED
    BY <1>3, <2>3, <2>4, <2>5, <2>6, AloneRows
<1>4. QED
  BY <1>2, <1>3 DEF Told, ToldIffDecided

\* Which steps take an object from its bucket.
LEMMA ObjectGoes ==
    ASSUME TypeInv, Next, NEW f \in Files, f \in bucket \cup emptied
    PROVE  \/ f \in bucket' \cup emptied'
           \/ \E r \in Runners : Undo(r) /\ Current(r).file = f
<1>1. CASE StillSteps
  BY <1>1 DEF StillSteps, Write, Discard, RequestCrash, ClaimExpires, RowAges, SweepObject, SweepRow,
     DeleteLoad, DeleteObject, DeleteRow, DeleterCrash, SweepRead, SweeperCrash, objects, deletions
<1>2. CASE \/ \E g \in Files : Record(g) \/ claim_one(g)
           \/ \E l \in Loops : claim_batch(l)
           \/ \E r \in Runners : RunnerCrash(r)
  BY <1>2 DEF Record, claim_one, claim_batch, RunnerCrash, objects, deletions
<1>3. ASSUME NEW r \in Runners, Verify(r)
      PROVE  f \in bucket' \cup emptied' \/ (Undo(r) /\ Current(r).file = f)
  BY <1>3 DEF Verify, Inspect, Promote, Commit, Undo, Refuse, CommitRefusal, Settle, objects, deletions
<1>4. QED
  BY <1>1, <1>2, <1>3, NextSplits

LEMMA CommitsAfterPromoting ==
    ASSUME TypeInv, Next, NEW q \in Runners, runner'[q] # runner[q], runner'[q].pc = "commit"
    PROVE  Current(q)' = Current(q) /\ Current(q).file \in bucket'
<1>1. TypeOK /\ Verify(q) /\ runner[q].work # <<>> /\ \E pc \in Working : Goto(q, pc)
  BY PlacesStep DEF TypeInv
<1>2. PICK pc \in Working : Goto(q, pc)
  BY <1>1
<1>3. pc \in RunnerSteps
  BY DEF Working
<1>4. Current(q)' = Current(q)
  BY <1>1, <1>2, <1>3, GotoFacts
<1>5. \A place : Goto(q, place) => runner'[q].pc = place
  BY <1>1 DEF Goto, TypeOK
<1>6. Finish(q) \/ (Promote(q) /\ Current(q).file \in bucket')
  BY <1>1, <1>5 DEF Verify, Inspect, Promote, Commit, Undo, Refuse, CommitRefusal, Settle
<1>7. ~Finish(q)
  BY <1>1, FinishFacts
<1>8. QED
  BY <1>4, <1>6, <1>7

LEMMA MovedStep ==
    ASSUME TypeInv, Recorded, Alone, Moved, Next, "lost_ack" \notin Hazards
    PROVE  Moved'
<1>1. TypeOK
  BY DEF TypeInv
<1>2. ASSUME NEW r \in Runners, runner'[r].pc = "commit"
      PROVE  Current(r)'.file \in bucket' \cup emptied'
  <2>1. CASE runner'[r] = runner[r]
    <3> DEFINE f == Current(r).file
    <3>1. runner[r].pc = "commit" /\ Current(r)' = Current(r)
      BY <1>2, <2>1 DEF Current
    <3>2. runner[r].work # <<>>
      BY <3>1 DEF TypeInv, WorkShape, RunnersShape
    <3>3. f \in Files /\ f \in Held(r) /\ f \in bucket \cup emptied
      BY <1>1, <3>1, <3>2, CurrentIsHeld DEF Moved
    <3>4. ASSUME NEW q \in Runners, Undo(q), Current(q).file = f PROVE FALSE
      <4>1. Verify(q)
        BY <3>4 DEF Verify
      <4>2. f \in Held(q)
        BY <1>1, <3>4, <4>1, VerifyMoves, CurrentIsHeld
      <4>3. q = r
        BY <3>3, <4>2 DEF Alone
      <4>4. QED
        BY <3>1, <3>4, <4>3 DEF Undo
    <3>5. f \in bucket' \cup emptied'
      BY <3>3, <3>4, ObjectGoes
    <3>6. QED
      BY <3>1, <3>5
  <2>2. CASE runner'[r] # runner[r]
    BY <1>2, <2>2, CommitsAfterPromoting
  <2>3. QED
    BY <2>1, <2>2
<1>3. ASSUME NEW f \in Files, row'[f].status = "stored"
      PROVE  f \in bucket' \cup emptied'
  <2>1. CASE row[f].status = "stored"
    <3>1. f \in bucket \cup emptied
      BY <2>1 DEF Moved, StoredHasBytes
    <3>2. ASSUME NEW q \in Runners, Undo(q), Current(q).file = f PROVE FALSE
      <4>1. Verify(q)
        BY <3>2 DEF Verify
      <4>2. f \in Held(q)
        BY <1>1, <3>2, <4>1, VerifyMoves, CurrentIsHeld
      <4>3. QED
        BY <2>1, <4>2 DEF Alone
    <3>3. QED
      BY <3>1, <3>2, ObjectGoes
  <2>2. CASE row[f].status # "stored"
    <3>1. PICK r \in Runners : Current(r).file = f /\ runner[r].pc = "commit" /\ Commit(r)
      BY <1>3, <2>2, AloneRows
    <3>2. f \in bucket \cup emptied
      BY <3>1 DEF Moved
    <3>3. QED
      BY <3>1, <3>2 DEF Commit, objects, deletions
  <2>3. QED
    BY <2>1, <2>2
<1>4. QED
  BY <1>2, <1>3 DEF Moved, StoredHasBytes

LEMMA AloneInit == Init => Alone /\ Told /\ Moved
<1> SUFFICES ASSUME Init PROVE Alone /\ Told /\ Moved
  OBVIOUS
<1>1. \A r \in Runners : Held(r) = {} /\ runner[r].pc = "idle" /\ runner[r].work = <<>>
  BY NothingHeld DEF Init
<1>2. \A f \in Files : row[f].status = "absent" /\ \A o \in Outcomes : events[f][o] = 0
  BY AbsentRowFacts DEF Init
<1>3. \A r \in Runners : Distinct(r)
  BY <1>1, EmptySeq DEF Distinct
<1>4. QED
  BY <1>1, <1>2, <1>3 DEF Alone, Told, Moved, ToldIffDecided, StoredHasBytes

LEMMA AloneStutter == Alone /\ Told /\ Moved /\ UNCHANGED vars => Alone' /\ Told' /\ Moved'
<1> SUFFICES ASSUME Alone, Told, Moved, UNCHANGED vars PROVE Alone' /\ Told' /\ Moved'
  OBVIOUS
<1>1. UNCHANGED <<row, runner, events, request, bucket, emptied>>
  BY DEF vars, objects, deletions
<1>2. \A r \in Runners : Held(r)' = Held(r) /\ Current(r)' = Current(r) /\ runner'[r] = runner[r]
  BY <1>1, HeldSame DEF Current
<1>3. \A r \in Runners : Distinct(r) => Distinct(r)'
  BY <1>1 DEF Distinct
<1>4. Alone'
  BY <1>1, <1>2, <1>3 DEF Alone
<1>5. Told'
  BY <1>1 DEF Told, ToldIffDecided
<1>6. Moved'
  BY <1>1, <1>2 DEF Moved, StoredHasBytes
<1>7. QED
  BY <1>4, <1>5, <1>6

LEMMA SpecAlone ==
    ASSUME {"lost_ack", "slow"} \cap Hazards = {}
    PROVE  Spec => [](TypeInv /\ Recorded /\ Alone /\ Told /\ Moved)
<1>1. Init => Alone /\ Told /\ Moved
  BY AloneInit
<1>2. TypeInv /\ Recorded /\ Alone /\ Told /\ Moved /\ [Next]_vars => Alone' /\ Told' /\ Moved'
  <2> SUFFICES ASSUME TypeInv, Recorded, Alone, Told, Moved, [Next]_vars
               PROVE  Alone' /\ Told' /\ Moved'
    OBVIOUS
  <2>1. CASE Next
    BY <2>1, AloneStep, ToldStep, MovedStep
  <2>2. CASE UNCHANGED vars
    BY <2>2, AloneStutter
  <2>3. QED
    BY <2>1, <2>2
<1>3. "lost_ack" \notin Hazards
  OBVIOUS
<1>4. Spec => [](TypeInv /\ Recorded /\ BytesOK)
  BY <1>3, SpecBytes
<1>5. QED
  BY <1>1, <1>2, <1>4, PTL DEF Spec

\* Rule two of verify.rs: however many runners race for rows, crash and retry, a row
\* is announced once, when it is decided, as what it is.  It needs claims that no
\* runner outlives (verify.rs:16-19 says that overlapping runners announce twice) and
\* acknowledged commits.
THEOREM ToldOnce ==
    ASSUME {"lost_ack", "slow"} \cap Hazards = {}
    PROVE  Spec => []ToldIffDecided
<1>1. Told => ToldIffDecided
  BY DEF Told
<1>2. QED
  BY <1>1, SpecAlone, PTL

\* Rule one of verify.rs: a row that says stored has its object at its storage key
\* until a deletion takes it, under the same conditions.
THEOREM StoredBytesThere ==
    ASSUME {"lost_ack", "slow"} \cap Hazards = {}
    PROVE  Spec => []StoredHasBytes
<1>1. Moved => StoredHasBytes
  BY DEF Moved
<1>2. QED
  BY <1>1, SpecAlone, PTL

-----------------------------------------------------------------------------
(* The life cycle                                                          *)

\* Where nobody sweeps or deletes an undecided row, a runner's rows are there and
\* verifying, and the sweeper and the deletions have ended uploads before them.
Calm == Hazards \subseteq {"crash", "storage", "db"}

Settled ==
    /\ \A r \in Runners : \A f \in Held(r) : row[f].status = "verifying"
    /\ \A f \in Files : row[f].old => row[f].status = "failed"
    /\ \A f \in sweeper.work : row[f].status \in {"absent", "failed"}
    /\ \A f \in Files : deleter[f] # "idle" => row[f].status \in {"absent"} \cup Terminal

\* A row vanishes when the sweeper or a deletion removes it.
LEMMA RowVanishes ==
    ASSUME TypeInv, Recorded, Alone, Next, "lost_ack" \notin Hazards, NEW f \in Files,
           row[f].status # "absent", row'[f].status = "absent"
    PROVE  SweepRow(f) \/ DeleteRow(f)
<1>1. TypeOK /\ row \in [Files -> Row]
  BY DEF TypeInv, TypeOK
<1>2. CASE StillSteps
  <2>1. \/ \E g \in Files : ClaimExpires(g) \/ RowAges(g) \/ SweepRow(g) \/ DeleteRow(g)
        \/ UNCHANGED row
    BY <1>2 DEF StillSteps, Write, Discard, RequestCrash, SweepObject, DeleteLoad, DeleteObject,
       DeleterCrash, SweepRead, SweeperCrash
  <2>2. ASSUME NEW g \in Files, ClaimExpires(g) \/ RowAges(g) PROVE row'[f].status = row[f].status
    BY <1>1, <2>2 DEF ClaimExpires, RowAges, Row
  <2>3. ASSUME NEW g \in Files, SweepRow(g) \/ DeleteRow(g) PROVE g = f
    BY <1>1, <2>3 DEF SweepRow, DeleteRow
  <2>4. QED
    BY <2>1, <2>2, <2>3
<1>3. CASE \/ \E g \in Files : Record(g) \/ claim_one(g)
           \/ \E l \in Loops : claim_batch(l)
           \/ \E r \in Runners : RunnerCrash(r)
  BY <1>3, ArrivingRows
<1>4. ASSUME NEW r \in Runners, Verify(r) PROVE FALSE
  <2>1. Current(r).file \in Files
    BY <1>1, <1>4, VerifyMoves, CurrentIsHeld
  <2>2. ASSUME NEW status, Marked(Current(r).file, row', status), status # "absent" PROVE FALSE
    BY <1>1, <2>1, <2>2 DEF Marked
  <2>3. QED
    BY <1>4, <2>2, VerifyRows
<1>5. QED
  BY <1>2, <1>3, <1>4, NextSplits

\* A row that is old was so before or ages now.
LEMMA OldComes ==
    ASSUME TypeInv, Next, NEW f \in Files, row'[f].old
    PROVE  row[f].old \/ RowAges(f)
<1>1. TypeOK /\ row \in [Files -> Row]
  BY DEF TypeInv, TypeOK
<1>2. CASE StillSteps
  <2>1. \/ \E g \in Files : ClaimExpires(g) \/ RowAges(g) \/ SweepRow(g) \/ DeleteRow(g)
        \/ UNCHANGED row
    BY <1>2 DEF StillSteps, Write, Discard, RequestCrash, SweepObject, DeleteLoad, DeleteObject,
       DeleterCrash, SweepRead, SweeperCrash
  <2>2. ASSUME NEW g \in Files, ClaimExpires(g) PROVE row[f].old
    BY <1>1, <2>2 DEF ClaimExpires, Row
  <2>3. ASSUME NEW g \in Files, RowAges(g) PROVE row[f].old \/ RowAges(f)
    BY <1>1, <2>3 DEF RowAges, Row
  <2>4. ASSUME NEW g \in Files, SweepRow(g) \/ DeleteRow(g) PROVE row[f].old
    BY <1>1, <2>4, AbsentRowFacts DEF SweepRow, DeleteRow
  <2>5. QED
    BY <2>1, <2>2, <2>3, <2>4
<1>3. ASSUME NEW r, TakesRows(r) PROVE row[f].old
  BY <1>3, TakenRows
<1>4. ASSUME NEW g \in Files, Record(g) PROVE row[f].old
  BY <1>1, <1>4, AbsentRowFacts DEF Record
<1>5. ASSUME NEW g \in Files, claim_one(g) PROVE row[f].old
  BY <1>1, <1>3, <1>5, OwnTakesRow
<1>6. ASSUME NEW l \in Loops, claim_batch(l) PROVE row[f].old
  BY <1>1, <1>3, <1>6, BatchTakesRows
<1>7. ASSUME NEW r \in Runners, RunnerCrash(r) PROVE row[f].old
  BY <1>7 DEF RunnerCrash
<1>8. ASSUME NEW r \in Runners, Verify(r) PROVE row[f].old
  <2>1. Current(r).file \in Files
    BY <1>1, <1>8, VerifyMoves, CurrentIsHeld
  <2>2. ASSUME NEW status, Marked(Current(r).file, row', status) PROVE row[f].old
    BY <2>1, <2>2 DEF Marked
  <2>3. QED
    BY <1>8, <2>2, VerifyRows
<1>9. QED
  BY <1>2, <1>4, <1>5, <1>6, <1>7, <1>8, NextSplits

LEMMA SettledStep ==
    ASSUME TypeInv, Recorded, Alone, Settled, Next, Calm
    PROVE  Settled'
<1>1. /\ TypeOK /\ "lost_ack" \notin Hazards /\ {"lost_ack", "slow"} \cap Hazards = {}
      /\ "late" \notin Hazards /\ "early_delete" \notin Hazards
      /\ sweeper.work \subseteq Files /\ sweeper.deleted \subseteq sweeper.work
  BY DEF TypeInv, TypeOK, WorkShape, Calm
\* An upload that has ended stays ended.
<1>2. ASSUME NEW f \in Files, NEW ended \in Terminal \cup {"absent"},
             row[f].status = ended, ~Record(f)
      PROVE  row'[f].status \in {ended, "absent"}
  BY <1>1, <1>2, AloneRows DEF Terminal, Undecided
<1>3. ASSUME NEW r \in Runners, NEW f \in Held(r)' PROVE row'[f].status = "verifying"
  <2>1. CASE TakesRows(r)
    <3>1. f \in Files
      BY <1>3, <2>1 DEF TakesRows, Outstanding
    <3>2. QED
      BY <1>3, <2>1, <3>1, TakenRows
  <2>2. CASE ~TakesRows(r)
    <3>1. f \in Held(r)
      BY <1>3, <2>2, RunnersStep
    <3>2. f \in Files /\ row[f].status = "verifying"
      BY <1>1, <3>1, HeldFiles DEF Settled
    <3>3. ~SweepRow(f) /\ ~DeleteRow(f)
      BY <1>1, <3>2 DEF SweepRow, DeleteRow, Settled, Terminal
    <3>4. row'[f].status # "absent"
      BY <1>1, <3>2, <3>3, RowVanishes
    <3>5. QED
      BY <1>1, <1>3, <3>1, <3>4, HeldRow
  <2>3. QED
    BY <2>1, <2>2
<1>4. ASSUME NEW f \in Files, row'[f].old PROVE row'[f].status = "failed"
  <2>1. TypeInv'
    BY TypeStep
  <2>2. CASE RowAges(f)
    BY <1>1, <2>2, StillRows DEF RowAges, TypeInv, TypeOK, Row
  <2>3. CASE ~RowAges(f)
    <3>1. row[f].old /\ row[f].status = "failed"
      BY <1>4, <2>3, OldComes DEF Settled
    <3>2. ~Record(f)
      BY <3>1 DEF Record, Recorded, InUse
    <3>3. row'[f].status \in {"failed", "absent"}
      BY <1>2, <3>1, <3>2 DEF Terminal
    <3>4. row'[f].status # "absent"
      <4>1. ASSUME SweepRow(f) \/ DeleteRow(f), row'[f].status = "absent" PROVE FALSE
        <5>1. row' = [row EXCEPT ![f] = AbsentRow]
          BY <3>1, <4>1 DEF SweepRow, DeleteRow
        <5>2. row'[f].old = FALSE
          BY <1>1, <5>1, AbsentRowFacts DEF TypeOK
        <5>3. QED
          BY <1>4, <5>2
      <4>2. QED
        BY <1>1, <3>1, <4>1, RowVanishes
    <3>5. QED
      BY <3>3, <3>4
  <2>4. QED
    BY <2>2, <2>3
<1>5. ASSUME NEW f \in sweeper'.work PROVE row'[f].status \in {"absent", "failed"}
  <2>1. f \in Files
    BY TypeStep DEF TypeInv, TypeOK
  <2>2. CASE f \in sweeper.work
    <3>1. row[f].status \in {"absent", "failed"} /\ ~Record(f)
      BY <2>1, <2>2 DEF Settled, Record, Recorded, InUse
    <3>2. QED
      BY <1>2, <2>1, <3>1 DEF Terminal
  <2>3. CASE f \notin sweeper.work
    <3>1. SweepRead
      BY <1>5, <2>1, <2>3, CollectorsStep
    <3>2. QED
      BY <1>5, <2>1, <3>1 DEF SweepRead, expired_quarantine, Settled
  <2>4. QED
    BY <2>2, <2>3
<1>6. ASSUME NEW f \in Files, deleter'[f] # "idle" PROVE row'[f].status \in {"absent"} \cup Terminal
  <2>1. CASE deleter[f] # "idle"
    <3>1. row[f].status \in {"absent"} \cup Terminal /\ ~Record(f)
      BY <2>1 DEF Settled, Record, Recorded, InUse
    <3>2. QED
      BY <1>2, <3>1 DEF Terminal
  <2>2. CASE deleter[f] = "idle"
    <3>1. DeleteLoad(f)
      BY <1>6, <2>2, CollectorsStep
    <3>2. QED
      BY <1>1, <3>1 DEF DeleteLoad
  <2>3. QED
    BY <2>1, <2>2
<1>7. QED
  BY <1>3, <1>4, <1>5, <1>6 DEF Settled

\* What the life cycle sees of one file.
Unseen(f) ==
    AbstractState'[f] = AbstractState[f] /\ AbstractTold'[f] = AbstractTold[f]

LEMMA SeenAs ==
    ASSUME NEW f \in Files
    PROVE  /\ AbstractState[f] = IF row[f].status \in Undecided THEN "pending" ELSE row[f].status
           /\ AbstractState'[f] = IF row'[f].status \in Undecided THEN "pending" ELSE row'[f].status
           /\ AbstractTold[f] = {o \in Outcomes : events[f][o] > 0}
           /\ AbstractTold'[f] = {o \in Outcomes : events'[f][o] > 0}
BY DEF AbstractState, AbstractTold

LEMMA UnseenRow ==
    ASSUME NEW f \in Files, events'[f] = events[f],
           \/ row'[f].status = row[f].status
           \/ row[f].status \in Undecided /\ row'[f].status \in Undecided
    PROVE  Unseen(f)
BY SeenAs DEF Unseen

\* A step that is seen of no file but one is that file's step.
LEMMA OneSeen ==
    ASSUME NEW f \in Files, \A g \in Files : g # f => Unseen(g), NEW x, AbstractState'[f] = x
    PROVE  /\ AbstractState' = [AbstractState EXCEPT ![f] = x]
           /\ AbstractTold' = [AbstractTold EXCEPT ![f] = AbstractTold'[f]]
<1>1. /\ AbstractState = [g \in Files |-> AbstractState[g]]
      /\ AbstractState' = [g \in Files |-> AbstractState'[g]]
      /\ AbstractTold = [g \in Files |-> AbstractTold[g]]
      /\ AbstractTold' = [g \in Files |-> AbstractTold'[g]]
  BY DEF AbstractState, AbstractTold
<1> HIDE DEF AbstractState, AbstractTold
<1>2. QED
  BY <1>1 DEF Unseen

LEMMA NoneSeen ==
    ASSUME \A g \in Files : Unseen(g)
    PROVE  UNCHANGED <<AbstractState, AbstractTold>>
<1>1. /\ AbstractState = [g \in Files |-> AbstractState[g]]
      /\ AbstractState' = [g \in Files |-> AbstractState'[g]]
      /\ AbstractTold = [g \in Files |-> AbstractTold[g]]
      /\ AbstractTold' = [g \in Files |-> AbstractTold'[g]]
  BY DEF AbstractState, AbstractTold
<1>2. QED
  BY <1>1 DEF Unseen

\* The life cycle's move of one file, in terms of what is seen of it.
Lives(f) ==
    \/ Unseen(f)
    \/ /\ AbstractState[f] = "absent" /\ AbstractTold[f] = {}
       /\ AbstractState'[f] = "pending" /\ AbstractTold'[f] = {}
    \/ /\ AbstractState[f] = "pending"
       /\ AbstractState'[f] \in Outcomes /\ AbstractTold'[f] = {AbstractState'[f]}
    \/ /\ AbstractState[f] = "pending"
       /\ AbstractState'[f] = "failed" /\ AbstractTold'[f] = AbstractTold[f]
    \/ /\ AbstractState[f] \in Terminal
       /\ AbstractState'[f] = "absent" /\ AbstractTold'[f] = AbstractTold[f]

LEMMA LifecycleMoves ==
    ASSUME NEW f \in Files, \A g \in Files : g # f => Unseen(g), Lives(f)
    PROVE  [Lifecycle!Next]_<<AbstractState, AbstractTold>>
<1>0. /\ AbstractState' = [AbstractState EXCEPT ![f] = AbstractState'[f]]
      /\ AbstractTold' = [AbstractTold EXCEPT ![f] = AbstractTold'[f]]
  BY OneSeen
<1>1. AbstractTold = [AbstractTold EXCEPT ![f] = AbstractTold[f]]
  BY DEF AbstractTold
<1> HIDE DEF AbstractState, AbstractTold
<1>2. CASE Unseen(f)
  <2>1. \A g \in Files : Unseen(g)
    BY <1>2
  <2>2. QED
    BY <2>1, NoneSeen
<1>3. CASE /\ AbstractState[f] = "absent" /\ AbstractTold[f] = {}
           /\ AbstractState'[f] = "pending" /\ AbstractTold'[f] = {}
  <2>1. Lifecycle!Receive(f)
    BY <1>0, <1>1, <1>3 DEF Lifecycle!Receive
  <2>2. QED
    BY <2>1 DEF Lifecycle!Next
<1>4. CASE /\ AbstractState[f] = "pending"
           /\ AbstractState'[f] \in Outcomes /\ AbstractTold'[f] = {AbstractState'[f]}
  <2>1. Lifecycle!Decide(f)
    BY <1>0, <1>4 DEF Lifecycle!Decide, Outcomes
  <2>2. QED
    BY <2>1 DEF Lifecycle!Next
<1>5. CASE /\ AbstractState[f] = "pending"
           /\ AbstractState'[f] = "failed" /\ AbstractTold'[f] = AbstractTold[f]
  <2>1. Lifecycle!GiveUp(f)
    BY <1>0, <1>1, <1>5 DEF Lifecycle!GiveUp
  <2>2. QED
    BY <2>1 DEF Lifecycle!Next
<1>6. CASE /\ AbstractState[f] \in Terminal
           /\ AbstractState'[f] = "absent" /\ AbstractTold'[f] = AbstractTold[f]
  <2>1. Lifecycle!Remove(f)
    BY <1>0, <1>1, <1>6 DEF Lifecycle!Remove, Terminal
  <2>2. QED
    BY <2>1 DEF Lifecycle!Next
<1>7. QED
  BY <1>2, <1>3, <1>4, <1>5, <1>6 DEF Lives

LifecycleInv == TypeInv /\ Recorded /\ Alone /\ Told /\ Settled

\* What a step makes of each file is a move of the life cycle.
LEMMA EachLives ==
    ASSUME LifecycleInv, Next, Calm, NEW f \in Files
    PROVE  Lives(f)
<1>1. /\ TypeInv /\ Recorded /\ Alone /\ Told /\ Settled /\ TypeOK
      /\ "lost_ack" \notin Hazards
  BY DEF LifecycleInv, TypeInv, Calm
<1>2. /\ events \in [Files -> [Outcomes -> Nat]] /\ row \in [Files -> Row]
      /\ row' \in [Files -> Row]
  BY <1>1, TypeStep DEF TypeInv, TypeOK
<1>3. row[f].status # "absent" => \A o \in Outcomes : events[f][o] = IF row[f].status = o THEN 1 ELSE 0
  BY <1>1 DEF Told, ToldIffDecided
<1>4. CASE row'[f].status = row[f].status /\ events'[f] = events[f]
  BY <1>4, UnseenRow DEF Lives
<1>5. CASE UNCHANGED events /\ row'[f].status = "absent" /\ row[f].status # "absent"
  <2>1. row[f].status \in Terminal
    BY <1>1, <1>5, RowVanishes DEF SweepRow, DeleteRow, Settled, TypeInv, WorkShape, Terminal
  <2>2. AbstractState[f] = row[f].status /\ AbstractState'[f] = "absent" /\ AbstractTold'[f] = AbstractTold[f]
    BY <1>5, <2>1, SeenAs DEF Terminal, Undecided
  <2>3. QED
    BY <2>1, <2>2 DEF Lives
<1>6. CASE UNCHANGED events /\ Record(f) /\ row[f].status = "absent" /\ row'[f].status = "received"
  <2>1. \A o \in Outcomes : events[f][o] = 0 /\ events'[f][o] = 0
    BY <1>1, <1>6 DEF Told, Record
  <2>2. AbstractState[f] = "absent" /\ AbstractState'[f] = "pending"
    BY <1>6, SeenAs DEF Undecided
  <2>3. AbstractTold[f] = {} /\ AbstractTold'[f] = {}
    BY <2>1, SeenAs
  <2>4. QED
    BY <2>2, <2>3 DEF Lives
<1>7. CASE /\ UNCHANGED events /\ row[f].status \in Undecided
           /\ row'[f].status \in {"received", "verifying", "failed"}
  <2>1. CASE row'[f].status \in Undecided
    BY <1>7, <2>1, UnseenRow DEF Lives
  <2>2. CASE row'[f].status = "failed"
    <3>1. AbstractState[f] = "pending" /\ AbstractState'[f] = "failed" /\ AbstractTold'[f] = AbstractTold[f]
      BY <1>7, <2>2, SeenAs DEF Undecided
    <3>2. QED
      BY <3>1 DEF Lives
  <2>3. QED
    BY <1>7, <2>1, <2>2 DEF Undecided
<1>8. ASSUME NEW r \in Runners, NEW outcome \in Outcomes,
             Verify(r), Current(r).file = f, events' = enqueue(f, outcome),
             \/ row[f].status = "absent" /\ row'[f].status = "absent"
             \/ row[f].status = "verifying" /\ row'[f].status = outcome
      PROVE  Lives(f)
  <2>1. f \in Held(r)
    BY <1>1, <1>8, VerifyMoves, CurrentIsHeld
  <2>2. row[f].status = "verifying" /\ row'[f].status = outcome
    BY <1>1, <1>8, <2>1 DEF Settled
  <2>3. \A o \in Outcomes : events[f][o] = 0
    BY <1>3, <2>2 DEF Outcomes
  <2>4. \A o \in Outcomes : events'[f][o] = IF o = outcome THEN 1 ELSE 0
    BY <1>1, <1>8, <2>3, EnqueueFacts, SMTT(30)
  <2>5. AbstractTold'[f] = {outcome}
    BY <2>4, SeenAs
  <2>6. AbstractState[f] = "pending" /\ AbstractState'[f] = outcome
    BY <2>2, SeenAs DEF Undecided, Outcomes
  <2>7. QED
    BY <2>5, <2>6 DEF Lives
<1>9. QED
  BY <1>1, <1>4, <1>5, <1>6, <1>7, <1>8, AloneRows

\* A step is seen of one file at most: a claim may take several rows, and they are
\* pending before and after.
LEMMA OneLives ==
    ASSUME LifecycleInv, Next, Calm, NEW f \in Files, ~Unseen(f), NEW g \in Files, g # f
    PROVE  Unseen(g)
<1>1. TypeInv /\ Recorded /\ Alone /\ TypeOK /\ "lost_ack" \notin Hazards
  BY DEF LifecycleInv, TypeInv, Calm
<1>2. /\ events \in [Files -> [Outcomes -> Nat]] /\ row \in [Files -> Row]
      /\ row' \in [Files -> Row]
  BY <1>1, TypeStep DEF TypeInv, TypeOK
<1>3. ASSUME NEW h \in Files, UNCHANGED events, row'[f] = row[f] \/ h = f, row'[g] = row[g] \/ h = g
      PROVE  Unseen(g)
  <2>1. row'[f].status # row[f].status
    BY <1>3, UnseenRow
  <2>2. row'[g] = row[g]
    BY <1>3, <2>1
  <2>3. QED
    BY <1>3, <2>2, UnseenRow
<1>4. CASE StillSteps
  <2>1. UNCHANGED events
    BY <1>1, <1>4, StillRows
  <2>2. \/ \E h \in Files : ClaimExpires(h) \/ RowAges(h) \/ SweepRow(h) \/ DeleteRow(h)
        \/ UNCHANGED row
    BY <1>4 DEF StillSteps, Write, Discard, RequestCrash, SweepObject, DeleteLoad, DeleteObject,
       DeleterCrash, SweepRead, SweeperCrash
  <2>3. ASSUME NEW h \in Files, ClaimExpires(h) \/ RowAges(h) \/ SweepRow(h) \/ DeleteRow(h)
        PROVE  (row'[f] = row[f] \/ h = f) /\ (row'[g] = row[g] \/ h = g)
    BY <1>2, <2>3 DEF ClaimExpires, RowAges, SweepRow, DeleteRow
  <2>4. CASE UNCHANGED row
    BY <2>1, <2>4, UnseenRow
  <2>5. QED
    BY <1>3, <2>1, <2>2, <2>3, <2>4
<1>5. ASSUME NEW r, TakesRows(r), UNCHANGED events PROVE Unseen(g)
  <2>1. row'[g] = row[g] \/ (row[g].status \in Undecided /\ row'[g].status \in Undecided)
    BY <1>1, <1>5, TakenRows DEF Outstanding, Undecided
  <2>2. QED
    BY <1>5, <2>1, UnseenRow
<1>6. ASSUME NEW h \in Files, Record(h) PROVE Unseen(g)
  <2>1. UNCHANGED events /\ (row'[f] = row[f] \/ h = f) /\ (row'[g] = row[g] \/ h = g)
    BY <1>2, <1>6 DEF Record
  <2>2. QED
    BY <1>3, <1>6, <2>1
<1>7. ASSUME NEW h \in Files, claim_one(h) PROVE Unseen(g)
  <2>1. UNCHANGED events
    BY <1>7 DEF claim_one
  <2>2. QED
    BY <1>1, <1>5, <1>7, <2>1, OwnTakesRow, UnseenRow
<1>8. ASSUME NEW l \in Loops, claim_batch(l) PROVE Unseen(g)
  <2>1. UNCHANGED events
    BY <1>8 DEF claim_batch
  <2>2. QED
    BY <1>1, <1>5, <1>8, <2>1, BatchTakesRows
<1>9. ASSUME NEW r \in Runners, RunnerCrash(r) PROVE Unseen(g)
  BY <1>9, UnseenRow DEF RunnerCrash
<1>10. ASSUME NEW r \in Runners, Verify(r) PROVE Unseen(g)
  <2>1. Current(r).file \in Files
    BY <1>1, <1>10, VerifyMoves, CurrentIsHeld
  <2>2. ASSUME NEW h \in Files, h # Current(r).file PROVE row'[h] = row[h] /\ events'[h] = events[h]
    <3>1. row'[h] = row[h]
      BY <1>1, <1>10, <2>1, <2>2, VerifyRows DEF Marked
    <3>2. \A o \in Outcomes : enqueue(Current(r).file, o)[h] = events[h]
      BY <1>1, <2>1, <2>2, EnqueueFacts
    <3>3. "stored" \in Outcomes /\ "rejected" \in Outcomes
      BY DEF Outcomes
    <3>4. QED
      BY <1>1, <1>10, <3>1, <3>2, <3>3, VerifyRows
  <2>3. f = Current(r).file
    BY <2>2, UnseenRow
  <2>4. QED
    BY <2>2, <2>3, UnseenRow
<1>11. QED
  BY <1>4, <1>6, <1>7, <1>8, <1>9, <1>10, NextSplits

LEMMA LifecycleStep ==
    ASSUME LifecycleInv, [Next]_vars, Calm
    PROVE  [Lifecycle!Next]_<<AbstractState, AbstractTold>>
<1>1. CASE UNCHANGED vars
  BY <1>1 DEF vars, AbstractState, AbstractTold
<1>2. CASE Next /\ \A f \in Files : Unseen(f)
  BY <1>2, NoneSeen
<1>3. ASSUME Next, NEW f \in Files, ~Unseen(f)
      PROVE  [Lifecycle!Next]_<<AbstractState, AbstractTold>>
  <2>1. \A g \in Files : g # f => Unseen(g)
    BY <1>3, OneLives
  <2>2. Lives(f)
    BY <1>3, EachLives
  <2>3. QED
    BY <2>1, <2>2, LifecycleMoves
<1>4. QED
  BY <1>1, <1>2, <1>3

LEMMA SettledInit == Init => Settled
<1> SUFFICES ASSUME Init PROVE Settled
  OBVIOUS
<1>1. \A r \in Runners : Held(r) = {}
  BY NothingHeld DEF Init
<1>2. \A f \in Files : row[f].old = FALSE /\ deleter[f] = "idle"
  BY AbsentRowFacts DEF Init
<1>3. sweeper.work = {}
  BY DEF Init
<1>4. QED
  BY <1>1, <1>2, <1>3 DEF Settled

LEMMA SettledStutter == Settled /\ UNCHANGED vars => Settled'
<1> SUFFICES ASSUME Settled, UNCHANGED vars PROVE Settled'
  OBVIOUS
<1>1. UNCHANGED <<row, runner, sweeper, deleter>>
  BY DEF vars, deletions
<1>2. \A r \in Runners : Held(r)' = Held(r)
  BY <1>1, HeldSame
<1>3. QED
  BY <1>1, <1>2 DEF Settled

LEMMA InitLives == Init => Lifecycle!Init
<1> SUFFICES ASSUME Init PROVE Lifecycle!Init
  OBVIOUS
<1>1. \A f \in Files : row[f].status = "absent" /\ \A o \in Outcomes : events[f][o] = 0
  BY AbsentRowFacts DEF Init
<1>2. \A f \in Files : {o \in Outcomes : events[f][o] > 0} = {}
  BY <1>1
<1>3. QED
  BY <1>1, <1>2 DEF Lifecycle!Init, AbstractState, AbstractTold, Undecided

\* The pipeline implements the life cycle the migration draws, with crashes, failing
\* storage and failing statements at any step: a row is received once, decided and
\* told in one step, given up on untold, and removed once it has ended.  (That it
\* does not stay pending is the liveness part, ImplementsLifecycle, checked by TLC.)
THEOREM RefinesLifecycle ==
    ASSUME Calm
    PROVE  Spec => Lifecycle!Init /\ [][Lifecycle!Next]_<<AbstractState, AbstractTold>>
<1>1. {"lost_ack", "slow"} \cap Hazards = {}
  BY DEF Calm
<1>2. Spec => [](TypeInv /\ Recorded /\ Alone /\ Told /\ Moved)
  BY <1>1, SpecAlone
<1>3. TypeInv /\ Recorded /\ Alone /\ Settled /\ [Next]_vars => Settled'
  BY SettledStep, SettledStutter
<1>4. TypeInv /\ Recorded /\ Alone /\ Told /\ Settled /\ [Next]_vars
        => [Lifecycle!Next]_<<AbstractState, AbstractTold>>
  BY LifecycleStep DEF LifecycleInv
<1>5. QED
  BY <1>2, <1>3, <1>4, SettledInit, InitLives, PTL DEF Spec

=============================================================================
