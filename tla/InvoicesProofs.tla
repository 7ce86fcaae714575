---------------------------- MODULE InvoicesProofs ----------------------------
(***************************************************************************)
(* Theorems about Invoices, for any number of invoices, requests and       *)
(* administrators, any settings they may save and any year they may open.  *)
(*                                                                         *)
(* None of the safety properties is inductive: what makes a counter follow *)
(* another is that the row's counter was committed by somebody (CounterIs- *)
(* Issued), that a counter in an open transaction follows one that was     *)
(* (TakenFollows), and that the row cannot move under that transaction     *)
(* (AllocatorsQueue).  IInv puts them together.  That a number in hand is  *)
(* free holds within one period only, for a reason of its own (Rising).    *)
(***************************************************************************)
EXTENDS Invoices, TLAPS

Issued(period, counter) == \E e \in ledger : e.period = period /\ e.counter = counter

CounterIsIssued == series.counter > 0 => Issued(series.period_key, series.counter)

StartIsKnown == series.start_at \in starts

(* Who posts, posts an invoice.                                            *)
PostersHaveInvoices ==
    \A p \in Posters : post[p].pc # "idle" => post[p].id \in Invoices

TakenFollows ==
    \A p \in SeriesHolders :
        /\ post[p].taken.counter # 0
        /\ post[p].taken.number.counter # 0
        /\ \/ post[p].taken.counter \in starts
           \/ Issued(post[p].taken.period_key, post[p].taken.counter - 1)

StoredIsReady ==
    \A p \in Posters : post[p].pc = "stored" =>
        /\ invoices[post[p].id].status = "draft"
        /\ NumberIsFree(post[p].taken.number)

IInv ==
    /\ TypeOK
    /\ AllocatorsQueue
    /\ PostersHaveInvoices
    /\ StartIsKnown
    /\ CounterIsIssued
    /\ TakenFollows
    /\ StoredIsReady
    /\ NoGaps
    /\ NumbersKept
    /\ NumberedOnce

USE InvoicesAssumption, MonthsAssumption

-----------------------------------------------------------------------------
(* The operators.                                                          *)

(* A period key is a period key.                                           *)
LEMMA KeyType ==
    ASSUME NEW reset \in ResetPeriods, NEW on \in Nat, NEW month \in Months
    PROVE  key_for(reset, on, month) \in PeriodKeys
<1>1. /\ Year(on) \in Int
      /\ fiscal_year(on, month) \in Int
  BY DEF Year, fiscal_year, Month, Months
<1>2. QED
  BY <1>1 DEF key_for, PeriodKeys, ResetPeriods

(* A mask renders a counter into a number that holds it.                   *)
LEMMA RenderType ==
    ASSUME NEW pattern \in SUBSET Tokens, NEW counter \in Nat, NEW on \in Nat,
           NEW month \in Months
    PROVE  /\ render(pattern, counter, on, month) \in Numbers
           /\ render(pattern, counter, on, month).counter = counter
<1>1. /\ Year(on) \in Int
      /\ fiscal_year(on, month) \in Int
      /\ Month(on) \in Int
  BY DEF Year, fiscal_year, Month, Months
<1>2. \A t \in pattern : DatePart(t, on, month) \in Int
  BY <1>1 DEF DatePart, Tokens
<1>3. {<<t, DatePart(t, on, month)>> : t \in pattern} \in SUBSET (Tokens \X Int)
  BY <1>2
<1>4. QED
  BY <1>3 DEF render, Numbers

(* The CASE returns a start or a successor of the row's counter, and       *)
(* never zero.                                                             *)
LEMMA NextCounterFollows ==
    ASSUME TypeOK, CounterIsIssued, StartIsKnown, NEW key
    PROVE  /\ NextCounter(key) \in Nat \ {0}
           /\ NextCounter(key) \in starts \/ Issued(key, NextCounter(key) - 1)
  BY DEF TypeOK, CounterIsIssued, StartIsKnown, NextCounter, Issued

-----------------------------------------------------------------------------
(* The row of an invoice that is not numbered is well typed.               *)
LEMMA RowType ==
    ASSUME NEW status \in {"none", "draft", "deleted"}
    PROVE  Row(status) \in Invoice
<1>1. Blank \in Contents
  BY DEF Blank
<1>2. Unnumbered \in Numbers
  BY DEF Unnumbered, Numbers
<1>3. QED
  BY <1>1, <1>2 DEF Row, Invoice

(* So is an idle request.                                                  *)
LEMMA NotPostingType == NotPosting \in Poster
<1>1. Blank \in Contents
  BY DEF Blank
<1>2. NoAllocation \in Allocation
  BY DEF NoAllocation, Allocation, NoPeriod, PeriodKeys, ResetPeriods, Unnumbered, Numbers
<1>3. QED
  BY <1>1, <1>2 DEF NotPosting, Poster, ResetPeriods

(* The invariant holds of the initial state.                               *)
LEMMA InitInv == Init => IInv
<1> SUFFICES ASSUME Init PROVE IInv
  OBVIOUS
<1>1. NoPeriod \in PeriodKeys
  BY DEF NoPeriod, PeriodKeys, ResetPeriods
<1>2. TypeOK
  BY <1>1, RowType, NotPostingType DEF Init, TypeOK, Settings, Row
<1>3. SeriesHolders = {}
  BY DEF Init, SeriesHolders, NotPosting
<1>4. QED
  BY <1>2, <1>3 DEF Init, IInv, AllocatorsQueue, PostersHaveInvoices, StartIsKnown,
     CounterIsIssued, TakenFollows, StoredIsReady, NoGaps, NumbersKept, NumberedOnce,
     NotPosting

-----------------------------------------------------------------------------
(* Drafting and voiding change invoices alone.  A numbered invoice keeps   *)
(* its number and stays numbered; an invoice being stored is left alone.   *)

LEMMA DraftInv ==
    ASSUME IInv, NEW i \in Invoices, NEW c \in Contents,
           save_new(i, c) \/ save_existing(i, c) \/ void(i) \/ delete(i)
    PROVE  IInv'
<1> USE DEF save_new, save_existing, void, delete
<1>1. /\ \A j \in Invoices \ {i} : invoices'[j] = invoices[j]
      /\ ~InvoiceFree(i) => invoices'[i] = invoices[i]
      /\ invoices[i].status \in {"posted", "voided"} =>
            /\ invoices'[i].status \in {"posted", "voided"}
            /\ invoices'[i].number = invoices[i].number
      /\ invoices[i].status \notin {"posted", "voided"} =>
            invoices'[i].status \notin {"posted", "voided"}
  BY DEF IInv, TypeOK, Invoice, Row, StoredIsReady, InvoiceFree
<1>2. /\ UNCHANGED <<series, opening, post, admin, ledger, starts>>
      /\ UNCHANGED SeriesHolders
  BY DEF SeriesHolders
<1>3. TypeOK'
  <2>1. Row("deleted") \in Invoice
    BY RowType
  <2>2. invoices' \in [Invoices -> Invoice]
    BY <2>1 DEF IInv, TypeOK, Invoice
  <2>3. \A j \in Invoices :
          invoices'[j].status \in {"posted", "voided"} <=> invoices'[j].number # Unnumbered
    <3>1. \A j \in Invoices :
            invoices[j].status \in {"posted", "voided"} <=> invoices[j].number # Unnumbered
      BY DEF IInv, TypeOK
    <3>2. invoices'[i].status \in {"posted", "voided"} <=> invoices'[i].number # Unnumbered
      <4>1. invoices \in [Invoices -> Invoice]
        BY DEF IInv, TypeOK
      <4>2. CASE save_new(i, c) \/ save_existing(i, c)
        BY <3>1, <4>1, <4>2 DEF Invoice
      <4>3. CASE void(i)
        BY <3>1, <4>1, <4>3 DEF Invoice
      <4>4. CASE delete(i)
        BY <4>1, <4>4 DEF Row
      <4>5. QED
        BY <4>2, <4>3, <4>4
    <3>3. QED
      BY <1>1, <3>1, <3>2
  <2>4. QED
    BY <1>2, <2>2, <2>3 DEF IInv, TypeOK
<1>4. \A n : NumberIsFree(n) => NumberIsFree(n)'
  BY <1>1 DEF NumberIsFree
<1>5. StoredIsReady'
  BY <1>1, <1>2, <1>4 DEF IInv, StoredIsReady, InvoiceFree, PostersHaveInvoices
<1>6. NumbersKept'
  BY <1>1, <1>2 DEF IInv, NumbersKept, TypeOK
<1>7. QED
  BY <1>2, <1>3, <1>5, <1>6 DEF IInv, AllocatorsQueue, PostersHaveInvoices, StartIsKnown,
     CounterIsIssued, TakenFollows, NoGaps, NumberedOnce, Issued
-----------------------------------------------------------------------------
(* Posting.  Until it commits, a transaction changes its poster alone.     *)

Private == UNCHANGED <<invoices, series, opening, admin, ledger, starts>>

(* A step after which the poster holds no lock.                            *)
LEMMA UnlockedInv ==
    ASSUME IInv, Private, NEW p \in Posters,
           post' \in [Posters -> Poster],
           \A q \in Posters \ {p} : post'[q] = post[q],
           post'[p].pc \notin {"allocated", "stored"},
           post'[p].pc # "idle" => post'[p].id \in Invoices
    PROVE  IInv'
<1> USE DEF Private
<1>1. /\ SeriesHolders' \subseteq SeriesHolders
      /\ \A q \in SeriesHolders' : post'[q] = post[q]
  BY DEF SeriesHolders
<1>2. TypeOK'
  BY DEF IInv, TypeOK
<1>3. AllocatorsQueue' /\ TakenFollows'
  BY <1>1 DEF IInv, AllocatorsQueue, TakenFollows, Issued, SeriesHolders
<1>4. PostersHaveInvoices' /\ StoredIsReady'
  BY DEF IInv, PostersHaveInvoices, StoredIsReady, NumberIsFree
<1>5. QED
  BY <1>2, <1>3, <1>4 DEF IInv, StartIsKnown, CounterIsIssued, NoGaps, NumbersKept,
     NumberedOnce, Issued

(* A transaction that is rolled back leaves nothing behind.                *)
LEMMA EndedInv ==
    ASSUME IInv, Private, NEW p \in Posters, Ended(p)
    PROVE  IInv'
<1>1. /\ post' \in [Posters -> Poster]
      /\ post'[p] = NotPosting
      /\ \A q \in Posters \ {p} : post'[q] = post[q]
  BY NotPostingType DEF Ended, IInv, TypeOK
<1>2. post'[p].pc = "idle"
  BY <1>1 DEF NotPosting
<1>3. QED
  BY <1>1, <1>2, UnlockedInv

(* Before the allocation nothing is locked.                                *)
LEMMA PreparingInv ==
    ASSUME IInv, NEW p \in Posters, NEW i \in Invoices,
           Find(p, i) \/ Open(p) \/ ReadPeriod(p) \/ Rollback(p)
    PROVE  IInv'
<1>1. Private
  BY DEF Private, Find, Open, ReadPeriod, Rollback
<1>0. /\ post \in [Posters -> Poster] /\ post[p] \in Poster
      /\ invoices[i].content \in Contents
      /\ opening \in Months
      /\ series.reset_period \in ResetPeriods
  BY DEF IInv, TypeOK, Invoice
<1>2. CASE Find(p, i)
  <2>1. /\ post' \in [Posters -> Poster]
        /\ post'[p].pc = "found" /\ post'[p].id = i
        /\ \A q \in Posters \ {p} : post'[q] = post[q]
    BY <1>0, <1>2 DEF Find, Poster
  <2>2. QED
    BY <1>1, <2>1, UnlockedInv
<1>3. CASE Open(p)
  <2>1. /\ post' \in [Posters -> Poster]
        /\ post'[p].pc = "begun" /\ post'[p].id = post[p].id
        /\ \A q \in Posters \ {p} : post'[q] = post[q]
    BY <1>0, <1>3 DEF Open, Poster
  <2>2. post[p].id \in Invoices
    BY <1>3 DEF Open, IInv, PostersHaveInvoices
  <2>3. QED
    BY <1>1, <2>1, <2>2, UnlockedInv
<1>4. CASE ReadPeriod(p) /\ series.is_active
  <2>1. /\ post' \in [Posters -> Poster]
        /\ post'[p].pc = "allocating" /\ post'[p].id = post[p].id
        /\ \A q \in Posters \ {p} : post'[q] = post[q]
    BY <1>0, <1>4 DEF ReadPeriod, Poster
  <2>2. post[p].id \in Invoices
    BY <1>4 DEF ReadPeriod, IInv, PostersHaveInvoices
  <2>3. QED
    BY <1>1, <2>1, <2>2, UnlockedInv
<1>5. CASE (ReadPeriod(p) /\ ~series.is_active) \/ Rollback(p)
  BY <1>1, <1>5, EndedInv DEF ReadPeriod, Rollback
<1>6. QED
  BY <1>2, <1>3, <1>4, <1>5

(* The allocation is made by a transaction that is alone with the row.     *)
LEMMA AllocateInv ==
    ASSUME IInv, NEW p \in Posters, Allocate(p)
    PROVE  IInv'
<1>1. Private
  BY DEF Private, Allocate
<1>2. CASE ~series.is_active
  BY <1>1, <1>2, EndedInv DEF Allocate
<1>3. CASE series.is_active
  <2> DEFINE key == key_for(post[p].reset_period, post[p].seen.issued_on, post[p].opening)
  <2>1. /\ post[p].reset_period \in ResetPeriods
        /\ post[p].seen.issued_on \in Nat
        /\ post[p].opening \in Months
        /\ series.pattern \in SUBSET Tokens
    BY DEF IInv, TypeOK, Poster
  <2>2. key \in PeriodKeys
    BY <2>1, KeyType
  <2>3. /\ NextCounter(key) \in Nat \ {0}
        /\ NextCounter(key) \in starts \/ Issued(key, NextCounter(key) - 1)
    BY NextCounterFollows DEF IInv
  <2>4. /\ Allocated(p).counter = NextCounter(key)
        /\ Allocated(p).period_key = key
        /\ Allocated(p).number.counter = NextCounter(key)
        /\ Allocated(p) \in Allocation
    <3> HIDE DEF key
    <3>1. /\ render(series.pattern, NextCounter(key), post[p].seen.issued_on,
                    post[p].opening) \in Numbers
          /\ render(series.pattern, NextCounter(key), post[p].seen.issued_on,
                    post[p].opening).counter = NextCounter(key)
      BY <2>1, <2>3, RenderType
    <3>2. Allocated(p) =
            [counter |-> NextCounter(key), period_key |-> key,
             number |-> render(series.pattern, NextCounter(key), post[p].seen.issued_on,
                               post[p].opening)]
      BY DEF Allocated, key
    <3>3. QED
      BY <2>2, <2>3, <3>1, <3>2 DEF Allocation
  <2> HIDE DEF key
  <2>5. /\ post' \in [Posters -> Poster]
        /\ post'[p].pc = "allocated" /\ post'[p].id = post[p].id
        /\ post'[p].taken = Allocated(p)
        /\ \A q \in Posters \ {p} : post'[q] = post[q]
    <3>1. post \in [Posters -> Poster]
      BY DEF IInv, TypeOK
    <3>2. QED
      BY <1>3, <2>4, <3>1 DEF Allocate, Poster
  <2>6. SeriesHolders' = {p}
    BY <2>5 DEF SeriesHolders, SeriesFree, Allocate
  <2>7. TypeOK'
    BY <1>1, <2>5 DEF Private, IInv, TypeOK
  <2>8. AllocatorsQueue'
    BY <2>6 DEF AllocatorsQueue
  <2>9. TakenFollows'
    BY <1>1, <2>3, <2>4, <2>5, <2>6 DEF TakenFollows, Private, Issued
  <2>10. PostersHaveInvoices'
    BY <1>1, <2>5 DEF Allocate, Private, IInv, PostersHaveInvoices
  <2>11. StoredIsReady'
    BY <2>5, <2>6 DEF StoredIsReady, SeriesHolders
  <2>12. QED
    BY <1>1, <2>7, <2>8, <2>9, <2>10, <2>11 DEF Private, IInv, StartIsKnown,
       CounterIsIssued, NoGaps, NumbersKept, NumberedOnce, Issued
<1>4. QED
  BY <1>2, <1>3

(* store::post keeps the number in hand, and checks the index.             *)
LEMMA StoreInv ==
    ASSUME IInv, NEW p \in Posters, Store(p)
    PROVE  IInv'
<1> DEFINE i == post[p].id
<1>1. Private
  BY DEF Private, Store
<1>2. CASE ~(invoices[i].status = "draft" /\ NumberIsFree(post[p].taken.number))
  BY <1>1, <1>2, EndedInv DEF Store
<1>3. CASE invoices[i].status = "draft" /\ NumberIsFree(post[p].taken.number)
  <2>1. /\ post' \in [Posters -> Poster]
        /\ post[p].pc = "allocated" /\ post'[p].pc = "stored"
        /\ post'[p].id = i /\ post'[p].taken = post[p].taken
        /\ \A q \in Posters \ {p} : post'[q] = post[q]
    <3>1. post \in [Posters -> Poster]
      BY DEF IInv, TypeOK
    <3>2. QED
      BY <1>3, <3>1 DEF Store, Poster
  <2>2. SeriesHolders' = SeriesHolders
    BY <2>1 DEF SeriesHolders
  <2>3. TypeOK'
    BY <1>1, <2>1 DEF Private, IInv, TypeOK
  <2>4. AllocatorsQueue' /\ TakenFollows'
    <3>1. \A q \in Posters : post'[q].taken = post[q].taken
      BY <2>1
    <3>2. QED
      BY <1>1, <2>2, <3>1 DEF IInv, AllocatorsQueue, TakenFollows, Private, Issued,
         SeriesHolders
  <2>5. PostersHaveInvoices' /\ StoredIsReady'
    BY <1>1, <1>3, <2>1 DEF IInv, PostersHaveInvoices, StoredIsReady, NumberIsFree, Private
  <2>6. QED
    BY <1>1, <2>3, <2>4, <2>5 DEF Private, IInv, StartIsKnown,
       CounterIsIssued, NoGaps, NumbersKept, NumberedOnce, Issued
<1>4. QED
  BY <1>2, <1>3

(* The commit is where everything meets: the number leaves the transaction *)
(* for the ledger and the row's counter becomes its.                       *)
LEMMA CommitInv ==
    ASSUME IInv, NEW p \in Posters, Commit(p)
    PROVE  IInv'
<1> DEFINE t == post[p].taken
           i == post[p].id
           e == [id |-> i, number |-> t.number, period |-> t.period_key,
                 counter |-> t.counter]
<1>1. /\ post[p] \in Poster /\ post[p].pc = "stored" /\ p \in SeriesHolders
      /\ i \in Invoices
      /\ t \in Allocation
      /\ post[p].seen \in Contents
      /\ post[p].seen.issued_on \in Nat
  <2>1. post[p] \in Poster /\ post[p].pc = "stored"
    BY DEF IInv, TypeOK, Commit
  <2>2. QED
    BY <2>1 DEF Poster, SeriesHolders, IInv, PostersHaveInvoices
<1>2. /\ t.counter \in Nat \ {0} /\ t.number \in Numbers /\ t.number # Unnumbered
      /\ t.period_key \in PeriodKeys
      /\ t.counter \in starts \/ Issued(t.period_key, t.counter - 1)
  BY <1>1 DEF IInv, TakenFollows, Allocation, Unnumbered
<1>3. /\ invoices[i].status = "draft"
      /\ NumberIsFree(t.number)
  BY <1>1 DEF IInv, StoredIsReady
<1>4. /\ post' = [post EXCEPT ![p] = NotPosting]
      /\ UNCHANGED <<opening, admin, starts>>
      /\ ledger' = ledger \cup {e}
  BY DEF Commit, Ended
<1>5. /\ invoices' \in [Invoices -> Invoice]
      /\ invoices'[i].status = "posted" /\ invoices'[i].number = t.number
      /\ \A j \in Invoices \ {i} : invoices'[j] = invoices[j]
  <2>1. invoices \in [Invoices -> Invoice] /\ conversion_for(post[p].seen) \in Amounts \cup {NULL}
    BY <1>1 DEF IInv, TypeOK, conversion_for, Amounts
  <2> HIDE DEF i
  <2>2. QED
    BY <1>1, <1>2, <2>1, ZenonT(60) DEF Commit, Invoice, i
<1>6. /\ series'.start_at = series.start_at
      /\ series'.counter = t.counter
      /\ series'.period_key = t.period_key
      /\ series' \in [pattern: SUBSET Tokens, reset_period: ResetPeriods,
                      start_at: Nat \ {0}, is_active: BOOLEAN,
                      period_key: PeriodKeys, counter: Nat]
  <2>1. series \in [pattern: SUBSET Tokens, reset_period: ResetPeriods,
                    start_at: Nat \ {0}, is_active: BOOLEAN,
                    period_key: PeriodKeys, counter: Nat]
    BY DEF IInv, TypeOK
  <2>2. series' = [series EXCEPT !.counter = t.counter, !.period_key = t.period_key]
    BY DEF Commit
  <2> HIDE DEF t
  <2>3. QED
    BY <1>2, <2>1, <2>2
<1>7. SeriesHolders' = {}
  <2>1. \A q \in Posters : q # p => post'[q] = post[q] /\ q \notin SeriesHolders
    BY <1>1, <1>4 DEF IInv, TypeOK, AllocatorsQueue
  <2>2. post'[p].pc = "idle"
    BY <1>4 DEF IInv, TypeOK, NotPosting
  <2>3. QED
    BY <2>1, <2>2 DEF SeriesHolders
<1>8. e \in [id: Invoices, number: Numbers, period: PeriodKeys, counter: Nat]
  BY <1>1, <1>2
<1> HIDE DEF t, i
<1>9. TypeOK'
  <2>1. post' \in [Posters -> Poster]
    BY <1>4, NotPostingType DEF IInv, TypeOK
  <2>2. \A j \in Invoices :
          invoices'[j].status \in {"posted", "voided"} <=> invoices'[j].number # Unnumbered
    BY <1>1, <1>2, <1>5 DEF IInv, TypeOK
  <2>3. ledger' \subseteq [id: Invoices, number: Numbers, period: PeriodKeys,
                           counter: Nat]
    BY <1>4, <1>8 DEF IInv, TypeOK
  <2>4. QED
    BY <1>4, <1>5, <1>6, <2>1, <2>2, <2>3 DEF IInv, TypeOK
<1>10. CounterIsIssued'
  <2>1. e \in ledger' /\ e.period = t.period_key /\ e.counter = t.counter
    BY <1>4
  <2>2. \E d \in ledger' : d.period = series'.period_key /\ d.counter = series'.counter
    BY <1>6, <2>1
  <2>3. QED
    BY <2>2 DEF CounterIsIssued, Issued
<1>11. NoGaps'
  BY <1>2, <1>4 DEF IInv, NoGaps, Issued
<1>12. NumbersKept'
  <2>1. \A d \in ledger : d.id \in Invoices \ {i}
    BY <1>3 DEF IInv, TypeOK, NumbersKept
  <2>2. \A d \in ledger : invoices'[d.id] = invoices[d.id]
    BY <1>5, <2>1
  <2>3. QED
    BY <1>4, <1>5, <2>2 DEF IInv, NumbersKept
<1>13. NumberedOnce'
  <2>1. \A d \in ledger : d.id # i /\ d.number # t.number
    BY <1>3 DEF IInv, TypeOK, NumbersKept, NumberIsFree
  <2>2. QED
    BY <1>4, <2>1 DEF IInv, NumberedOnce
<1>14. PostersHaveInvoices'
  BY <1>4 DEF IInv, TypeOK, PostersHaveInvoices, NotPosting
<1>15. /\ AllocatorsQueue' /\ TakenFollows'
       /\ StoredIsReady'
  BY <1>7 DEF AllocatorsQueue, TakenFollows, StoredIsReady, SeriesHolders
<1>16. StartIsKnown'
  BY <1>4, <1>6 DEF IInv, StartIsKnown
<1>17. QED
  BY <1>9, <1>10, <1>11, <1>12, <1>13, <1>14, <1>15, <1>16 DEF IInv

-----------------------------------------------------------------------------
(* Administrators move the start, never the counter or its period.         *)

LEMMA AdminInv ==
    ASSUME IInv,
           \/ \E a \in Admins, change \in Changes : CheckSettings(a, change)
           \/ \E a \in Admins : SaveSettings(a)
           \/ \E m \in Openings : SaveProfile(m)
           \/ UNCHANGED vars
    PROVE  IInv'
<1>1. /\ UNCHANGED <<invoices, post, ledger>>
      /\ UNCHANGED SeriesHolders
      /\ starts \subseteq starts'
  BY DEF CheckSettings, SaveSettings, SaveProfile, vars, SeriesHolders
<1>2. /\ series'.counter = series.counter
      /\ series'.period_key = series.period_key
      /\ series'.start_at \in starts'
      /\ series' \in [pattern: SUBSET Tokens, reset_period: ResetPeriods,
                      start_at: Nat \ {0}, is_active: BOOLEAN,
                      period_key: PeriodKeys, counter: Nat]
      /\ starts' \subseteq Nat \ {0}
  <2>1. /\ series \in [pattern: SUBSET Tokens, reset_period: ResetPeriods,
                       start_at: Nat \ {0}, is_active: BOOLEAN,
                       period_key: PeriodKeys, counter: Nat]
        /\ starts \subseteq Nat \ {0}
        /\ series.start_at \in starts
    BY DEF IInv, TypeOK, StartIsKnown
  <2>2. CASE UNCHANGED <<series, starts>>
    BY <2>1, <2>2
  <2>3. ASSUME NEW a \in Admins, SaveSettings(a)
        PROVE  <1>2!1 /\ <1>2!2 /\ <1>2!3 /\ <1>2!4 /\ <1>2!5
    <3>1. admin[a].change \in Settings
      BY DEF IInv, TypeOK
    <3>2. QED
      BY <2>1, <2>3, <3>1 DEF SaveSettings, Settings
  <2>4. QED
    BY <2>2, <2>3 DEF CheckSettings, SaveProfile, vars
<1>3. TypeOK'
  <2>1. admin' \in [Admins -> [pc: {"idle", "checked"}, change: Settings]]
    <3>1. admin \in [Admins -> [pc: {"idle", "checked"}, change: Settings]]
      BY DEF IInv, TypeOK
    <3>2. ASSUME NEW a \in Admins, NEW change \in Changes, CheckSettings(a, change)
          PROVE  admin' \in [Admins -> [pc: {"idle", "checked"}, change: Settings]]
      BY <3>1, <3>2 DEF CheckSettings
    <3>3. ASSUME NEW a \in Admins, SaveSettings(a)
          PROVE  admin' \in [Admins -> [pc: {"idle", "checked"}, change: Settings]]
      BY <3>1, <3>3 DEF SaveSettings
    <3>4. QED
      BY <3>1, <3>2, <3>3 DEF SaveProfile, vars
  <2>2. opening' \in Months
    BY DEF IInv, TypeOK, CheckSettings, SaveSettings, SaveProfile, vars
  <2>3. QED
    BY <1>1, <1>2, <2>1, <2>2 DEF IInv, TypeOK
<1>4. TakenFollows' /\ NoGaps'
  BY <1>1 DEF IInv, TakenFollows, NoGaps, Issued
<1>5. CounterIsIssued' /\ StartIsKnown'
  BY <1>1, <1>2 DEF IInv, CounterIsIssued, StartIsKnown, Issued
<1>6. QED
  BY <1>1, <1>3, <1>4, <1>5 DEF IInv, AllocatorsQueue, PostersHaveInvoices, StoredIsReady,
     NumberIsFree, NumbersKept, NumberedOnce

-----------------------------------------------------------------------------
(* Every step keeps the invariant.                                         *)
LEMMA NextInv == IInv /\ [Next]_vars => IInv'
<1> SUFFICES ASSUME IInv, [Next]_vars PROVE IInv'
  OBVIOUS
<1>1. ASSUME NEW i \in Invoices, NEW c \in Contents,
             save_new(i, c) \/ save_existing(i, c)
      PROVE  IInv'
  BY <1>1, DraftInv
<1>2. ASSUME NEW i \in Invoices, void(i) \/ delete(i)
      PROVE  IInv'
  BY <1>2, DraftInv
<1>3. ASSUME NEW i \in Invoices, NEW p \in Posters, Find(p, i)
      PROVE  IInv'
  BY <1>3, PreparingInv
<1>4. ASSUME NEW p \in Posters, Open(p) \/ ReadPeriod(p) \/ Rollback(p)
      PROVE  IInv'
  <2>1. PICK i \in Invoices : TRUE
    BY <1>4 DEF IInv, PostersHaveInvoices, Open, ReadPeriod, Rollback
  <2>2. QED
    BY <1>4, <2>1, PreparingInv
<1>5. ASSUME NEW p \in Posters, Allocate(p) \/ Store(p) \/ Commit(p)
      PROVE  IInv'
  BY <1>5, AllocateInv, StoreInv, CommitInv
<1>6. QED
  BY <1>1, <1>2, <1>3, <1>4, <1>5, AdminInv DEF Next, Posting

(* Everything the model holds has its type.                                *)
THEOREM TypeCorrect == Spec => []TypeOK
<1>1. IInv => TypeOK
  BY DEF IInv
<1>2. QED
  BY InitInv, NextInv, <1>1, PTL DEF Spec

(* services/books/invoice.rs post: whatever requests and administrators do, *)
(* a number follows another or begins where a start was set.               *)
THEOREM Unbroken == Spec => []NoGaps
<1>1. IInv => NoGaps
  BY DEF IInv
<1>2. QED
  BY InitInv, NextInv, <1>1, PTL DEF Spec

(* No two invoices ever carry the same number, voided ones included.       *)
THEOREM NumberedOnlyOnce == Spec => []NumberedOnce
<1>1. IInv => NumberedOnce
  BY DEF IInv
<1>2. QED
  BY InitInv, NextInv, <1>1, PTL DEF Spec

(* A committed number never leaves the invoice it was committed to.        *)
THEOREM NumbersStay == Spec => []NumbersKept
<1>1. IInv => NumbersKept
  BY DEF IInv
<1>2. QED
  BY InitInv, NextInv, <1>1, PTL DEF Spec

(* Transactions that hold an allocated number never overlap.               *)
THEOREM Queued == Spec => []AllocatorsQueue
<1>1. IInv => AllocatorsQueue
  BY DEF IInv
<1>2. QED
  BY InitInv, NextInv, <1>1, PTL DEF Spec

(* What is posted is neither edited nor deleted, whoever else is at work.  *)
THEOREM PostedStaysFrozen == Spec => PostedIsFrozen
<1> DEFINE Kept == \A i \in Invoices : invoices[i].status \in {"posted", "voided"} => Frozen(i)
<1>1. IInv /\ [Next]_vars => [Kept]_invoices
  <2> SUFFICES ASSUME IInv, [Next]_vars, NEW i \in Invoices,
                      invoices[i].status \in {"posted", "voided"}
               PROVE  Frozen(i)
    OBVIOUS
  <2>1. invoices \in [Invoices -> Invoice]
    BY DEF IInv, TypeOK
  <2>2. ASSUME NEW j \in Invoices, NEW c \in Contents,
               save_new(j, c) \/ save_existing(j, c) \/ void(j) \/ delete(j)
        PROVE  Frozen(i)
    BY <2>1, <2>2 DEF Frozen, Invoice, save_new, save_existing, void, delete
  <2>3. ASSUME NEW j \in Invoices, void(j) \/ delete(j)
        PROVE  Frozen(i)
    BY <2>1, <2>3 DEF Frozen, Invoice, void, delete
  <2>4. ASSUME NEW p \in Posters, Commit(p)
        PROVE  Frozen(i)
    <3>1. post[p].id # i
      BY <2>4 DEF Commit, IInv, StoredIsReady
    <3>2. invoices'[i] = invoices[i]
      BY <2>1, <2>4, <3>1 DEF Commit
    <3>3. QED
      BY <3>2 DEF Frozen
  <2>5. CASE UNCHANGED invoices
    BY <2>5 DEF Frozen
  <2>6. QED
    BY <2>2, <2>3, <2>4, <2>5 DEF Next, Posting, vars, Find, Open, ReadPeriod, Allocate,
       Store, Rollback, CheckSettings, SaveSettings, SaveProfile
<1>2. QED
  BY InitInv, NextInv, <1>1, PTL DEF Spec, PostedIsFrozen

-----------------------------------------------------------------------------
(* Invoices implements UnbrokenSeries: a commit issues a number, a saved   *)
(* setting may move the start, and nothing else shows.                     *)

numbers == {[number |-> e.number, period |-> e.period, counter |-> e.counter] : e \in ledger}

(* A commit is one issue of the series.                                    *)
LEMMA CommitIssues ==
    ASSUME IInv, NEW p \in Posters, Commit(p)
    PROVE  Series!Issue
<1> DEFINE t == post[p].taken
           n == [number |-> t.number, period |-> t.period_key, counter |-> t.counter]
<1>1. p \in SeriesHolders /\ NumberIsFree(t.number)
  BY DEF Commit, SeriesHolders, IInv, StoredIsReady
<1>2. \/ t.counter \in starts
      \/ \E m \in ledger : m.period = t.period_key /\ m.counter = t.counter - 1
  BY <1>1 DEF IInv, TakenFollows, Issued
<1>3. Series!Follows(n.period, n.counter)
  <2>1. CASE t.counter \in starts
    BY <2>1 DEF Series!Follows
  <2>2. CASE \E m \in ledger : m.period = t.period_key /\ m.counter = t.counter - 1
    <3>1. PICK m \in ledger : m.period = t.period_key /\ m.counter = t.counter - 1
      BY <2>2
    <3>2. [number |-> m.number, period |-> m.period, counter |-> m.counter] \in numbers
      BY DEF numbers
    <3>3. \E k \in numbers : k.period = n.period /\ k.counter = n.counter - 1
      BY <3>1, <3>2
    <3>4. QED
      BY <3>3 DEF Series!Follows, numbers
  <2>3. QED
    BY <1>2, <2>1, <2>2
<1>4. \A m \in numbers : m.number # n.number
  BY <1>1 DEF IInv, TypeOK, NumbersKept, NumberIsFree, numbers
<1>5. numbers' = numbers \cup {n}
  <2> DEFINE e == [id |-> post[p].id, number |-> t.number, period |-> t.period_key,
                   counter |-> t.counter]
  <2>1. ledger' = ledger \cup {e}
    BY DEF Commit
  <2>2. e.number = t.number /\ e.period = t.period_key /\ e.counter = t.counter
    OBVIOUS
  <2> HIDE DEF e
  <2>3. QED
    BY <2>1, <2>2 DEF numbers
<1>6. n \in numbers' /\ UNCHANGED starts
  BY <1>5 DEF Commit
<1> HIDE DEF n
<1>7. QED
  BY <1>3, <1>4, <1>5, <1>6 DEF Series!Issue, numbers

(* Every step is a step of the series, or none.                            *)
LEMMA NextImplements ==
    IInv /\ [Next]_vars => [Series!Next]_<<numbers, starts>>
<1> SUFFICES ASSUME IInv, [Next]_vars PROVE [Series!Next]_<<numbers, starts>>
  OBVIOUS
<1>1. ASSUME NEW p \in Posters, Commit(p) PROVE Series!Next
  BY <1>1, CommitIssues DEF Series!Next
<1>2. ASSUME NEW a \in Admins, SaveSettings(a) PROVE Series!Next
  <2>1. /\ UNCHANGED numbers
        /\ starts' = starts \cup {admin[a].change.start_at}
    BY <1>2 DEF SaveSettings, numbers
  <2>2. QED
    BY <2>1 DEF Series!Next, Series!MoveStart, numbers
<1>3. CASE UNCHANGED <<ledger, starts>>
  BY <1>3 DEF numbers
<1>4. QED
  BY <1>1, <1>2, <1>3 DEF Next, Posting, vars, save_new, save_existing, void, delete,
     Find, Open, ReadPeriod, Allocate, Store, Rollback, CheckSettings, SaveProfile

(* The books are an unbroken series, step by step.                         *)
THEOREM Implementation == Spec => ImplementsSeries
<1>1. Init => Series!Init
  BY DEF Init, Series!Init
<1>2. [Series!Next]_<<numbers, starts>> <=>
        [Series!Next]_<<{[number |-> e.number, period |-> e.period, counter |-> e.counter]
                           : e \in ledger}, starts>>
  BY DEF numbers
<1>3. QED
  BY InitInv, NextInv, NextImplements, <1>1, <1>2, PTL DEF Spec, ImplementsSeries, Series!Spec

-----------------------------------------------------------------------------
(* One period: the reset periods and the year openings there can be make   *)
(* one key of every date.  So it is with a series that never resets, with  *)
(* any settings that do not reset it, and with documents of one period.    *)

Resets == {InitialSettings.reset_period} \cup {change.reset_period : change \in Changes}

OpeningMonths == {InitialOpening} \cup Openings

IsThePeriod(key) ==
    \A reset \in Resets, c \in Contents, month \in OpeningMonths :
        key_for(reset, c.issued_on, month) = key

OnePeriod == \E key \in PeriodKeys : IsThePeriod(key)

(* Nothing the settings and the dates are read from leaves that period.    *)
SettingsStay ==
    /\ series.reset_period \in Resets
    /\ \A a \in Admins : admin[a].change.reset_period \in Resets
    /\ opening \in OpeningMonths
    /\ \A p \in Posters :
          /\ post[p].opening \in OpeningMonths
          /\ post[p].pc = "allocating" => post[p].reset_period \in Resets

(* The row counts in the period, and no invoice has a higher number.       *)
CounterIsHighest(key) ==
    /\ series.counter > 0 => series.period_key = key
    /\ \A i \in Invoices :
          invoices[i].status \in {"posted", "voided"} => invoices[i].number.counter <= series.counter

(* A number in hand is higher still.                                       *)
TakenIsHigher(key) ==
    \A p \in SeriesHolders :
        /\ post[p].taken.period_key = key
        /\ post[p].taken.number.counter = post[p].taken.counter
        /\ post[p].taken.counter > series.counter

Rising(key) == SettingsStay /\ CounterIsHighest(key) /\ TakenIsHigher(key)

(* A step that leaves the row, the invoices and the settings alone, after  *)
(* which the poster holds no lock.                                         *)
LEMMA UnlockedRises ==
    ASSUME IInv, NEW key, Rising(key), NEW p \in Posters,
           UNCHANGED <<invoices, series, opening, admin>>,
           \A q \in Posters \ {p} : post'[q] = post[q],
           post'[p].pc \notin {"allocated", "stored"},
           post'[p].opening \in OpeningMonths,
           post'[p].pc = "allocating" => post'[p].reset_period \in Resets
    PROVE  Rising(key)'
<1>1. SettingsStay'
  BY DEF Rising, SettingsStay
<1>2. CounterIsHighest(key)'
  BY DEF Rising, CounterIsHighest
<1>3. TakenIsHigher(key)'
  BY DEF Rising, TakenIsHigher, SeriesHolders
<1>4. QED
  BY <1>1, <1>2, <1>3 DEF Rising

LEMMA EndedRises ==
    ASSUME IInv, NEW key, Rising(key), NEW p \in Posters, Ended(p),
           UNCHANGED <<invoices, series, opening, admin>>
    PROVE  Rising(key)'
<1>1. post'[p] = NotPosting /\ \A q \in Posters \ {p} : post'[q] = post[q]
  BY DEF Ended, IInv, TypeOK
<1>2. post'[p].pc = "idle" /\ post'[p].opening \in OpeningMonths
  BY <1>1 DEF NotPosting, OpeningMonths
<1>3. QED
  BY <1>1, <1>2, UnlockedRises

(* Drafting and voiding number nothing.                                    *)
LEMMA DraftRises ==
    ASSUME IInv, NEW key, Rising(key), NEW i \in Invoices, NEW c \in Contents,
           save_new(i, c) \/ save_existing(i, c) \/ void(i) \/ delete(i)
    PROVE  Rising(key)'
<1>1. UNCHANGED <<series, opening, post, admin>>
  BY DEF save_new, save_existing, void, delete
<1>2. ASSUME NEW j \in Invoices, invoices'[j].status \in {"posted", "voided"}
      PROVE  invoices[j].status \in {"posted", "voided"} /\ invoices'[j].number = invoices[j].number
  <2>1. invoices \in [Invoices -> Invoice]
    BY DEF IInv, TypeOK
  <2>2. CASE j # i
    BY <1>2, <2>1, <2>2 DEF save_new, save_existing, void, delete
  <2>3. CASE j = i
    BY <1>2, <2>1, <2>3 DEF save_new, save_existing, void, delete, Invoice, Row
  <2>4. QED
    BY <2>2, <2>3
<1>3. CounterIsHighest(key)'
  BY <1>1, <1>2 DEF Rising, CounterIsHighest
<1>4. SettingsStay' /\ TakenIsHigher(key)'
  BY <1>1 DEF Rising, SettingsStay, TakenIsHigher, SeriesHolders
<1>5. QED
  BY <1>3, <1>4 DEF Rising

LEMMA PreparingRises ==
    ASSUME IInv, NEW key, Rising(key), NEW p \in Posters, NEW i \in Invoices,
           Find(p, i) \/ Open(p) \/ ReadPeriod(p) \/ Rollback(p)
    PROVE  Rising(key)'
<1>1. UNCHANGED <<invoices, series, opening, admin>>
  BY DEF Find, Open, ReadPeriod, Rollback
<1>2. /\ post \in [Posters -> Poster] /\ post[p] \in Poster
      /\ post[p].opening \in OpeningMonths /\ opening \in OpeningMonths
      /\ series.reset_period \in Resets
  BY DEF IInv, TypeOK, Rising, SettingsStay
<1>3. CASE Find(p, i)
  <2>1. /\ post'[p].pc = "found" /\ post'[p].opening = post[p].opening
        /\ \A q \in Posters \ {p} : post'[q] = post[q]
    BY <1>2, <1>3 DEF Find, Poster
  <2>2. QED
    BY <1>1, <1>2, <2>1, UnlockedRises
<1>4. CASE Open(p)
  <2>1. /\ post'[p].pc = "begun" /\ post'[p].opening = opening
        /\ \A q \in Posters \ {p} : post'[q] = post[q]
    BY <1>2, <1>4 DEF Open, Poster
  <2>2. QED
    BY <1>1, <1>2, <2>1, UnlockedRises
<1>5. CASE ReadPeriod(p) /\ series.is_active
  <2>1. /\ post'[p].pc = "allocating" /\ post'[p].reset_period = series.reset_period
        /\ post'[p].opening = post[p].opening
        /\ \A q \in Posters \ {p} : post'[q] = post[q]
    BY <1>2, <1>5 DEF ReadPeriod, Poster
  <2>2. QED
    BY <1>1, <1>2, <2>1, UnlockedRises
<1>6. CASE (ReadPeriod(p) /\ ~series.is_active) \/ Rollback(p)
  BY <1>1, <1>6, EndedRises DEF ReadPeriod, Rollback
<1>7. QED
  BY <1>3, <1>4, <1>5, <1>6

(* The row is alone with the allocation, and gives it a number above its   *)
(* own: one more, or a start that is higher.                               *)
LEMMA AllocateRises ==
    ASSUME IInv, NEW key, IsThePeriod(key), Rising(key), NEW p \in Posters, Allocate(p)
    PROVE  Rising(key)'
<1>1. UNCHANGED <<invoices, series, opening, admin>>
  BY DEF Allocate
<1>2. CASE ~series.is_active
  BY <1>1, <1>2, EndedRises DEF Allocate
<1>3. CASE series.is_active
  <2>0. post \in [Posters -> Poster] /\ post[p] \in Poster
    BY DEF IInv, TypeOK
  <2>1. /\ post[p].reset_period \in Resets /\ post[p].seen \in Contents
        /\ post[p].opening \in OpeningMonths
    BY <2>0 DEF Allocate, Rising, SettingsStay, Poster
  <2>2. key_for(post[p].reset_period, post[p].seen.issued_on, post[p].opening) = key
    BY <2>1 DEF IsThePeriod
  <2>3. series.counter \in Nat /\ series.start_at \in Nat \ {0}
    BY DEF IInv, TypeOK
  <2>4. NextCounter(key) > series.counter
    BY <2>3 DEF NextCounter, Rising, CounterIsHighest
  <2>5. /\ Allocated(p).period_key = key /\ Allocated(p).counter = NextCounter(key)
        /\ Allocated(p).number.counter = NextCounter(key)
    BY <2>2 DEF Allocated, render
  <2>6. /\ post'[p].pc = "allocated" /\ post'[p].opening = post[p].opening
        /\ post'[p].taken = Allocated(p)
        /\ \A q \in Posters \ {p} : post'[q] = post[q]
    BY <1>3, <2>0 DEF Allocate, Poster
  <2>7. \A q \in SeriesHolders' : q = p
    BY <2>6 DEF SeriesHolders, SeriesFree, Allocate
  <2>8. TakenIsHigher(key)'
    BY <1>1, <2>4, <2>5, <2>6, <2>7 DEF TakenIsHigher, SeriesHolders
  <2>9. SettingsStay' /\ CounterIsHighest(key)'
    BY <1>1, <2>1, <2>6 DEF Rising, SettingsStay, CounterIsHighest
  <2>10. QED
    BY <2>8, <2>9 DEF Rising
<1>4. QED
  BY <1>2, <1>3

LEMMA StoreRises ==
    ASSUME IInv, NEW key, Rising(key), NEW p \in Posters, Store(p)
    PROVE  Rising(key)'
<1>1. UNCHANGED <<invoices, series, opening, admin>>
  BY DEF Store
<1>2. CASE Ended(p)
  BY <1>1, <1>2, EndedRises
<1>3. CASE post' = [post EXCEPT ![p].pc = "stored"]
  <2>1. post \in [Posters -> Poster] /\ post[p] \in Poster /\ post[p].pc = "allocated"
    BY DEF IInv, TypeOK, Store
  <2>2. /\ post'[p].pc = "stored" /\ post'[p].opening = post[p].opening
        /\ post'[p].taken = post[p].taken
        /\ \A q \in Posters \ {p} : post'[q] = post[q]
    BY <1>3, <2>1 DEF Poster
  <2>3. SeriesHolders' = SeriesHolders /\ \A q \in Posters : post'[q].taken = post[q].taken
    BY <2>1, <2>2 DEF SeriesHolders
  <2>4. TakenIsHigher(key)'
    <3>1. SUFFICES ASSUME NEW q \in SeriesHolders'
                   PROVE  /\ post'[q].taken.period_key = key
                          /\ post'[q].taken.number.counter = post'[q].taken.counter
                          /\ post'[q].taken.counter > series.counter
      BY <1>1 DEF TakenIsHigher
    <3>2. q \in SeriesHolders /\ post'[q].taken = post[q].taken
      BY <2>3, <3>1 DEF SeriesHolders
    <3>3. QED
      BY <3>2 DEF Rising, TakenIsHigher
  <2>5. SettingsStay' /\ CounterIsHighest(key)'
    BY <1>1, <2>2 DEF Rising, SettingsStay, CounterIsHighest
  <2>6. QED
    BY <2>4, <2>5 DEF Rising
<1>4. QED
  BY <1>2, <1>3 DEF Store

(* The number that is committed is the highest now.                        *)
LEMMA CommitRises ==
    ASSUME IInv, NEW key, Rising(key), NEW p \in Posters, Commit(p)
    PROVE  Rising(key)'
<1> DEFINE t == post[p].taken
           i == post[p].id
<1>1. /\ p \in SeriesHolders /\ i \in Invoices /\ t.counter \in Nat /\ series.counter \in Nat
      /\ invoices \in [Invoices -> Invoice]
  BY DEF IInv, TypeOK, PostersHaveInvoices, SeriesHolders, Commit, Poster, Allocation
<1>2. t.period_key = key /\ t.number.counter = t.counter /\ t.counter > series.counter
  BY <1>1 DEF Rising, TakenIsHigher
<1>3. /\ series' = [series EXCEPT !.counter = t.counter, !.period_key = t.period_key]
      /\ invoices' = [invoices EXCEPT ![i].status = "posted", ![i].number = t.number,
                                      ![i].base_gross = conversion_for(post[p].seen)]
      /\ UNCHANGED <<opening, admin>> /\ Ended(p)
  BY DEF Commit
<1>4. /\ series'.counter = t.counter /\ series'.period_key = t.period_key
      /\ series'.reset_period = series.reset_period
  <2>1. series \in [pattern: SUBSET Tokens, reset_period: ResetPeriods,
                    start_at: Nat \ {0}, is_active: BOOLEAN,
                    period_key: PeriodKeys, counter: Nat]
    BY DEF IInv, TypeOK
  <2> HIDE DEF t
  <2>2. QED
    BY <1>3, <2>1
<1>5. invoices'[i].number = t.number /\ \A j \in Invoices \ {i} : invoices'[j] = invoices[j]
  <2> HIDE DEF t, i
  <2>1. QED
    BY <1>1, <1>3 DEF Invoice
<1>6. post'[p] = NotPosting /\ \A q \in Posters \ {p} : post'[q] = post[q]
  BY <1>3 DEF Ended, IInv, TypeOK
<1> HIDE DEF t, i
<1>7. \A j \in Invoices : invoices[j].status \in {"posted", "voided"} => invoices[j].number.counter \in Nat
  BY <1>1 DEF Invoice, Numbers
<1>8. CounterIsHighest(key)'
  <2>1. ASSUME NEW j \in Invoices, invoices'[j].status \in {"posted", "voided"}
        PROVE  invoices'[j].number.counter <= series'.counter
    <3>1. CASE j = i
      BY <1>1, <1>2, <1>4, <1>5, <3>1
    <3>2. CASE j # i
      <4>1. /\ invoices[j].number.counter \in Nat
            /\ invoices[j].number.counter <= series.counter
            /\ invoices'[j] = invoices[j]
        BY <1>5, <1>7, <2>1, <3>2 DEF Rising, CounterIsHighest
      <4>2. QED
        BY <1>1, <1>2, <1>4, <4>1
    <3>3. QED
      BY <3>1, <3>2
  <2>2. QED
    BY <1>2, <1>4, <2>1 DEF CounterIsHighest
<1>9. SeriesHolders' = {}
  <2>1. \A q \in Posters : q # p => post'[q] = post[q] /\ q \notin SeriesHolders
    BY <1>1, <1>6 DEF IInv, AllocatorsQueue
  <2>2. post'[p].pc = "idle"
    BY <1>6 DEF NotPosting
  <2>3. QED
    BY <2>1, <2>2 DEF SeriesHolders
<1>10. TakenIsHigher(key)'
  BY <1>9 DEF TakenIsHigher
<1>11. SettingsStay'
  <2>1. post'[p].pc = "idle" /\ post'[p].opening = InitialOpening
    BY <1>6 DEF NotPosting
  <2>2. QED
    BY <1>3, <1>4, <1>6, <2>1 DEF Rising, SettingsStay, OpeningMonths
<1>12. QED
  BY <1>8, <1>10, <1>11 DEF Rising

LEMMA AdminRises ==
    ASSUME IInv, NEW key, Rising(key),
           \/ \E a \in Admins, change \in Changes : CheckSettings(a, change)
           \/ \E a \in Admins : SaveSettings(a)
           \/ \E m \in Openings : SaveProfile(m)
           \/ UNCHANGED vars
    PROVE  Rising(key)'
<1>1. UNCHANGED <<invoices, post>>
  BY DEF CheckSettings, SaveSettings, SaveProfile, vars
<1>2. series'.counter = series.counter /\ series'.period_key = series.period_key
  <2>1. series \in [pattern: SUBSET Tokens, reset_period: ResetPeriods,
                    start_at: Nat \ {0}, is_active: BOOLEAN,
                    period_key: PeriodKeys, counter: Nat]
    BY DEF IInv, TypeOK
  <2>2. QED
    BY <2>1 DEF CheckSettings, SaveSettings, SaveProfile, vars
<1>3. CounterIsHighest(key)' /\ TakenIsHigher(key)'
  BY <1>1, <1>2 DEF Rising, CounterIsHighest, TakenIsHigher, SeriesHolders
<1>4. SettingsStay'
  <2>0. /\ series \in [pattern: SUBSET Tokens, reset_period: ResetPeriods,
                       start_at: Nat \ {0}, is_active: BOOLEAN,
                       period_key: PeriodKeys, counter: Nat]
        /\ admin \in [Admins -> [pc: {"idle", "checked"}, change: Settings]]
    BY DEF IInv, TypeOK
  <2>1. ASSUME NEW a \in Admins, NEW change \in Changes, CheckSettings(a, change) PROVE SettingsStay'
    <3>1. change.reset_period \in Resets
      BY DEF Resets
    <3>2. \A b \in Admins : admin'[b].change \in {admin[b].change, change}
      BY <2>0, <2>1 DEF CheckSettings
    <3>3. QED
      BY <2>1, <3>1, <3>2 DEF CheckSettings, Rising, SettingsStay
  <2>2. ASSUME NEW a \in Admins, SaveSettings(a) PROVE SettingsStay'
    <3>1. series'.reset_period = admin[a].change.reset_period
      BY <2>0, <2>2 DEF SaveSettings
    <3>2. \A b \in Admins : admin'[b].change = admin[b].change
      BY <2>0, <2>2 DEF SaveSettings
    <3>3. QED
      BY <2>2, <3>1, <3>2 DEF SaveSettings, Rising, SettingsStay
  <2>3. ASSUME NEW m \in Openings, SaveProfile(m) PROVE SettingsStay'
    BY <2>3 DEF SaveProfile, Rising, SettingsStay, OpeningMonths
  <2>4. CASE UNCHANGED vars
    BY <2>4 DEF vars, Rising, SettingsStay
  <2>5. QED
    BY <2>1, <2>2, <2>3, <2>4
<1>5. QED
  BY <1>3, <1>4 DEF Rising

LEMMA RisingInit ==
    ASSUME NEW key, Init PROVE Rising(key)
<1>1. SeriesHolders = {} /\ \A p \in Posters : post[p].opening = InitialOpening /\ post[p].pc = "idle"
  BY DEF Init, SeriesHolders, NotPosting
<1>2. \A i \in Invoices : invoices[i].status = "none"
  BY DEF Init, Row
<1>3. QED
  BY <1>1, <1>2 DEF Init, Rising, SettingsStay, CounterIsHighest, TakenIsHigher, Resets, OpeningMonths

LEMMA RisingNext ==
    ASSUME NEW key, IsThePeriod(key), IInv, Rising(key), [Next]_vars PROVE Rising(key)'
<1>1. ASSUME NEW i \in Invoices, NEW c \in Contents, save_new(i, c) \/ save_existing(i, c)
      PROVE  Rising(key)'
  BY <1>1, DraftRises
<1>2. ASSUME NEW i \in Invoices, void(i) \/ delete(i) PROVE Rising(key)'
  <2>1. PICK c \in Contents : TRUE
    OBVIOUS
  <2>2. QED
    BY <1>2, <2>1, DraftRises
<1>3. ASSUME NEW i \in Invoices, NEW p \in Posters, Find(p, i) PROVE Rising(key)'
  BY <1>3, PreparingRises
<1>4. ASSUME NEW p \in Posters, Open(p) \/ ReadPeriod(p) \/ Rollback(p) PROVE Rising(key)'
  <2>1. PICK i \in Invoices : TRUE
    BY <1>4 DEF IInv, PostersHaveInvoices, Open, ReadPeriod, Rollback
  <2>2. QED
    BY <1>4, <2>1, PreparingRises
<1>5. ASSUME NEW p \in Posters, Allocate(p) \/ Store(p) \/ Commit(p) PROVE Rising(key)'
  BY <1>5, AllocateRises, StoreRises, CommitRises
<1>6. QED
  BY <1>1, <1>2, <1>3, <1>4, <1>5, AdminRises DEF Next, Posting

LEMMA FreshWhileRising ==
    ASSUME NEW key, TypeOK, Rising(key) PROVE AllocationIsFresh
<1>1. SUFFICES ASSUME NEW p \in Posters, post[p].pc = "allocated", NEW i \in Invoices,
                      invoices[i].status \in {"posted", "voided"}
               PROVE  invoices[i].number # post[p].taken.number
  BY DEF AllocationIsFresh, NumberIsFree
<1>2. p \in SeriesHolders
  BY <1>1 DEF SeriesHolders
<1>3. series.counter \in Nat /\ invoices[i].number.counter \in Nat /\ post[p].taken.counter \in Nat
  BY DEF TypeOK, Invoice, Numbers, Poster, Allocation
<1>4. /\ invoices[i].number.counter <= series.counter
      /\ post[p].taken.counter > series.counter
      /\ post[p].taken.number.counter = post[p].taken.counter
  BY <1>1, <1>2 DEF Rising, CounterIsHighest, TakenIsHigher
<1>5. QED
  BY <1>3, <1>4

(* numbering.rs: within one period the number in hand is one no invoice    *)
(* has, however start_at is moved and whatever is rolled back, so the      *)
(* index never refuses a post: the row's counter is the highest there is.  *)
THEOREM FreshInOnePeriod ==
    ASSUME OnePeriod
    PROVE  Spec => []AllocationIsFresh
<1>1. PICK key \in PeriodKeys : IsThePeriod(key)
  BY DEF OnePeriod
<1>2. Init => Rising(key)
  BY RisingInit
<1>3. IInv /\ Rising(key) /\ [Next]_vars => Rising(key)'
  BY <1>1, RisingNext
<1>4. IInv /\ Rising(key) => AllocationIsFresh
  BY FreshWhileRising DEF IInv
<1>5. QED
  BY InitInv, NextInv, <1>2, <1>3, <1>4, PTL DEF Spec
=============================================================================
