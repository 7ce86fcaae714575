------------------------------- MODULE Invoices -------------------------------
(***************************************************************************)
(* Sales invoices and the series that numbers them: drafting, posting,     *)
(* voiding and deleting an invoice while administrators edit the series    *)
(* and the financial year.                                                 *)
(*                                                                         *)
(*   phonix-services/src/books/invoice.rs   the operations                 *)
(*   phonix-db/src/books/invoice.rs         their statements               *)
(*   phonix-db/src/numbering.rs             the allocation                 *)
(*   phonix-services/src/numbering.rs       the settings screen            *)
(*                                                                         *)
(* PostgreSQL runs at READ COMMITTED: a statement sees what was committed  *)
(* when it began, an UPDATE waits for the row it wants and then looks at   *)
(* the row again.  What a posting transaction has written stays in `post'  *)
(* until it commits, and the locks it holds follow from how far it is.     *)
(***************************************************************************)
EXTENDS NumberPeriods, FiniteSets

CONSTANTS
    Invoices,         \* invoice ids
    Posters,          \* requests that post an invoice, one after another
    Admins,           \* settings screens
    Contents,         \* what a draft may say: [issued_on, amount]
    Foreign,          \* the amounts that are not in the workspace's currency
    Changes,          \* the settings an administrator may save
    Openings,         \* the months an administrator may open the year in
    InitialSettings,  \* the series as the app's manifest declares it
    InitialOpening,   \* fiscal_year_start_month when the workspace is made
    NULL              \* no invoice, or no amount

Settings == [pattern: SUBSET Tokens, reset_period: ResetPeriods,
             start_at: Nat \ {0}, is_active: BOOLEAN]

ASSUME InvoicesAssumption ==
    /\ Contents # {} /\ \A c \in Contents : c.issued_on \in Nat
    /\ InitialSettings \in Settings /\ Changes \subseteq Settings
    /\ InitialOpening \in Months /\ Openings \subseteq Months
    /\ NULL \notin Invoices \cup {c.amount : c \in Contents}

VARIABLES
    invoices,  \* books.invoices: what every other transaction sees
    series,    \* the core.number_sequences row, committed
    opening,   \* organization_profile.fiscal_year_start_month
    post,      \* the posting requests and their open transactions
    admin,     \* the settings screens
    ledger,    \* history: every number ever committed, and to what
    starts     \* history: every value start_at has had

vars == <<invoices, series, opening, post, admin, ledger, starts>>

Amounts == {c.amount : c \in Contents}
Numbers == [counter: Nat, text: SUBSET (Tokens \X Int)]
Unnumbered == [counter |-> 0, text |-> {}]

Invoice == [status: {"none", "draft", "posted", "voided", "deleted"},
            content: Contents, number: Numbers, base_gross: Amounts \cup {NULL}]

Allocation == [counter: Nat, period_key: PeriodKeys, number: Numbers]

NoAllocation == [counter |-> 0, period_key |-> NoPeriod, number |-> Unnumbered]

(* A poster's locals: the invoice it found, the year opening its generator *)
(* holds, the reset period it read, and what the allocation returned.      *)
Poster == [pc: {"idle", "found", "begun", "allocating", "allocated", "stored"},
           id: Invoices \cup {NULL}, seen: Contents, opening: Months,
           reset_period: ResetPeriods, taken: Allocation]

TypeOK ==
    /\ invoices \in [Invoices -> Invoice]
    /\ \A i \in Invoices :  \* invoices_number_follows_status
         invoices[i].status \in {"posted", "voided"} <=> invoices[i].number # Unnumbered
    /\ series \in [pattern: SUBSET Tokens, reset_period: ResetPeriods,
                   start_at: Nat \ {0}, is_active: BOOLEAN,
                   period_key: PeriodKeys, counter: Nat]
    /\ opening \in Months
    /\ post \in [Posters -> Poster]
    /\ admin \in [Admins -> [pc: {"idle", "checked"}, change: Settings]]
    /\ ledger \subseteq [id: Invoices, number: Numbers, period: PeriodKeys,
                         counter: Nat]
    /\ starts \subseteq Nat \ {0}

Blank == CHOOSE c \in Contents : TRUE

(* An invoice with nothing on it.                                          *)
Row(status) == [status |-> status, content |-> Blank,
                number |-> Unnumbered, base_gross |-> NULL]

NotPosting == [pc |-> "idle", id |-> NULL, seen |-> Blank, opening |-> InitialOpening,
               reset_period |-> "never", taken |-> NoAllocation]

Init ==
    /\ invoices = [i \in Invoices |-> Row("none")]
    /\ series = [pattern |-> InitialSettings.pattern,
                 reset_period |-> InitialSettings.reset_period,
                 start_at |-> InitialSettings.start_at,
                 is_active |-> InitialSettings.is_active,
                 period_key |-> NoPeriod, counter |-> 0]
    /\ opening = InitialOpening
    /\ post = [p \in Posters |-> NotPosting]
    /\ admin = [a \in Admins |-> [pc |-> "idle", change |-> InitialSettings]]
    /\ ledger = {}
    /\ starts = {InitialSettings.start_at}

-----------------------------------------------------------------------------
(* Locks.  The allocation takes the series row, store::post the invoice    *)
(* row as well; both are held until the transaction ends.                  *)

SeriesHolders == {p \in Posters : post[p].pc \in {"allocated", "stored"}}
SeriesFree == SeriesHolders = {}
InvoiceFree(i) == \A p \in Posters : ~(post[p].pc = "stored" /\ post[p].id = i)

-----------------------------------------------------------------------------
(* Drafts.  save_draft, void and delete_draft are one transaction each; the *)
(* check each service makes first is made again by the statement's WHERE.  *)

save_new(i, c) ==
    /\ invoices[i].status = "none"
    /\ invoices' = [invoices EXCEPT ![i].status = "draft", ![i].content = c]
    /\ UNCHANGED <<series, opening, post, admin, ledger, starts>>

(* Mutant: the UPDATE does not ask whether the invoice is a draft.          *)
save_existingUnchecked(i, c) ==
    /\ invoices[i].status \in {"draft", "posted"}
    /\ InvoiceFree(i)
    /\ invoices' = [invoices EXCEPT ![i].content = c]
    /\ UNCHANGED <<series, opening, post, admin, ledger, starts>>

save_existing(i, c) ==
    /\ invoices[i].status = "draft"
    /\ InvoiceFree(i)
    /\ invoices' = [invoices EXCEPT ![i].content = c]
    /\ UNCHANGED <<series, opening, post, admin, ledger, starts>>

(* Mutant: the number goes with the document it was on.                    *)
voidForgetting(i) ==
    /\ invoices[i].status = "posted"
    /\ invoices' = [invoices EXCEPT ![i].status = "voided", ![i].number = Unnumbered]
    /\ UNCHANGED <<series, opening, post, admin, ledger, starts>>

void(i) ==
    /\ invoices[i].status = "posted"
    /\ invoices' = [invoices EXCEPT ![i].status = "voided"]
    /\ UNCHANGED <<series, opening, post, admin, ledger, starts>>

(* Mutant: the check the service made is not made again.                   *)
deleteUnchecked(i) ==
    /\ invoices[i].status \in {"draft", "posted"}
    /\ InvoiceFree(i)
    /\ invoices' = [invoices EXCEPT ![i] = Row("deleted")]
    /\ UNCHANGED <<series, opening, post, admin, ledger, starts>>

delete(i) ==
    /\ invoices[i].status = "draft"
    /\ InvoiceFree(i)
    /\ invoices' = [invoices EXCEPT ![i] = Row("deleted")]
    /\ UNCHANGED <<series, opening, post, admin, ledger, starts>>

-----------------------------------------------------------------------------
(* Posting.                                                                *)

(* find, on the pool: the document as it is now.                           *)
Find(p, i) ==
    /\ post[p].pc = "idle"
    /\ invoices[i].status = "draft"
    /\ post' = [post EXCEPT ![p].pc = "found", ![p].id = i, ![p].seen = invoices[i].content]
    /\ UNCHANGED <<invoices, series, opening, admin, ledger, starts>>

(* NumberGenerator::open reads the year opening and keeps it; BEGIN.       *)
Open(p) ==
    /\ post[p].pc = "found"
    /\ post' = [post EXCEPT ![p].pc = "begun", ![p].opening = opening]
    /\ UNCHANGED <<invoices, series, opening, admin, ledger, starts>>

Ended(p) == post' = [post EXCEPT ![p] = NotPosting]

(* current_reset_period: a plain SELECT, which locks nothing.              *)
ReadPeriod(p) ==
    /\ post[p].pc = "begun"
    /\ IF series.is_active
       THEN post' = [post EXCEPT ![p].pc = "allocating",
                                 ![p].reset_period = series.reset_period]
       ELSE Ended(p)
    /\ UNCHANGED <<invoices, series, opening, admin, ledger, starts>>

(* Mutant: a counter that goes on across a period.                         *)
NextCounterNeverReset(key) ==
    IF series.counter >= series.start_at THEN series.counter + 1 ELSE series.start_at

(* The CASE of the allocating UPDATE.                                      *)
NextCounter(key) ==
    IF series.period_key = key /\ series.counter >= series.start_at
    THEN series.counter + 1
    ELSE series.start_at

Allocated(p) ==
    LET key == key_for(post[p].reset_period, post[p].seen.issued_on, post[p].opening)
    IN [counter |-> NextCounter(key), period_key |-> key,
        number |-> render(series.pattern, NextCounter(key),
                          post[p].seen.issued_on, post[p].opening)]

(* Mutant: the row is read without being locked.                           *)
AllocateUnlocked(p) ==
    /\ post[p].pc = "allocating"
    /\ IF series.is_active
       THEN post' = [post EXCEPT ![p].pc = "allocated", ![p].taken = Allocated(p)]
       ELSE Ended(p)
    /\ UNCHANGED <<invoices, series, opening, admin, ledger, starts>>

(* The UPDATE waits for the row and then reads it again.                   *)
Allocate(p) ==
    /\ post[p].pc = "allocating"
    /\ SeriesFree
    /\ IF series.is_active
       THEN post' = [post EXCEPT ![p].pc = "allocated", ![p].taken = Allocated(p)]
       ELSE Ended(p)
    /\ UNCHANGED <<invoices, series, opening, admin, ledger, starts>>

(* Mutant: the index is missing.                                           *)
NumberIsFreeUnindexed(n) == TRUE

(* invoices_number_key: no other invoice has the number.                   *)
NumberIsFree(n) ==
    \A i \in Invoices : invoices[i].status \in {"posted", "voided"} => invoices[i].number # n

(* Mutant: nothing ends the transaction when the invoice is not a draft.    *)
StoreHangs(p) ==
    /\ post[p].pc = "allocated"
    /\ InvoiceFree(post[p].id)
    /\ invoices[post[p].id].status = "draft" /\ NumberIsFree(post[p].taken.number)
    /\ post' = [post EXCEPT ![p].pc = "stored"]
    /\ UNCHANGED <<invoices, series, opening, admin, ledger, starts>>

(* store::post.  An invoice that is no longer a draft and a number that is *)
(* taken both end the transaction, and the number goes back.               *)
Store(p) ==
    /\ post[p].pc = "allocated"
    /\ InvoiceFree(post[p].id)
    /\ IF invoices[post[p].id].status = "draft" /\ NumberIsFree(post[p].taken.number)
       THEN post' = [post EXCEPT ![p].pc = "stored"]
       ELSE Ended(p)
    /\ UNCHANGED <<invoices, series, opening, admin, ledger, starts>>

(* conversion_for: computed from the document as it was found.             *)
conversion_for(c) == IF c.amount \in Foreign THEN c.amount ELSE NULL

(* Mutant: the counter is written without the period it counts in.         *)
CommitStale(p) ==
    /\ post[p].pc = "stored"
    /\ LET t == post[p].taken
           i == post[p].id
       IN /\ invoices' = [invoices EXCEPT ![i].status = "posted", ![i].number = t.number,
                                          ![i].base_gross = conversion_for(post[p].seen)]
          /\ ledger' = ledger \cup {[id |-> i, number |-> t.number, period |-> t.period_key,
                                     counter |-> t.counter]}
          /\ series' = [series EXCEPT !.counter = t.counter]
    /\ Ended(p)
    /\ UNCHANGED <<opening, admin, starts>>

Commit(p) ==
    /\ post[p].pc = "stored"
    /\ LET t == post[p].taken
           i == post[p].id
       IN /\ invoices' = [invoices EXCEPT ![i].status = "posted", ![i].number = t.number,
                                          ![i].base_gross = conversion_for(post[p].seen)]
          /\ ledger' = ledger \cup {[id |-> i, number |-> t.number, period |-> t.period_key,
                                     counter |-> t.counter]}
          /\ series' = [series EXCEPT !.counter = t.counter, !.period_key = t.period_key]
    /\ Ended(p)
    /\ UNCHANGED <<opening, admin, starts>>

(* A failed statement, a lost connection or a dead process at any point:   *)
(* PostgreSQL rolls back and releases the locks.                           *)
Rollback(p) ==
    /\ post[p].pc # "idle"
    /\ Ended(p)
    /\ UNCHANGED <<invoices, series, opening, admin, ledger, starts>>

-----------------------------------------------------------------------------
(* Administrators.                                                         *)

reshaped(change) ==
    \/ series.pattern # change.pattern
    \/ series.reset_period # change.reset_period

WouldReissue(change) ==
    reshaped(change) /\ series.counter > 0 /\ change.start_at <= series.counter

(* save_settings: find and the guard, on one connection of the pool ...    *)
CheckSettings(a, change) ==
    /\ admin[a].pc = "idle"
    /\ ~WouldReissue(change)
    /\ admin' = [admin EXCEPT ![a] = [pc |-> "checked", change |-> change]]
    /\ UNCHANGED <<invoices, series, opening, post, ledger, starts>>

(* ... and repo::update on another, which waits for the row and tests      *)
(* nothing.                                                                *)
SaveSettings(a) ==
    /\ admin[a].pc = "checked"
    /\ SeriesFree
    /\ series' = [series EXCEPT !.pattern = admin[a].change.pattern,
                                !.reset_period = admin[a].change.reset_period,
                                !.start_at = admin[a].change.start_at,
                                !.is_active = admin[a].change.is_active]
    /\ starts' = starts \cup {admin[a].change.start_at}
    /\ admin' = [admin EXCEPT ![a].pc = "idle"]
    /\ UNCHANGED <<invoices, opening, post, ledger>>

(* organization::save, as far as numbering reads it.                       *)
SaveProfile(m) ==
    /\ opening # m
    /\ opening' = m
    /\ UNCHANGED <<invoices, series, post, admin, ledger, starts>>

-----------------------------------------------------------------------------
Posting(p) ==
    \/ Open(p) \/ ReadPeriod(p) \/ Allocate(p) \/ Store(p) \/ Commit(p)

Next ==
    \/ \E i \in Invoices :
         \/ \E c \in Contents : save_new(i, c) \/ save_existing(i, c)
         \/ void(i) \/ delete(i)
         \/ \E p \in Posters : Find(p, i)
    \/ \E p \in Posters : Posting(p) \/ Rollback(p)
    \/ \E a \in Admins : (\E change \in Changes : CheckSettings(a, change)) \/ SaveSettings(a)
    \/ \E m \in Openings : SaveProfile(m)

Spec == Init /\ [][Next]_vars

(* A request that has started runs to its end, and PostgreSQL grants a row *)
(* lock to its waiters in the order they came.                             *)
FairSpec ==
    /\ Spec
    /\ \A p \in Posters : /\ WF_vars(Open(p) \/ ReadPeriod(p) \/ Commit(p))
                          /\ WF_vars(Store(p))
                          /\ SF_vars(Allocate(p))
    /\ \A a \in Admins : SF_vars(SaveSettings(a))

-----------------------------------------------------------------------------
(* What numbering promises.                                                *)

(* Migration 0016: whatever fails, races or is edited, a counter follows   *)
(* another in its period unless an administrator moved the start there.    *)
NoGaps ==
    \A e \in ledger :
        \/ e.counter \in starts
        \/ \E d \in ledger : d.period = e.period /\ d.counter = e.counter - 1

(* ADR 0001: a number that disappears is a gap.  Every number ever         *)
(* committed is still on the invoice it was committed to, posted or voided. *)
NumbersKept ==
    \A e \in ledger :
        /\ invoices[e.id].status \in {"posted", "voided"}
        /\ invoices[e.id].number = e.number

(* No two invoices carry one number, and no invoice was posted twice.      *)
NumberedOnce ==
    \A d, e \in ledger : d # e => d.number # e.number /\ d.id # e.id

(* db/numbering.rs: concurrent allocators queue on the row, from the        *)
(* allocation to the end of the transaction.                               *)
AllocatorsQueue ==
    \A p, q \in Posters : p # q => ~(p \in SeriesHolders /\ q \in SeriesHolders)

(* services/books/invoice.rs post: after it the document is frozen, and    *)
(* voiding it, for good, changes its status alone.                         *)
Frozen(i) ==
    /\ invoices'[i].status \in {"posted", "voided"}
    /\ invoices[i].status = "voided" => invoices'[i].status = "voided"
    /\ invoices'[i].content = invoices[i].content
    /\ invoices'[i].number = invoices[i].number
    /\ invoices'[i].base_gross = invoices[i].base_gross

PostedIsFrozen ==
    [][\A i \in Invoices : invoices[i].status \in {"posted", "voided"} => Frozen(i)]_invoices

(* numbering.rs: within one period a number in hand is one no invoice has, *)
(* wherever start_at is moved, so the index never refuses a post.          *)
AllocationIsFresh ==
    \A p \in Posters : post[p].pc = "allocated" => NumberIsFree(post[p].taken.number)

(* The row lock is always let go: every post that starts comes to an end.  *)
PostsEnd ==
    \A p \in Posters : (post[p].pc # "idle") ~> (post[p].pc = "idle")

(* The books implement an unbroken series.                                 *)
Series == INSTANCE UnbrokenSeries WITH
    FirstStart <- InitialSettings.start_at,
    issued <- {[number |-> e.number, period |-> e.period, counter |-> e.counter] : e \in ledger},
    starts <- starts

ImplementsSeries == Series!Spec

-----------------------------------------------------------------------------
(* What the repository says of the program and a run refutes.              *)

(* config/numbering/books.toml: "an invoice number says which year it      *)
(* belongs to" - two numbers that print the same date parts are of the     *)
(* same period.                                                            *)
NumberSaysItsPeriod ==
    \A d, e \in ledger : d.number.text = e.number.text => d.period = e.period

(* 0001_invoices.sql and conversion_for: the base amount on a posted       *)
(* invoice is its own, or absent because nothing had to be converted.      *)
ConvertedFromItself ==
    \A i \in Invoices : invoices[i].status \in {"posted", "voided"} =>
        invoices[i].base_gross = conversion_for(invoices[i].content)
=============================================================================
