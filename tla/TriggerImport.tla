--------------------------- MODULE TriggerImport ---------------------------
(***************************************************************************)
(* How accounts, vessels, contacts and triggers enter the database: the    *)
(* CSV import, one transaction per row of a file that was validated as a   *)
(* whole, and the posts of POST /internal/triggers, which upsert the same  *)
(* rows in one transaction and record the trigger in another.              *)
(*                                                                         *)
(* Transactions are read committed.  A row that a transaction has written  *)
(* stays locked until it ends, an insert of a key that another open        *)
(* transaction has inserted waits for that transaction, and what is found  *)
(* by a query decides what is written later.  No key protects contacts or  *)
(* triggers from being inserted twice.                                     *)
(***************************************************************************)
EXTENDS Naturals, Sequences

CONSTANTS
    Importers,   \* concurrent runs of import:triggers
    Posters,     \* concurrent POST /internal/triggers
    Refs,        \* external references of accounts
    Imos,        \* IMO numbers of vessels
    Names,       \* contact names
    Emails,      \* contact emails
    Keys,        \* (category, detectedAt) of a trigger
    Files,       \* CSV files: sequences of rows
    MaxStarts    \* bound: imports and posts started in a behaviour

Writers == Importers \cup Posters
Free == "free"
NoOwner == "no owner"
NoVessel == "no vessel"
NoEmail == "no email"
VesselColumns == {"vessel_name", "vessel_imo", "vessel_flag"}
ContactColumns == {"contact_name", "contact_role", "contact_email"}

\* A row of a file: whether its required columns are filled in and well formed, and which of the
\* optional groups' columns are.
CsvRow == [account: Refs, complete: BOOLEAN, vesselCols: SUBSET VesselColumns, imo: Imos,
           contactCols: SUBSET ContactColumns, name: Names, email: Emails, key: Keys]

ASSUME TriggerImportAssumption ==
    /\ Importers \cap Posters = {} /\ Free \notin Writers
    /\ Files \subseteq Seq(CsvRow) \ {<<>>}
    /\ MaxStarts \in Nat

VARIABLES
    known,       \* the accounts there are, each at Tier 2 with its create event when inserted
    owner,       \* Vessel.accountId, per vessel, as the open transaction has it
    contacts,    \* the Contact rows, in the order they were inserted
    triggers,    \* the Trigger rows, in the order they were inserted
    holder,      \* the open transaction that has written an account or a vessel
    pc, rows, found,  \* each writer: next statement, rows to go, what its queries found
    starts,
    whole,       \* history: the file each writer started with
    alone,       \* history: nobody else committed since each import began
    last         \* history: the file last imported with nobody else writing, and what it left

tables == <<known, owner, contacts, triggers>>
history == <<whole, alone, last>>
vars == <<tables, holder, pc, rows, found, starts, history>>

NothingFound == [account |-> FALSE, owner |-> NoOwner, contact |-> 0, trigger |-> 0]
NoImport == [file |-> <<>>, contacts |-> 0, triggers |-> 0]

Init ==
    /\ known = {}
    /\ owner = [v \in Imos |-> NoOwner]
    /\ contacts = <<>> /\ triggers = <<>>
    /\ holder = [x \in Refs \cup Imos |-> Free]
    /\ pc = [w \in Writers |-> "idle"]
    /\ rows = [w \in Writers |-> <<>>] /\ whole = [w \in Writers |-> <<>>]
    /\ found = [w \in Writers |-> NothingFound]
    /\ starts = 0
    /\ alone = [w \in Writers |-> FALSE]
    /\ last = NoImport

(***************************************************************************)
(* validateRow.  A group of optional columns is empty or complete.         *)
(***************************************************************************)
Valid(row) ==
    /\ row.complete
    /\ row.vesselCols \in {{}, VesselColumns}
    /\ row.contactCols # {} => {"contact_name", "contact_role"} \subseteq row.contactCols

VesselOf(row) == IF row.vesselCols = {} THEN NoVessel ELSE row.imo
HasContact(row) == row.contactCols # {}
EmailOf(row) == IF "contact_email" \in row.contactCols THEN row.email ELSE NoEmail

Row(w) == Head(rows[w])

(***************************************************************************)
(* Starting.  A file with an invalid row is rejected before any write.     *)
(***************************************************************************)
Start(w, file) ==
    /\ pc[w] = "idle" /\ starts < MaxStarts
    /\ \A n \in DOMAIN file : Valid(file[n])
    /\ pc' = [pc EXCEPT ![w] = "find"]
    /\ rows' = [rows EXCEPT ![w] = file] /\ whole' = [whole EXCEPT ![w] = file]
    /\ starts' = starts + 1
    /\ alone' = [alone EXCEPT ![w] = TRUE]
    /\ UNCHANGED <<tables, holder, found, last>>

ImportTriggersCsv(i) == \E file \in Files : Start(i, file)

\* What a post carries is what a row can carry.
ReceiveTrigger(p) == \E file \in Files : \E n \in DOMAIN file : Start(p, <<file[n]>>)

(***************************************************************************)
(* The transaction of one row.                                             *)
(***************************************************************************)
Continue(w, step) ==
    /\ pc' = [pc EXCEPT ![w] = step]
    /\ UNCHANGED <<known, contacts, triggers, rows, starts, history>>

Release(w) == holder' = [x \in DOMAIN holder |-> IF holder[x] = w THEN Free ELSE holder[x]]

\* The transaction rolls back and the process, or the request, ends.
Fail(w) ==
    /\ pc' = [pc EXCEPT ![w] = "idle"]
    /\ rows' = [rows EXCEPT ![w] = <<>>] /\ whole' = [whole EXCEPT ![w] = <<>>]
    /\ owner' = [v \in Imos |-> IF holder[v] = w THEN found[w].owner ELSE owner[v]]
    /\ found' = [found EXCEPT ![w] = NothingFound]
    /\ Release(w)
    /\ alone' = [alone EXCEPT ![w] = FALSE]
    /\ UNCHANGED <<known, contacts, triggers, starts, last>>

FindAccount(w) ==
    /\ pc[w] = "find"
    /\ found' = [found EXCEPT ![w].account = Row(w).account \in known]
    /\ Continue(w, "account") /\ UNCHANGED <<owner, holder>>

\* Bug: an account that is known already is left as it is, and so not locked.
WriteNewAccountOnly(w) ==
    /\ pc[w] = "account"
    /\ IF found[w].account
       THEN Continue(w, "vessel") /\ UNCHANGED <<owner, holder, found>>
       ELSE /\ holder[Row(w).account] = Free
            /\ IF Row(w).account \in known THEN Fail(w)
               ELSE /\ holder' = [holder EXCEPT ![Row(w).account] = w]
                    /\ Continue(w, "vessel") /\ UNCHANGED <<owner, found>>

\* An update and an insert both wait for an open transaction on the account; the insert of an
\* account that is there by now violates the key.
WriteAccount(w) ==
    /\ pc[w] = "account" /\ holder[Row(w).account] = Free
    /\ IF found[w].account \/ Row(w).account \notin known
       THEN /\ holder' = [holder EXCEPT ![Row(w).account] = w]
            /\ Continue(w, "vessel") /\ UNCHANGED <<owner, found>>
       ELSE Fail(w)

\* Bug: the vessel is written outside the row's transaction.
UpsertVesselUnlocked(w) ==
    /\ pc[w] = "vessel"
    /\ owner' = [v \in Imos |-> IF v = VesselOf(Row(w)) THEN Row(w).account ELSE owner[v]]
    /\ Continue(w, "contact") /\ UNCHANGED <<holder, found>>

UpsertVessel(w) ==
    /\ pc[w] = "vessel"
    /\ LET vessel == VesselOf(Row(w)) IN
       IF vessel = NoVessel THEN UNCHANGED <<owner, holder, found>>
       ELSE /\ holder[vessel] = Free
            /\ holder' = [holder EXCEPT ![vessel] = w]
            /\ owner' = [owner EXCEPT ![vessel] = Row(w).account]
            /\ found' = [found EXCEPT ![w].owner = owner[vessel]]
    /\ Continue(w, "contact")

\* Bug: a contact without an email is never looked for.
SameContactByEmail(contact, row) ==
    /\ contact.account = row.account
    /\ EmailOf(row) # NoEmail /\ contact.email = EmailOf(row)

SameContact(contact, row) ==
    /\ contact.account = row.account
    /\ IF EmailOf(row) # NoEmail THEN contact.email = EmailOf(row) ELSE contact.name = row.name

SameTrigger(trigger, row) == trigger.account = row.account /\ trigger.key = row.key

\* The first match, in no order: any of them, or 0 when there is none.
FirstOf(matches) == IF matches = {} THEN {0} ELSE matches

FindContact(w) ==
    /\ pc[w] = "contact"
    /\ \E n \in FirstOf({k \in DOMAIN contacts : SameContact(contacts[k], Row(w))}) :
          found' = [found EXCEPT ![w].contact = IF HasContact(Row(w)) THEN n ELSE 0]
    /\ Continue(w, IF w \in Importers THEN "trigger" ELSE "commit") /\ UNCHANGED <<owner, holder>>

FindTrigger(i) ==
    /\ pc[i] = "trigger"
    /\ \E n \in FirstOf({k \in DOMAIN triggers : SameTrigger(triggers[k], Row(i))}) :
          found' = [found EXCEPT ![i].trigger = n]
    /\ Continue(i, "commit") /\ UNCHANGED <<owner, holder>>

\* The row number n of a table, or a new one at its end.
Put(table, n, row) == IF n = 0 THEN Append(table, row) ELSE [table EXCEPT ![n] = row]

NewTrigger(row, posted) ==
    [account |-> row.account, key |-> row.key, vessel |-> VesselOf(row), posted |-> posted]

\* Whether nobody else has written, and what an undisturbed import leaves behind.
Committed(w, contactsNow, triggersNow) ==
    LET finished == w \in Importers /\ Len(rows[w]) = 1 IN
    /\ alone' = [x \in Writers |-> IF x = w THEN alone[w] /\ ~finished ELSE FALSE]
    /\ last' = CASE whole[w] = last.file /\ w \in Importers -> last
                 [] finished /\ alone[w] -> [file |-> whole[w], contacts |-> Len(contactsNow),
                                             triggers |-> Len(triggersNow)]
                 [] OTHER -> NoImport

Commit(w) ==
    /\ pc[w] = "commit"
    /\ LET row == Row(w)
           contactsNow == IF HasContact(row)
                          THEN Put(contacts, found[w].contact,
                                   [account |-> row.account, name |-> row.name,
                                    email |-> EmailOf(row)])
                          ELSE contacts
           triggersNow == IF w \notin Importers THEN triggers
                          ELSE IF found[w].trigger = 0
                               THEN Append(triggers, NewTrigger(row, FALSE))
                               ELSE [triggers EXCEPT ![found[w].trigger].vessel = VesselOf(row)]
       IN /\ known' = known \cup {row.account}
          /\ contacts' = contactsNow
          /\ triggers' = triggersNow
          /\ Committed(w, contactsNow, triggersNow)
    /\ Release(w)
    /\ found' = [found EXCEPT ![w] = NothingFound]
    /\ IF w \in Posters
       THEN /\ pc' = [pc EXCEPT ![w] = "record"]
            /\ UNCHANGED <<rows, whole>>
       ELSE /\ pc' = [pc EXCEPT ![w] = IF Len(rows[w]) > 1 THEN "find" ELSE "idle"]
            /\ rows' = [rows EXCEPT ![w] = Tail(@)]
            /\ whole' = [whole EXCEPT ![w] = IF Len(rows[w]) > 1 THEN @ ELSE <<>>]
    /\ UNCHANGED <<owner, starts>>

\* The post's second transaction: the trigger is new whatever there is already.
RecordIncomingTrigger(p) ==
    /\ pc[p] = "record"
    /\ triggers' = Append(triggers, NewTrigger(Row(p), TRUE))
    /\ pc' = [pc EXCEPT ![p] = "idle"]
    /\ rows' = [rows EXCEPT ![p] = <<>>] /\ whole' = [whole EXCEPT ![p] = <<>>]
    /\ alone' = [w \in Writers |-> FALSE] /\ last' = NoImport
    /\ UNCHANGED <<known, owner, contacts, holder, found, starts>>

\* The process is stopped, or the database refuses a statement.
Stop(w) == pc[w] # "idle" /\ Fail(w)

Transaction(w) ==
    \/ FindAccount(w) \/ WriteAccount(w) \/ UpsertVessel(w) \/ FindContact(w) \/ Commit(w)

Next ==
    \/ \E i \in Importers : ImportTriggersCsv(i) \/ FindTrigger(i)
    \/ \E p \in Posters : ReceiveTrigger(p) \/ RecordIncomingTrigger(p)
    \/ \E w \in Writers : Transaction(w) \/ Stop(w)

Spec == Init /\ [][Next]_vars

(***************************************************************************)
(* Properties.                                                             *)
(***************************************************************************)
\* A trigger that imports bring in is there once, however many imports of the same rows overlap,
\* stop half way and run again, although no key of the table says so: the lock that the upsert of
\* the account takes keeps a second import from looking for the trigger too early.
ImportedOnce ==
    \A m, n \in DOMAIN triggers :
        /\ ~triggers[m].posted /\ ~triggers[n].posted
        /\ triggers[m].account = triggers[n].account /\ triggers[m].key = triggers[n].key
        => m = n

\* No row without an email names a contact that another row of its account has an email for.
ContactsAgree(file) ==
    \A m, n \in DOMAIN file :
        /\ HasContact(file[m]) /\ HasContact(file[n])
        /\ file[m].account = file[n].account /\ file[m].name = file[n].name
        => (EmailOf(file[m]) = NoEmail <=> EmailOf(file[n]) = NoEmail)

\* Running the same file again, any number of times, whole or in part, adds no contact and no
\* trigger, provided that the file is of one mind about who has an email.
RerunDuplicatesNothing ==
    last # NoImport /\ ContactsAgree(last.file) =>
        Len(contacts) = last.contacts /\ Len(triggers) = last.triggers

\* When an import commits a trigger, its vessel is the account's: a transaction of another account
\* that claims the vessel comes before the row or after it.  A post may come too late.
VesselIsTheAccounts ==
    [][\A n \in DOMAIN triggers' :
          \/ n \in DOMAIN triggers /\ triggers'[n] = triggers[n]
          \/ n \notin DOMAIN triggers /\ triggers'[n].posted
          \/ triggers'[n].vessel = NoVessel
          \/ owner'[triggers'[n].vessel] = triggers'[n].account]_vars
=============================================================================
