------------------------ MODULE TriggerImportProofs ------------------------
(***************************************************************************)
(* What holds of TriggerImport for any imports and posts at the same time, *)
(* any files and any of them stopped half way: that imports bring a        *)
(* trigger in once, that a trigger which an import writes names a vessel   *)
(* of its account, and that running a file again adds nothing.             *)
(***************************************************************************)
EXTENDS TriggerImport, SequenceTheorems, TLAPS

(***************************************************************************)
(* The inductive invariant: what each writer holds, and what it found that *)
(* is still so.                                                            *)
(***************************************************************************)
\* From the upsert of its account on, a writer holds the lock of the account.
HoldsAccount(w) ==
    pc[w] \in {"vessel", "contact", "trigger", "commit"} => holder[Row(w).account] = w

\* From the upsert of its vessel on, a writer holds the lock of the vessel, and the vessel is its account's.
HoldsVessel(w) ==
    pc[w] \in {"contact", "trigger", "commit"} /\ VesselOf(Row(w)) # NoVessel =>
        holder[VesselOf(Row(w))] = w /\ owner[VesselOf(Row(w))] = Row(w).account

\* Nobody else adds, or changes, a contact of an account that is locked.
KnowsContact(w) ==
    pc[w] \in {"trigger", "commit"} /\ HasContact(Row(w)) =>
        \/ /\ found[w].contact \in DOMAIN contacts
           /\ SameContact(contacts[found[w].contact], Row(w))
        \/ /\ found[w].contact = 0
           /\ \A n \in DOMAIN contacts : ~SameContact(contacts[n], Row(w))

\* A post may add a trigger, but no other import does, and no trigger ever goes.
KnowsTrigger(w) ==
    pc[w] = "commit" /\ w \in Importers =>
        \/ /\ found[w].trigger \in DOMAIN triggers
           /\ SameTrigger(triggers[found[w].trigger], Row(w))
        \/ /\ found[w].trigger = 0
           /\ \A n \in DOMAIN triggers : SameTrigger(triggers[n], Row(w)) => triggers[n].posted

WriterInv(w) == HoldsAccount(w) /\ HoldsVessel(w) /\ KnowsContact(w) /\ KnowsTrigger(w)

ImportInv == (\A w \in Writers : WriterInv(w)) /\ ImportedOnce

\* The shape of the state.  The rows a writer has to go are the last of those it started with.
Contact == [account: Refs, name: Names, email: Emails \cup {NoEmail}]
Trigger == [account: Refs, key: Keys, vessel: Imos \cup {NoVessel}, posted: BOOLEAN]
Finding == [account: BOOLEAN, owner: Refs \cup {NoOwner}, contact: Nat, trigger: Nat]
Statements == {"idle", "find", "account", "vessel", "contact", "trigger", "commit", "record"}

Suffix(rest, file) ==
    /\ Len(rest) <= Len(file)
    /\ \A n \in 1 .. Len(rest) : rest[n] = file[Len(file) - Len(rest) + n]

Shape ==
    /\ known \subseteq Refs /\ owner \in [Imos -> Refs \cup {NoOwner}]
    /\ contacts \in Seq(Contact) /\ triggers \in Seq(Trigger)
    /\ holder \in [Refs \cup Imos -> Writers \cup {Free}]
    /\ pc \in [Writers -> Statements] /\ found \in [Writers -> Finding]
    /\ rows \in [Writers -> Seq(CsvRow)] /\ whole \in [Writers -> Seq(CsvRow)]
    /\ \A w \in Writers : pc[w] # "idle" => rows[w] # <<>> /\ Suffix(rows[w], whole[w])
    /\ alone \in [Writers -> BOOLEAN]
    /\ last \in [file: Seq(CsvRow), contacts: Nat, triggers: Nat]

(***************************************************************************)
(* Lemmas about rows and tables.                                           *)
(***************************************************************************)
\* A row added to a table leaves the others where they were.
LEMMA Grows ==
    ASSUME NEW S, NEW seq \in Seq(S), NEW e \in S
    PROVE  /\ Append(seq, e) \in Seq(S) /\ Len(Append(seq, e)) = Len(seq) + 1
           /\ Len(seq) \in Nat
           /\ DOMAIN seq = 1 .. Len(seq) /\ DOMAIN Append(seq, e) = 1 .. (Len(seq) + 1)
           /\ \A n \in DOMAIN seq : Append(seq, e)[n] = seq[n]
           /\ Append(seq, e)[Len(seq) + 1] = e
<1>1. Append(seq, e) \in Seq(S)
  BY AppendProperties
<1>2. QED
  BY <1>1, AppendProperties, LenProperties

\* A row that is put in the place of another, too.
LEMMA Replaces ==
    ASSUME NEW S, NEW seq \in Seq(S), NEW k \in DOMAIN seq, NEW e \in S
    PROVE  /\ [seq EXCEPT ![k] = e] \in Seq(S) /\ Len([seq EXCEPT ![k] = e]) = Len(seq)
           /\ Len(seq) \in Nat /\ DOMAIN seq = 1 .. Len(seq)
           /\ DOMAIN [seq EXCEPT ![k] = e] = DOMAIN seq
           /\ \A n \in DOMAIN seq : [seq EXCEPT ![k] = e][n] = IF n = k THEN e ELSE seq[n]
BY LenProperties, ExceptSeq

\* The row a writer is at is a row of its file.
LEMMA RowFacts ==
    ASSUME Shape, NEW w \in Writers, pc[w] # "idle"
    PROVE  /\ Row(w) \in CsvRow /\ Row(w).account \in Refs
           /\ VesselOf(Row(w)) # NoVessel => VesselOf(Row(w)) \in Imos
           /\ VesselOf(Row(w)) \in Imos \cup {NoVessel}
           /\ EmailOf(Row(w)) \in Emails \cup {NoEmail}
<1>1. rows[w] \in Seq(CsvRow) /\ rows[w] # <<>>
  BY DEF Shape
<1>2. Row(w) \in CsvRow
  BY <1>1, HeadTailProperties DEF Row
<1>3. QED
  BY <1>2 DEF CsvRow, VesselOf, EmailOf

\* Which row that is, and what is left after it.
LEMMA SuffixFacts ==
    ASSUME NEW file \in Seq(CsvRow), NEW rest \in Seq(CsvRow), rest # <<>>, Suffix(rest, file)
    PROVE  /\ Len(file) \in Nat /\ Len(rest) \in Nat \ {0}
           /\ Len(file) - Len(rest) + 1 \in DOMAIN file
           /\ Head(rest) = file[Len(file) - Len(rest) + 1]
           /\ Tail(rest) \in Seq(CsvRow) /\ Len(Tail(rest)) = Len(rest) - 1
           /\ Suffix(Tail(rest), file)
           /\ Len(rest) > 1 => Tail(rest) # <<>>
<1>1. /\ Len(file) \in Nat /\ Len(rest) \in Nat /\ DOMAIN file = 1 .. Len(file)
      /\ Len(rest) # 0
  BY LenProperties, EmptySeq
<1>2. /\ Tail(rest) \in Seq(CsvRow) /\ Len(Tail(rest)) = Len(rest) - 1
      /\ \A n \in 1 .. Len(Tail(rest)) : Tail(rest)[n] = rest[n + 1]
  BY HeadTailProperties
<1>3. Head(rest) = rest[1]
  OBVIOUS
<1>4. Len(file) - Len(rest) + 1 \in DOMAIN file /\ Head(rest) = file[Len(file) - Len(rest) + 1]
  BY <1>1, <1>3 DEF Suffix
<1>5. Suffix(Tail(rest), file)
  <2>1. ASSUME NEW n \in 1 .. Len(Tail(rest))
        PROVE  Tail(rest)[n] = file[Len(file) - Len(Tail(rest)) + n]
    <3>1. n + 1 \in 1 .. Len(rest) /\ Tail(rest)[n] = rest[n + 1]
      BY <1>1, <1>2, <2>1
    <3>2. rest[n + 1] = file[Len(file) - Len(rest) + (n + 1)]
      BY <3>1 DEF Suffix
    <3>3. Len(file) - Len(Tail(rest)) + n = Len(file) - Len(rest) + (n + 1)
      BY <1>1, <1>2
    <3>4. QED
      BY <3>1, <3>2, <3>3
  <2>2. QED
    BY <1>1, <1>2, <2>1 DEF Suffix
<1>6. Len(rest) > 1 => Tail(rest) # <<>>
  <2> DEFINE k == Len(rest)
             l == Len(Tail(rest))
  <2>0. k \in Nat /\ l = k - 1
    BY <1>1, <1>2
  <2> HIDE DEF k, l
  <2>1. k > 1 => l # 0
    BY <2>0
  <2>2. QED
    BY <1>2, <2>1, EmptySeq DEF k, l
<1>7. QED
  BY <1>1, <1>2, <1>4, <1>5, <1>6

\* What a commit writes to the contacts: the row's, over the one it found or at the end.
ContactOf(row) == [account |-> row.account, name |-> row.name, email |-> EmailOf(row)]

LEMMA CommitContacts ==
    ASSUME Shape, NEW w \in Writers, KnowsContact(w), Commit(w)
    PROVE  /\ contacts' \in Seq(Contact) /\ Len(contacts') \in Nat
           /\ \A n \in DOMAIN contacts :
                 /\ n \in DOMAIN contacts'
                 /\ \/ contacts'[n] = contacts[n]
                    \/ /\ HasContact(Row(w)) /\ contacts'[n] = ContactOf(Row(w))
                       /\ SameContact(contacts[n], Row(w))
           /\ \A n \in DOMAIN contacts' \ DOMAIN contacts : contacts'[n] = ContactOf(Row(w))
           /\ HasContact(Row(w)) => \E n \in DOMAIN contacts' : contacts'[n] = ContactOf(Row(w))
           /\ (HasContact(Row(w)) => \E n \in DOMAIN contacts : SameContact(contacts[n], Row(w)))
              => Len(contacts') = Len(contacts)
<1>0. pc[w] = "commit" /\ contacts \in Seq(Contact) /\ Len(contacts) \in Nat
      /\ DOMAIN contacts = 1 .. Len(contacts)
  BY LenProperties DEF Shape, Commit
<1>1. ContactOf(Row(w)) \in Contact
  BY <1>0, RowFacts DEF ContactOf, Contact, CsvRow
<1>2. contacts' = IF HasContact(Row(w)) THEN Put(contacts, found[w].contact, ContactOf(Row(w)))
                  ELSE contacts
  BY DEF Commit, ContactOf
<1>3. CASE ~HasContact(Row(w))
  BY <1>0, <1>2, <1>3
<1>4. CASE /\ HasContact(Row(w)) /\ found[w].contact \in DOMAIN contacts
           /\ SameContact(contacts[found[w].contact], Row(w))
  <2>1. found[w].contact # 0
    BY <1>0, <1>4
  <2>2. contacts' = [contacts EXCEPT ![found[w].contact] = ContactOf(Row(w))]
    BY <1>2, <1>4, <2>1 DEF Put
  <2>3. QED
    BY <1>0, <1>1, <1>4, <2>2, Replaces
<1>5. CASE /\ HasContact(Row(w)) /\ found[w].contact = 0
           /\ \A n \in DOMAIN contacts : ~SameContact(contacts[n], Row(w))
  <2>1. contacts' = Append(contacts, ContactOf(Row(w)))
    BY <1>2, <1>5 DEF Put
  <2> DEFINE row == ContactOf(Row(w))
  <2> HIDE DEF row
  <2>2. row \in Contact /\ contacts' = Append(contacts, row)
    BY <1>1, <2>1 DEF row
  <2>3. /\ contacts' \in Seq(Contact) /\ Len(contacts') = Len(contacts) + 1
        /\ DOMAIN contacts' = 1 .. (Len(contacts) + 1)
        /\ \A n \in DOMAIN contacts : contacts'[n] = contacts[n]
        /\ contacts'[Len(contacts) + 1] = row
    BY <1>0, <2>2, Grows
  <2>4. /\ Len(contacts) + 1 \in DOMAIN contacts' /\ Len(contacts') \in Nat
        /\ \A n \in DOMAIN contacts : n \in DOMAIN contacts'
        /\ \A n \in DOMAIN contacts' \ DOMAIN contacts : n = Len(contacts) + 1
    BY <1>0, <2>3
  <2>5. /\ \A n \in DOMAIN contacts' \ DOMAIN contacts : contacts'[n] = ContactOf(Row(w))
        /\ \E n \in DOMAIN contacts' : contacts'[n] = ContactOf(Row(w))
    BY <2>3, <2>4 DEF row
  <2>6. QED
    BY <1>5, <2>3, <2>4, <2>5
<1>6. QED
  BY <1>0, <1>3, <1>4, <1>5 DEF KnowsContact

\* And to the triggers: an import gives the trigger it found the row's vessel, or adds it.
LEMMA CommitTriggers ==
    ASSUME Shape, NEW w \in Writers, KnowsTrigger(w), Commit(w)
    PROVE  /\ triggers' \in Seq(Trigger) /\ Len(triggers') \in Nat
           /\ \A n \in DOMAIN triggers :
                 /\ n \in DOMAIN triggers'
                 /\ triggers'[n].account = triggers[n].account
                 /\ triggers'[n].key = triggers[n].key
                 /\ triggers'[n].posted = triggers[n].posted
                 /\ \/ triggers'[n] = triggers[n]
                    \/ /\ triggers'[n].vessel = VesselOf(Row(w))
                       /\ triggers[n].account = Row(w).account
           /\ \A n \in DOMAIN triggers' \ DOMAIN triggers :
                 /\ w \in Importers /\ n = Len(triggers) + 1
                 /\ triggers'[n] = NewTrigger(Row(w), FALSE)
                 /\ found[w].trigger = 0
           /\ w \in Importers => \E n \in DOMAIN triggers' : SameTrigger(triggers'[n], Row(w))
           /\ (w \in Importers => found[w].trigger # 0) => Len(triggers') = Len(triggers)
<1>0. /\ pc[w] = "commit" /\ triggers \in Seq(Trigger) /\ Len(triggers) \in Nat
      /\ DOMAIN triggers = 1 .. Len(triggers)
  BY LenProperties DEF Shape, Commit
<1>1. NewTrigger(Row(w), FALSE) \in Trigger
  BY <1>0, RowFacts DEF NewTrigger, Trigger, CsvRow
<1>2. CASE w \notin Importers
  <2>1. triggers' = triggers
    BY <1>2 DEF Commit
  <2>2. QED
    BY <1>0, <1>2, <2>1
<1>3. CASE /\ w \in Importers /\ found[w].trigger \in DOMAIN triggers
           /\ SameTrigger(triggers[found[w].trigger], Row(w))
  <2> DEFINE k == found[w].trigger
             trigger == [triggers[k] EXCEPT !.vessel = VesselOf(Row(w))]
  <2>1. k # 0 /\ k \in DOMAIN triggers
    BY <1>0, <1>3
  <2>2. triggers' = [triggers EXCEPT ![k] = trigger]
    BY <1>3, <2>1 DEF Commit
  <2>3. triggers[k] \in Trigger
    BY <1>0, <2>1, ElementOfSeq
  <2>4. /\ trigger \in Trigger
        /\ trigger.account = triggers[k].account /\ trigger.key = triggers[k].key
        /\ trigger.posted = triggers[k].posted /\ trigger.vessel = VesselOf(Row(w))
    BY <1>0, <2>3, RowFacts DEF Trigger
  <2>5. triggers[k].account = Row(w).account /\ triggers[k].key = Row(w).key
    BY <1>3 DEF SameTrigger
  <2> HIDE DEF k, trigger
  <2>6. /\ triggers' \in Seq(Trigger) /\ Len(triggers') = Len(triggers)
        /\ DOMAIN triggers' = DOMAIN triggers
        /\ \A n \in DOMAIN triggers : triggers'[n] = IF n = k THEN trigger ELSE triggers[n]
    BY <1>0, <2>1, <2>2, <2>4, Replaces
  <2>7. SameTrigger(triggers'[k], Row(w))
    BY <2>1, <2>4, <2>5, <2>6 DEF SameTrigger
  <2>8. QED
    BY <1>0, <2>1, <2>4, <2>5, <2>6, <2>7
<1>4. CASE w \in Importers /\ found[w].trigger = 0
  <2>1. triggers' = Append(triggers, NewTrigger(Row(w), FALSE))
    BY <1>4 DEF Commit
  <2> DEFINE row == NewTrigger(Row(w), FALSE)
  <2>2. SameTrigger(row, Row(w))
    BY DEF SameTrigger, NewTrigger
  <2> HIDE DEF row
  <2>3. row \in Trigger /\ triggers' = Append(triggers, row)
    BY <1>1, <2>1 DEF row
  <2>4. /\ triggers' \in Seq(Trigger) /\ Len(triggers') = Len(triggers) + 1
        /\ DOMAIN triggers' = 1 .. (Len(triggers) + 1)
        /\ \A n \in DOMAIN triggers : triggers'[n] = triggers[n]
        /\ triggers'[Len(triggers) + 1] = row
    BY <1>0, <2>3, Grows
  <2>5. /\ Len(triggers) + 1 \in DOMAIN triggers'
        /\ \A n \in DOMAIN triggers' \ DOMAIN triggers : n = Len(triggers) + 1
    BY <1>0, <2>4
  <2>6. \E n \in DOMAIN triggers' : SameTrigger(triggers'[n], Row(w))
    BY <2>2, <2>4, <2>5
  <2>7. /\ Len(triggers') \in Nat
        /\ \A n \in DOMAIN triggers : n \in DOMAIN triggers'
    BY <1>0, <2>4
  <2>8. \A n \in DOMAIN triggers' \ DOMAIN triggers : triggers'[n] = NewTrigger(Row(w), FALSE)
    BY <2>4, <2>5 DEF row
  <2>9. QED
    BY <1>4, <2>4, <2>5, <2>6, <2>7, <2>8
<1>5. QED
  BY <1>0, <1>2, <1>3, <1>4 DEF KnowsTrigger

(***************************************************************************)
(* Every step keeps the shape.                                             *)
(***************************************************************************)
LEMMA StartFile ==
    ASSUME NEW w \in Writers, \/ w \in Importers /\ ImportTriggersCsv(w)
                              \/ w \in Posters /\ ReceiveTrigger(w)
    PROVE  \E file \in Seq(CsvRow) : file # <<>> /\ Start(w, file)
<1>1. CASE ImportTriggersCsv(w)
  BY <1>1, TriggerImportAssumption DEF ImportTriggersCsv
<1>2. CASE ReceiveTrigger(w)
  <2>1. PICK file \in Files : \E n \in DOMAIN file : Start(w, <<file[n]>>)
    BY <1>2 DEF ReceiveTrigger
  <2>2. PICK n \in DOMAIN file : Start(w, <<file[n]>>)
    BY <2>1
  <2>3. file[n] \in CsvRow
    BY TriggerImportAssumption, LenProperties, ElementOfSeq
  <2>4. <<file[n]>> \in Seq(CsvRow) /\ <<file[n]>> # <<>>
    BY <2>3
  <2>5. QED
    BY <2>2, <2>4
<1>3. QED
  BY <1>1, <1>2

LEMMA StartShape ==
    ASSUME Shape, NEW w \in Writers, NEW file \in Seq(CsvRow), file # <<>>, Start(w, file)
    PROVE  Shape'
<1>1. Suffix(file, file)
  BY LenProperties DEF Suffix
<1>2. pc' \in [Writers -> Statements]
  BY DEF Shape, Start, Statements
<1>3. /\ rows' \in [Writers -> Seq(CsvRow)] /\ whole' \in [Writers -> Seq(CsvRow)]
      /\ alone' \in [Writers -> BOOLEAN]
  BY DEF Shape, Start
<1>4. \A q \in Writers : pc'[q] # "idle" => rows'[q] # <<>> /\ Suffix(rows'[q], whole'[q])
  BY <1>1 DEF Shape, Start
<1>5. QED
  BY <1>2, <1>3, <1>4 DEF Shape, Start, tables

LEMMA FailShape ==
    ASSUME Shape, NEW w \in Writers, Fail(w)
    PROVE  Shape'
<1>1. pc' \in [Writers -> Statements] /\ alone' \in [Writers -> BOOLEAN]
  BY DEF Shape, Fail, Statements
<1>2. rows' \in [Writers -> Seq(CsvRow)] /\ whole' \in [Writers -> Seq(CsvRow)]
  BY EmptySeq DEF Shape, Fail
<1>3. found' \in [Writers -> Finding]
  BY DEF Shape, Fail, Finding, NothingFound
<1>4. owner' \in [Imos -> Refs \cup {NoOwner}]
  BY DEF Shape, Fail, Finding
<1>5. holder' \in [Refs \cup Imos -> Writers \cup {Free}]
  BY DEF Shape, Fail, Release
<1>6. \A q \in Writers : pc'[q] # "idle" => rows'[q] # <<>> /\ Suffix(rows'[q], whole'[q])
  BY DEF Shape, Fail
<1>7. QED
  BY <1>1, <1>2, <1>3, <1>4, <1>5, <1>6 DEF Shape, Fail

\* A statement that goes on to the next.
LEMMA ContinueShape ==
    ASSUME Shape, NEW w \in Writers, NEW step \in Statements, pc[w] # "idle", Continue(w, step),
           owner' \in [Imos -> Refs \cup {NoOwner}],
           holder' \in [Refs \cup Imos -> Writers \cup {Free}], found' \in [Writers -> Finding]
    PROVE  Shape'
<1>1. pc' \in [Writers -> Statements]
  BY DEF Shape, Continue
<1>2. \A q \in Writers : pc'[q] # "idle" => rows'[q] # <<>> /\ Suffix(rows'[q], whole'[q])
  BY DEF Shape, Continue, history
<1>3. QED
  BY <1>1, <1>2 DEF Shape, Continue, history

LEMMA CommitShape ==
    ASSUME Shape, NEW w \in Writers, WriterInv(w), Commit(w)
    PROVE  Shape'
<1>0. pc[w] = "commit" /\ rows[w] # <<>> /\ rows[w] \in Seq(CsvRow) /\ whole[w] \in Seq(CsvRow)
      /\ Suffix(rows[w], whole[w])
  BY DEF Shape, Commit
<1>1. Row(w).account \in Refs
  BY <1>0, RowFacts
<1>2. contacts' \in Seq(Contact) /\ Len(contacts') \in Nat
  BY CommitContacts DEF WriterInv
<1>3. triggers' \in Seq(Trigger) /\ Len(triggers') \in Nat
  BY CommitTriggers DEF WriterInv
<1>4. holder' \in [Refs \cup Imos -> Writers \cup {Free}] /\ found' \in [Writers -> Finding]
      /\ known' \subseteq Refs /\ owner' \in [Imos -> Refs \cup {NoOwner}]
  BY <1>1 DEF Shape, Commit, Release, Finding, NothingFound
<1>5. pc' \in [Writers -> Statements]
  <2>1. \E step \in Statements : pc' = [pc EXCEPT ![w] = step]
    BY DEF Commit, Statements
  <2>2. QED
    BY <2>1 DEF Shape
<1>6. /\ Tail(rows[w]) \in Seq(CsvRow) /\ Suffix(Tail(rows[w]), whole[w])
      /\ Len(rows[w]) > 1 => Tail(rows[w]) # <<>>
  BY <1>0, SuffixFacts
<1>7. /\ rows' \in [Writers -> Seq(CsvRow)] /\ whole' \in [Writers -> Seq(CsvRow)]
      /\ \A q \in Writers : pc'[q] # "idle" => rows'[q] # <<>> /\ Suffix(rows'[q], whole'[q])
  <2>1. CASE w \in Posters
    <3>1. rows' = rows /\ whole' = whole
      BY <2>1 DEF Commit
    <3>2. \A q \in Writers : pc'[q] # "idle" => pc[q] # "idle"
      BY <1>0 DEF Shape, Commit
    <3>3. \A q \in Writers : pc'[q] # "idle" => rows'[q] # <<>> /\ Suffix(rows'[q], whole'[q])
      BY <3>1, <3>2 DEF Shape
    <3>4. rows' \in [Writers -> Seq(CsvRow)] /\ whole' \in [Writers -> Seq(CsvRow)]
      BY <3>1 DEF Shape
    <3>5. QED
      BY <3>3, <3>4
  <2>2. CASE w \notin Posters
    <3>1. /\ rows' = [rows EXCEPT ![w] = Tail(rows[w])]
          /\ whole' = [whole EXCEPT ![w] = IF Len(rows[w]) > 1 THEN whole[w] ELSE <<>>]
          /\ pc' = [pc EXCEPT ![w] = IF Len(rows[w]) > 1 THEN "find" ELSE "idle"]
      BY <2>2 DEF Commit
    <3>2. rows' \in [Writers -> Seq(CsvRow)] /\ whole' \in [Writers -> Seq(CsvRow)]
      BY <1>0, <1>6, <3>1, EmptySeq DEF Shape
    <3>3. ASSUME NEW q \in Writers, pc'[q] # "idle"
          PROVE  rows'[q] # <<>> /\ Suffix(rows'[q], whole'[q])
      <4>1. CASE q = w
        BY <1>6, <3>1, <3>3, <4>1 DEF Shape
      <4>2. CASE q # w
        BY <3>1, <3>3, <4>2 DEF Shape
      <4>3. QED
        BY <4>1, <4>2
    <3>4. QED
      BY <3>2, <3>3
  <2>3. QED
    BY <2>1, <2>2
<1>8. alone' \in [Writers -> BOOLEAN]
  BY DEF Shape, Commit, Committed
<1>9. last' \in [file: Seq(CsvRow), contacts: Nat, triggers: Nat]
  <2>1. NoImport \in [file: Seq(CsvRow), contacts: Nat, triggers: Nat]
    BY EmptySeq DEF NoImport
  <2>2. \/ last' = last \/ last' = NoImport
        \/ last' = [file |-> whole[w], contacts |-> Len(contacts'), triggers |-> Len(triggers')]
    BY DEF Commit, Committed
  <2>3. QED
    BY <1>0, <1>2, <1>3, <2>1, <2>2 DEF Shape
<1>10. QED
  BY <1>2, <1>3, <1>4, <1>5, <1>7, <1>8, <1>9 DEF Shape

LEMMA ShapeStep ==
    ASSUME Shape, ImportInv, [Next]_vars
    PROVE  Shape'
<1>0. /\ \A w \in Writers : pc[w] \in Statements /\ found[w] \in Finding
      /\ pc \in [Writers -> Statements] /\ found \in [Writers -> Finding]
      /\ owner \in [Imos -> Refs \cup {NoOwner}]
      /\ holder \in [Refs \cup Imos -> Writers \cup {Free}]
  BY DEF Shape
<1>1. ASSUME NEW w \in Writers, FindAccount(w) PROVE Shape'
  <2>1. found' \in [Writers -> Finding]
    <3> DEFINE isKnown == Row(w).account \in known
    <3>1. isKnown \in BOOLEAN /\ found' = [found EXCEPT ![w].account = isKnown]
      BY <1>1 DEF FindAccount
    <3> HIDE DEF isKnown
    <3>2. QED
      BY <1>0, <3>1 DEF Finding
  <2>2. pc[w] # "idle" /\ Continue(w, "account") /\ "account" \in Statements
    BY <1>1 DEF FindAccount, Statements
  <2>3. owner' \in [Imos -> Refs \cup {NoOwner}] /\ holder' \in [Refs \cup Imos -> Writers \cup {Free}]
    BY <1>0, <1>1 DEF FindAccount
  <2>4. QED
    BY <2>1, <2>2, <2>3, ContinueShape
<1>2. ASSUME NEW w \in Writers, WriteAccount(w) PROVE Shape'
  <2>1. CASE Fail(w)
    BY <2>1, FailShape
  <2>2. CASE /\ holder' = [holder EXCEPT ![Row(w).account] = w]
             /\ Continue(w, "vessel") /\ UNCHANGED <<owner, found>>
    <3>1. pc[w] # "idle" /\ "vessel" \in Statements
      BY <1>2 DEF WriteAccount, Statements
    <3>2. /\ owner' \in [Imos -> Refs \cup {NoOwner}] /\ found' \in [Writers -> Finding]
          /\ holder' \in [Refs \cup Imos -> Writers \cup {Free}]
      BY <1>0, <2>2
    <3>3. QED
      BY <2>2, <3>1, <3>2, ContinueShape
  <2>3. QED
    BY <1>2, <2>1, <2>2 DEF WriteAccount
<1>3. ASSUME NEW w \in Writers, UpsertVessel(w) PROVE Shape'
  <2>1. pc[w] # "idle" /\ Continue(w, "contact") /\ "contact" \in Statements
    BY <1>3 DEF UpsertVessel, Statements
  <2>2. /\ owner' \in [Imos -> Refs \cup {NoOwner}] /\ found' \in [Writers -> Finding]
        /\ holder' \in [Refs \cup Imos -> Writers \cup {Free}]
    <3>1. CASE UNCHANGED <<owner, holder, found>>
      BY <1>0, <3>1
    <3>2. CASE VesselOf(Row(w)) # NoVessel
      <4>1. VesselOf(Row(w)) \in Imos /\ Row(w).account \in Refs
        BY <2>1, <3>2, RowFacts
      <4>2. /\ holder' = [holder EXCEPT ![VesselOf(Row(w))] = w]
            /\ owner' = [owner EXCEPT ![VesselOf(Row(w))] = Row(w).account]
            /\ found' = [found EXCEPT ![w].owner = owner[VesselOf(Row(w))]]
        BY <1>3, <3>2 DEF UpsertVessel
      <4>3. found' \in [Writers -> Finding]
        BY <1>0, <4>1, <4>2 DEF Finding
      <4>4. QED
        BY <1>0, <4>1, <4>2, <4>3
    <3>3. QED
      BY <1>3, <3>1, <3>2 DEF UpsertVessel
  <2>3. QED
    BY <2>1, <2>2, ContinueShape
<1>4. ASSUME NEW w \in Writers, FindContact(w) PROVE Shape'
  <2>1. PICK n \in FirstOf({k \in DOMAIN contacts : SameContact(contacts[k], Row(w))}) :
           found' = [found EXCEPT ![w].contact = IF HasContact(Row(w)) THEN n ELSE 0]
    BY <1>4 DEF FindContact
  <2>2. n \in Nat
    BY LenProperties DEF FirstOf, Shape
  <2>3. found' \in [Writers -> Finding]
    BY <1>0, <2>1, <2>2 DEF Finding
  <2>4. PICK step \in Statements : Continue(w, step)
    BY <1>4 DEF FindContact, Statements
  <2>5. /\ owner' \in [Imos -> Refs \cup {NoOwner}] /\ holder' \in [Refs \cup Imos -> Writers \cup {Free}]
        /\ pc[w] # "idle"
    BY <1>0, <1>4 DEF FindContact
  <2>6. QED
    BY <2>3, <2>4, <2>5, ContinueShape
<1>5. ASSUME NEW w \in Writers, FindTrigger(w) PROVE Shape'
  <2>1. PICK n \in FirstOf({k \in DOMAIN triggers : SameTrigger(triggers[k], Row(w))}) :
           found' = [found EXCEPT ![w].trigger = n]
    BY <1>5 DEF FindTrigger
  <2>2. n \in Nat
    BY LenProperties DEF FirstOf, Shape
  <2>3. found' \in [Writers -> Finding]
    BY <1>0, <2>1, <2>2 DEF Finding
  <2>4. Continue(w, "commit") /\ "commit" \in Statements /\ pc[w] # "idle"
    BY <1>5 DEF FindTrigger, Statements
  <2>5. /\ owner' \in [Imos -> Refs \cup {NoOwner}] /\ holder' \in [Refs \cup Imos -> Writers \cup {Free}]
    BY <1>0, <1>5 DEF FindTrigger
  <2>6. QED
    BY <2>3, <2>4, <2>5, ContinueShape
<1>6. ASSUME NEW w \in Writers, RecordIncomingTrigger(w) PROVE Shape'
  <2>1. NewTrigger(Row(w), TRUE) \in Trigger
    BY <1>6, RowFacts DEF RecordIncomingTrigger, NewTrigger, Trigger, CsvRow
  <2>2. triggers' \in Seq(Trigger)
    BY <1>6, <2>1, AppendProperties DEF Shape, RecordIncomingTrigger
  <2>3. pc' = [pc EXCEPT ![w] = "idle"] /\ pc' \in [Writers -> Statements]
    BY <1>0, <1>6 DEF RecordIncomingTrigger, Statements
  <2>4. rows' \in [Writers -> Seq(CsvRow)] /\ whole' \in [Writers -> Seq(CsvRow)]
    BY <1>6, EmptySeq DEF Shape, RecordIncomingTrigger
  <2>5. \A q \in Writers : pc'[q] # "idle" => rows'[q] # <<>> /\ Suffix(rows'[q], whole'[q])
    BY <1>6, <2>3 DEF Shape, RecordIncomingTrigger
  <2>6. NoImport \in [file: Seq(CsvRow), contacts: Nat, triggers: Nat]
    BY EmptySeq DEF NoImport
  <2>7. QED
    BY <1>6, <2>2, <2>3, <2>4, <2>5, <2>6 DEF Shape, RecordIncomingTrigger
<1>7. CASE UNCHANGED vars
  BY <1>7 DEF vars, tables, history, Shape
<1>8. QED
  <2>1. Importers \subseteq Writers /\ Posters \subseteq Writers /\ \A w \in Writers : WriterInv(w)
    BY DEF Writers, ImportInv
  <2>2. ASSUME NEW w \in Writers, \/ w \in Importers /\ ImportTriggersCsv(w)
                                  \/ w \in Posters /\ ReceiveTrigger(w)
        PROVE  Shape'
    BY <2>2, StartFile, StartShape
  <2>3. ASSUME NEW w \in Writers, Stop(w) PROVE Shape'
    BY <2>3, FailShape DEF Stop
  <2>4. QED
    BY <1>1, <1>2, <1>3, <1>4, <1>5, <1>6, <1>7, <2>1, <2>2, <2>3, CommitShape
       DEF Next, Transaction

(***************************************************************************)
(* Every step keeps what each writer knows.                                *)
(***************************************************************************)
\* What the others may do while a writer is at its statements: nothing it holds is taken from it, no
\* contact of its account changes or comes, and no trigger does but a posted one.
LEMMA OthersKeep ==
    ASSUME Shape, NEW q \in Writers, WriterInv(q),
           pc'[q] = pc[q], rows'[q] = rows[q], found'[q] = found[q],
           \A x \in Refs \cup Imos : holder[x] = q => holder'[x] = q,
           \A v \in Imos : holder[v] = q => owner'[v] = owner[v],
           \A n \in DOMAIN contacts :
              /\ n \in DOMAIN contacts' /\ contacts'[n].account = contacts[n].account
              /\ contacts'[n] = contacts[n] \/ holder[contacts[n].account] # q,
           \A n \in DOMAIN contacts' \ DOMAIN contacts : holder[contacts'[n].account] # q,
           \A n \in DOMAIN triggers :
              /\ n \in DOMAIN triggers' /\ triggers'[n].account = triggers[n].account
              /\ triggers'[n].key = triggers[n].key /\ triggers'[n].posted = triggers[n].posted,
           \A n \in DOMAIN triggers' \ DOMAIN triggers :
              triggers'[n].posted \/ holder[triggers'[n].account] # q
    PROVE  WriterInv(q)'
<1>0. Row(q)' = Row(q)
  BY DEF Row
<1>1. HoldsAccount(q)' 
  BY <1>0, RowFacts DEF WriterInv, HoldsAccount
<1>2. HoldsVessel(q)'
  BY <1>0, RowFacts DEF WriterInv, HoldsVessel
<1>3. KnowsContact(q)'
  <2>1. SUFFICES ASSUME pc[q] \in {"trigger", "commit"}, HasContact(Row(q)) PROVE KnowsContact(q)'
    BY <1>0 DEF KnowsContact
  <2>2. holder[Row(q).account] = q
    BY <2>1 DEF WriterInv, HoldsAccount
  <2>3. \A n \in DOMAIN contacts :
           (SameContact(contacts'[n], Row(q)) <=> SameContact(contacts[n], Row(q)))
    BY <2>2 DEF SameContact
  <2>4. \A n \in DOMAIN contacts' \ DOMAIN contacts : ~SameContact(contacts'[n], Row(q))
    BY <2>2 DEF SameContact
  <2>5. QED
    BY <1>0, <2>1, <2>3, <2>4 DEF WriterInv, KnowsContact
<1>4. KnowsTrigger(q)'
  <2>1. SUFFICES ASSUME pc[q] = "commit", q \in Importers PROVE KnowsTrigger(q)'
    BY DEF KnowsTrigger
  <2>2. holder[Row(q).account] = q
    BY <2>1 DEF WriterInv, HoldsAccount
  <2>3. \A n \in DOMAIN triggers :
           /\ triggers'[n].posted = triggers[n].posted
           /\ (SameTrigger(triggers'[n], Row(q)) <=> SameTrigger(triggers[n], Row(q)))
    BY DEF SameTrigger
  <2>4. \A n \in DOMAIN triggers' \ DOMAIN triggers :
           SameTrigger(triggers'[n], Row(q)) => triggers'[n].posted
    BY <2>2 DEF SameTrigger
  <2>5. QED
    BY <1>0, <2>1, <2>3, <2>4 DEF WriterInv, KnowsTrigger
<1>5. QED
  BY <1>1, <1>2, <1>3, <1>4 DEF WriterInv

\* A step that writes neither table.
LEMMA OthersIdle ==
    ASSUME Shape, NEW q \in Writers, WriterInv(q), UNCHANGED <<contacts, triggers>>,
           pc'[q] = pc[q], rows'[q] = rows[q], found'[q] = found[q],
           \A x \in Refs \cup Imos : holder[x] = q => holder'[x] = q,
           \A v \in Imos : holder[v] = q => owner'[v] = owner[v]
    PROVE  WriterInv(q)'
BY OthersKeep

\* Between its transactions a writer has nothing to keep.
LEMMA Unbound ==
    ASSUME NEW q \in Writers, pc'[q] \in {"idle", "find", "account", "record"}
    PROVE  WriterInv(q)'
BY DEF WriterInv, HoldsAccount, HoldsVessel, KnowsContact, KnowsTrigger

LEMMA FailKeeps ==
    ASSUME Shape, ImportInv, NEW w \in Writers, Fail(w)
    PROVE  \A q \in Writers : WriterInv(q)'
<1>1. WriterInv(w)'
  BY Unbound DEF Shape, Fail
<1>2. ASSUME NEW q \in Writers, q # w PROVE WriterInv(q)'
  <2>1. pc'[q] = pc[q] /\ rows'[q] = rows[q] /\ found'[q] = found[q]
        /\ UNCHANGED <<contacts, triggers>>
    BY <1>2 DEF Shape, Fail
  <2>2. \A x \in Refs \cup Imos : holder[x] = q => holder'[x] = q
    BY <1>2 DEF Shape, Fail, Release
  <2>3. \A v \in Imos : holder[v] = q => owner'[v] = owner[v]
    BY <1>2 DEF Shape, Fail
  <2>4. WriterInv(q)
    BY DEF ImportInv
  <2>5. QED
    BY <2>1, <2>2, <2>3, <2>4, OthersIdle
<1>3. QED
  BY <1>1, <1>2

LEMMA WriteAccountKeeps ==
    ASSUME Shape, ImportInv, NEW w \in Writers, WriteAccount(w)
    PROVE  \A q \in Writers : WriterInv(q)'
<1>1. CASE Fail(w)
  BY <1>1, FailKeeps
<1>2. CASE /\ holder' = [holder EXCEPT ![Row(w).account] = w]
           /\ Continue(w, "vessel") /\ UNCHANGED <<owner, found>>
  <2>1. /\ pc' = [pc EXCEPT ![w] = "vessel"]
        /\ UNCHANGED <<contacts, triggers, rows, owner, found>>
    BY <1>2 DEF Continue
  <2>2. Row(w).account \in Refs /\ holder[Row(w).account] = Free
    BY RowFacts DEF WriteAccount
  <2>3. WriterInv(w)'
    BY <1>2, <2>1, <2>2 DEF Shape, Row, WriterInv, HoldsAccount, HoldsVessel, KnowsContact,
       KnowsTrigger
  <2>4. ASSUME NEW q \in Writers, q # w PROVE WriterInv(q)'
    <3>1. \A x \in Refs \cup Imos : holder[x] = q => holder'[x] = q
      BY <1>2, <2>2, <2>4, TriggerImportAssumption DEF Shape
    <3>2. pc'[q] = pc[q] /\ rows'[q] = rows[q] /\ found'[q] = found[q]
          /\ UNCHANGED <<contacts, triggers>> /\ WriterInv(q)
      BY <2>1, <2>4 DEF Shape, ImportInv
    <3>3. QED
      BY <2>1, <3>1, <3>2, OthersIdle
  <2>5. QED
    BY <2>3, <2>4
<1>3. QED
  BY <1>1, <1>2 DEF WriteAccount

LEMMA UpsertVesselKeeps ==
    ASSUME Shape, ImportInv, NEW w \in Writers, UpsertVessel(w)
    PROVE  \A q \in Writers : WriterInv(q)'
<1> DEFINE vessel == VesselOf(Row(w))
<1>1. /\ pc[w] = "vessel" /\ pc' = [pc EXCEPT ![w] = "contact"]
      /\ UNCHANGED <<contacts, triggers, rows>>
  BY DEF UpsertVessel, Continue
<1>2. \/ vessel = NoVessel /\ UNCHANGED <<owner, holder, found>>
      \/ /\ vessel # NoVessel /\ holder[vessel] = Free
         /\ holder' = [holder EXCEPT ![vessel] = w]
         /\ owner' = [owner EXCEPT ![vessel] = Row(w).account]
         /\ found' = [found EXCEPT ![w].owner = owner[vessel]]
  BY DEF UpsertVessel
<1>3. vessel # NoVessel => vessel \in Imos
  BY <1>1, RowFacts
<1>4. holder[Row(w).account] = w /\ Row(w).account \in Refs
  BY <1>1, RowFacts DEF ImportInv, WriterInv, HoldsAccount
<1>5. Row(w)' = Row(w) /\ pc'[w] = "contact"
  BY <1>1 DEF Row, Shape
<1>6. WriterInv(w)'
  <2>1. HoldsAccount(w)'
    BY <1>2, <1>4, <1>5, <1>3 DEF HoldsAccount, Shape
  <2>2. HoldsVessel(w)'
    BY <1>2, <1>3, <1>5 DEF HoldsVessel, Shape
  <2>3. QED
    BY <1>5, <2>1, <2>2 DEF WriterInv, KnowsContact, KnowsTrigger
<1>7. ASSUME NEW q \in Writers, q # w PROVE WriterInv(q)'
  <2>1. /\ \A x \in Refs \cup Imos : holder[x] = q => holder'[x] = q
        /\ \A v \in Imos : holder[v] = q => owner'[v] = owner[v]
    BY <1>2, <1>3, <1>7, TriggerImportAssumption DEF Shape
  <2>2. pc'[q] = pc[q] /\ rows'[q] = rows[q] /\ found'[q] = found[q]
        /\ UNCHANGED <<contacts, triggers>> /\ WriterInv(q)
    BY <1>1, <1>2, <1>7 DEF Shape, ImportInv
  <2>3. QED
    BY <2>1, <2>2, OthersIdle
<1>8. QED
  BY <1>6, <1>7

\* A query, whose answer stays right while the account is locked.
LEMMA FindContactKeeps ==
    ASSUME Shape, ImportInv, NEW w \in Writers, FindContact(w)
    PROVE  \A q \in Writers : WriterInv(q)'
<1> DEFINE matches == {k \in DOMAIN contacts : SameContact(contacts[k], Row(w))}
<1>1. /\ pc[w] = "contact"
      /\ pc' = [pc EXCEPT ![w] = IF w \in Importers THEN "trigger" ELSE "commit"]
      /\ UNCHANGED <<contacts, triggers, rows, owner, holder>>
  BY DEF FindContact, Continue
<1>2. PICK n \in FirstOf(matches) :
         found' = [found EXCEPT ![w].contact = IF HasContact(Row(w)) THEN n ELSE 0]
  BY DEF FindContact
<1>3. Row(w)' = Row(w)
  BY <1>1 DEF Row
<1>4. /\ pc'[w] = IF w \in Importers THEN "trigger" ELSE "commit"
      /\ HasContact(Row(w)) => found'[w].contact = n
  BY <1>1, <1>2 DEF Shape, Finding
<1>5. WriterInv(w)'
  <2>1. HoldsAccount(w)' /\ HoldsVessel(w)'
    BY <1>1, <1>3 DEF ImportInv, WriterInv, HoldsAccount, HoldsVessel
  <2>2. KnowsContact(w)'
    <3>1. CASE matches = {}
      BY <1>1, <1>2, <1>3, <1>4, <3>1 DEF KnowsContact, FirstOf
    <3>2. CASE matches # {}
      BY <1>1, <1>2, <1>3, <1>4, <3>2 DEF KnowsContact, FirstOf
    <3>3. QED
      BY <3>1, <3>2
  <2>3. KnowsTrigger(w)'
    BY <1>4 DEF KnowsTrigger
  <2>4. QED
    BY <2>1, <2>2, <2>3 DEF WriterInv
<1>6. ASSUME NEW q \in Writers, q # w PROVE WriterInv(q)'
  <2>1. pc'[q] = pc[q] /\ rows'[q] = rows[q] /\ found'[q] = found[q]
        /\ UNCHANGED <<contacts, triggers, holder, owner>> /\ WriterInv(q)
    BY <1>1, <1>2, <1>6 DEF Shape, ImportInv
  <2>2. QED
    BY <2>1, OthersIdle
<1>7. QED
  BY <1>5, <1>6

LEMMA FindTriggerKeeps ==
    ASSUME Shape, ImportInv, NEW w \in Writers, FindTrigger(w)
    PROVE  \A q \in Writers : WriterInv(q)'
<1> DEFINE matches == {k \in DOMAIN triggers : SameTrigger(triggers[k], Row(w))}
<1>1. /\ pc[w] = "trigger" /\ pc' = [pc EXCEPT ![w] = "commit"]
      /\ UNCHANGED <<contacts, triggers, rows, owner, holder>>
  BY DEF FindTrigger, Continue
<1>2. PICK n \in FirstOf(matches) : found' = [found EXCEPT ![w].trigger = n]
  BY DEF FindTrigger
<1>3. Row(w)' = Row(w)
  BY <1>1 DEF Row
<1>4. pc'[w] = "commit" /\ found'[w].trigger = n /\ found'[w].contact = found[w].contact
  BY <1>1, <1>2 DEF Shape, Finding
<1>5. WriterInv(w)'
  <2>1. HoldsAccount(w)' /\ HoldsVessel(w)'
    BY <1>1, <1>3 DEF ImportInv, WriterInv, HoldsAccount, HoldsVessel
  <2>2. KnowsContact(w)'
    BY <1>1, <1>3, <1>4 DEF ImportInv, WriterInv, KnowsContact
  <2>3. KnowsTrigger(w)'
    <3>1. CASE matches = {}
      BY <1>1, <1>2, <1>3, <1>4, <3>1 DEF KnowsTrigger, FirstOf
    <3>2. CASE matches # {}
      BY <1>1, <1>2, <1>3, <1>4, <3>2 DEF KnowsTrigger, FirstOf
    <3>3. QED
      BY <3>1, <3>2
  <2>4. QED
    BY <2>1, <2>2, <2>3 DEF WriterInv
<1>6. ASSUME NEW q \in Writers, q # w PROVE WriterInv(q)'
  <2>1. pc'[q] = pc[q] /\ rows'[q] = rows[q] /\ found'[q] = found[q]
        /\ UNCHANGED <<contacts, triggers, holder, owner>> /\ WriterInv(q)
    BY <1>1, <1>2, <1>6 DEF Shape, ImportInv
  <2>2. QED
    BY <2>1, OthersIdle
<1>7. QED
  BY <1>5, <1>6

\* A commit writes rows of an account that no other writer holds.
LEMMA CommitKeeps ==
    ASSUME Shape, ImportInv, NEW w \in Writers, Commit(w)
    PROVE  \A q \in Writers : WriterInv(q)'
<1>1. pc[w] = "commit" /\ WriterInv(w) /\ holder[Row(w).account] = w
  BY DEF Commit, ImportInv, WriterInv, HoldsAccount
<1>2. PICK step \in {"record", "find", "idle"} : pc' = [pc EXCEPT ![w] = step]
  BY DEF Commit
<1>3. WriterInv(w)'
  BY <1>2, Unbound DEF Shape
<1>4. ASSUME NEW q \in Writers, q # w PROVE WriterInv(q)'
  <2>1. pc'[q] = pc[q] /\ found'[q] = found[q] /\ WriterInv(q)
    BY <1>2, <1>4 DEF Shape, Commit, ImportInv
  <2>2. rows'[q] = rows[q]
    BY <1>4 DEF Shape, Commit
  <2>3. \A x \in Refs \cup Imos : holder[x] = q => holder'[x] = q
    BY <1>4 DEF Shape, Commit, Release
  <2>4. \A v \in Imos : holder[v] = q => owner'[v] = owner[v]
    BY DEF Commit
  <2>5. /\ \A n \in DOMAIN contacts :
              /\ n \in DOMAIN contacts' /\ contacts'[n].account = contacts[n].account
              /\ contacts'[n] = contacts[n] \/ holder[contacts[n].account] # q
        /\ \A n \in DOMAIN contacts' \ DOMAIN contacts : holder[contacts'[n].account] # q
    <3>1. ContactOf(Row(w)).account = Row(w).account
      BY DEF ContactOf
    <3>2. \A n \in DOMAIN contacts :
             SameContact(contacts[n], Row(w)) => contacts[n].account = Row(w).account
      BY DEF SameContact
    <3>3. KnowsContact(w)
      BY <1>1 DEF WriterInv
    <3>4. QED
      BY <1>1, <1>4, <3>1, <3>2, <3>3, CommitContacts
  <2>6. /\ \A n \in DOMAIN triggers :
              /\ n \in DOMAIN triggers' /\ triggers'[n].account = triggers[n].account
              /\ triggers'[n].key = triggers[n].key /\ triggers'[n].posted = triggers[n].posted
        /\ \A n \in DOMAIN triggers' \ DOMAIN triggers :
              triggers'[n].posted \/ holder[triggers'[n].account] # q
    <3>1. NewTrigger(Row(w), FALSE).account = Row(w).account
      BY DEF NewTrigger
    <3>2. QED
      BY <1>1, <1>4, <3>1, CommitTriggers DEF WriterInv
  <2>7. QED
    BY <2>1, <2>2, <2>3, <2>4, <2>5, <2>6, OthersKeep
<1>5. QED
  BY <1>3, <1>4

LEMMA RecordKeeps ==
    ASSUME Shape, ImportInv, NEW w \in Writers, RecordIncomingTrigger(w)
    PROVE  \A q \in Writers : WriterInv(q)'
<1>1. /\ pc' = [pc EXCEPT ![w] = "idle"] /\ rows' = [rows EXCEPT ![w] = <<>>]
      /\ UNCHANGED <<contacts, owner, holder, found>>
      /\ triggers' = Append(triggers, NewTrigger(Row(w), TRUE))
  BY DEF RecordIncomingTrigger
<1>2. NewTrigger(Row(w), TRUE) \in Trigger /\ NewTrigger(Row(w), TRUE).posted
  BY RowFacts DEF RecordIncomingTrigger, NewTrigger, Trigger, CsvRow
<1>3. /\ \A n \in DOMAIN triggers : n \in DOMAIN triggers' /\ triggers'[n] = triggers[n]
      /\ \A n \in DOMAIN triggers' \ DOMAIN triggers : triggers'[n].posted
  <2> DEFINE row == NewTrigger(Row(w), TRUE)
  <2>1. row \in Trigger /\ row.posted /\ triggers \in Seq(Trigger) /\ triggers' = Append(triggers, row)
    BY <1>1, <1>2 DEF Shape
  <2> HIDE DEF row
  <2>2. /\ Len(triggers) \in Nat /\ DOMAIN triggers = 1 .. Len(triggers)
        /\ DOMAIN triggers' = 1 .. (Len(triggers) + 1)
        /\ \A n \in DOMAIN triggers : triggers'[n] = triggers[n]
        /\ triggers'[Len(triggers) + 1] = row
    BY <2>1, Grows
  <2>3. \A n \in DOMAIN triggers' \ DOMAIN triggers : n = Len(triggers) + 1
    BY <2>2
  <2>4. \A n \in DOMAIN triggers : n \in DOMAIN triggers'
    BY <2>2
  <2>5. QED
    BY <2>1, <2>2, <2>3, <2>4
<1>4. WriterInv(w)'
  BY <1>1, Unbound DEF Shape
<1>5. ASSUME NEW q \in Writers, q # w PROVE WriterInv(q)'
  <2>1. pc'[q] = pc[q] /\ rows'[q] = rows[q] /\ found'[q] = found[q] /\ WriterInv(q)
    BY <1>1, <1>5 DEF Shape, ImportInv
  <2>2. QED
    BY <1>1, <1>3, <2>1, OthersKeep
<1>6. QED
  BY <1>4, <1>5

(***************************************************************************)
(* The invariant, and what it says.                                        *)
(***************************************************************************)
\* Only a commit adds a trigger that is not posted, and only where there is none like it.
LEMMA CommitOnce ==
    ASSUME Shape, ImportInv, NEW w \in Writers, Commit(w)
    PROVE  ImportedOnce'
<1>1. pc[w] = "commit" /\ KnowsTrigger(w) /\ ImportedOnce
  BY DEF Commit, ImportInv, WriterInv
<1>2. /\ \A n \in DOMAIN triggers :
            /\ triggers'[n].account = triggers[n].account
            /\ triggers'[n].key = triggers[n].key /\ triggers'[n].posted = triggers[n].posted
      /\ \A n \in DOMAIN triggers' \ DOMAIN triggers :
            /\ w \in Importers /\ n = Len(triggers) + 1
            /\ triggers'[n] = NewTrigger(Row(w), FALSE)
            /\ found[w].trigger = 0
  BY <1>1, CommitTriggers
<1>3. ASSUME NEW m \in DOMAIN triggers, ~triggers[m].posted, NEW n \in DOMAIN triggers' \ DOMAIN triggers
      PROVE  ~SameTrigger(triggers[m], Row(w))
  <2>1. w \in Importers /\ found[w].trigger = 0
    BY <1>2
  <2>2. found[w].trigger \notin DOMAIN triggers
    BY <2>1, LenProperties DEF Shape
  <2>3. QED
    BY <1>1, <1>3, <2>1, <2>2 DEF KnowsTrigger
<1>4. NewTrigger(Row(w), FALSE).account = Row(w).account /\ NewTrigger(Row(w), FALSE).key = Row(w).key
  BY DEF NewTrigger
<1>5. ASSUME NEW m \in DOMAIN triggers', NEW n \in DOMAIN triggers',
             ~triggers'[m].posted, ~triggers'[n].posted,
             triggers'[m].account = triggers'[n].account, triggers'[m].key = triggers'[n].key
      PROVE  m = n
  <2>1. CASE m \in DOMAIN triggers /\ n \in DOMAIN triggers
    BY <1>1, <1>2, <1>5, <2>1 DEF ImportedOnce
  <2>2. CASE m \in DOMAIN triggers /\ n \notin DOMAIN triggers
    BY <1>2, <1>3, <1>4, <1>5, <2>2 DEF SameTrigger
  <2>3. CASE m \notin DOMAIN triggers /\ n \in DOMAIN triggers
    BY <1>2, <1>3, <1>4, <1>5, <2>3 DEF SameTrigger
  <2>4. CASE m \notin DOMAIN triggers /\ n \notin DOMAIN triggers
    <3>1. m = Len(triggers) + 1 /\ n = Len(triggers) + 1
      BY <1>2, <2>4
    <3>2. QED
      BY <3>1
  <2>5. QED
    BY <2>1, <2>2, <2>3, <2>4
<1>6. QED
  BY <1>5 DEF ImportedOnce

LEMMA RecordOnce ==
    ASSUME Shape, ImportInv, NEW w \in Writers, RecordIncomingTrigger(w)
    PROVE  ImportedOnce'
<1> DEFINE row == NewTrigger(Row(w), TRUE)
<1>1. /\ row \in Trigger /\ row.posted
      /\ triggers \in Seq(Trigger) /\ triggers' = Append(triggers, row)
  BY RowFacts DEF Shape, RecordIncomingTrigger, NewTrigger, Trigger, CsvRow
<1> HIDE DEF row
<1>2. /\ Len(triggers) \in Nat /\ DOMAIN triggers = 1 .. Len(triggers)
      /\ DOMAIN triggers' = 1 .. (Len(triggers) + 1)
      /\ \A n \in DOMAIN triggers : triggers'[n] = triggers[n]
      /\ triggers'[Len(triggers) + 1] = row
  BY <1>1, Grows
<1>3. \A n \in DOMAIN triggers' \ DOMAIN triggers : triggers'[n].posted
  BY <1>1, <1>2
<1>4. QED
  BY <1>2, <1>3 DEF ImportInv, ImportedOnce

LEMMA ImportInvariant == Spec => [](Shape /\ ImportInv)
<1>1. Init => Shape /\ ImportInv
  <2> SUFFICES ASSUME Init PROVE Shape /\ ImportInv
    OBVIOUS
  <2>1. Shape
    BY EmptySeq DEF Init, Shape, Statements, Finding, NothingFound, NoImport
  <2>2. \A w \in Writers : WriterInv(w)
    BY DEF Init, WriterInv, HoldsAccount, HoldsVessel, KnowsContact, KnowsTrigger
  <2>3. ImportedOnce
    BY DEF Init, ImportedOnce
  <2>4. QED
    BY <2>1, <2>2, <2>3 DEF ImportInv
<1>2. Shape /\ ImportInv /\ [Next]_vars => Shape' /\ ImportInv'
  <2> SUFFICES ASSUME Shape, ImportInv, [Next]_vars PROVE ImportInv'
    BY ShapeStep
  <2>1. ASSUME UNCHANGED triggers PROVE ImportedOnce'
    BY <2>1 DEF ImportInv, ImportedOnce
  <2>2. ASSUME NEW w \in Writers, NEW step \in {"find", "account"}, pc' = [pc EXCEPT ![w] = step],
               UNCHANGED <<triggers, contacts, owner, holder>>,
               \A q \in Writers \ {w} : rows'[q] = rows[q] /\ found'[q] = found[q]
        PROVE  ImportInv'
    <3>1. WriterInv(w)'
      BY <2>2, Unbound DEF Shape
    <3>2. ASSUME NEW q \in Writers, q # w PROVE WriterInv(q)'
      <4>1. pc'[q] = pc[q] /\ rows'[q] = rows[q] /\ found'[q] = found[q] /\ WriterInv(q)
        BY <2>2, <3>2 DEF Shape, ImportInv
      <4>2. QED
        BY <2>2, <4>1, OthersIdle
    <3>3. QED
      BY <2>1, <2>2, <3>1, <3>2 DEF ImportInv
  <2>3. ASSUME NEW w \in Writers, \/ w \in Importers /\ ImportTriggersCsv(w)
                                  \/ w \in Posters /\ ReceiveTrigger(w)
        PROVE  ImportInv'
    <3>1. PICK file \in Seq(CsvRow) : Start(w, file)
      BY <2>3, StartFile
    <3>2. /\ pc' = [pc EXCEPT ![w] = "find"]
          /\ UNCHANGED <<triggers, contacts, owner, holder>>
          /\ \A q \in Writers \ {w} : rows'[q] = rows[q] /\ found'[q] = found[q]
      BY <3>1 DEF Start, tables, Shape
    <3>3. QED
      BY <2>2, <3>2
  <2>4. ASSUME NEW w \in Writers, FindAccount(w) PROVE ImportInv'
    <3>1. /\ pc' = [pc EXCEPT ![w] = "account"]
          /\ UNCHANGED <<triggers, contacts, owner, holder>>
          /\ \A q \in Writers \ {w} : rows'[q] = rows[q] /\ found'[q] = found[q]
      BY <2>4 DEF FindAccount, Continue, Shape
    <3>2. QED
      BY <2>2, <3>1
  <2>5. ASSUME NEW w \in Writers, WriteAccount(w) PROVE ImportInv'
    <3>1. UNCHANGED triggers
      BY <2>5 DEF WriteAccount, Fail, Continue
    <3>2. QED
      BY <2>1, <2>5, <3>1, WriteAccountKeeps DEF ImportInv
  <2>6. ASSUME NEW w \in Writers, UpsertVessel(w) PROVE ImportInv'
    <3>1. UNCHANGED triggers
      BY <2>6 DEF UpsertVessel, Continue
    <3>2. QED
      BY <2>1, <2>6, <3>1, UpsertVesselKeeps DEF ImportInv
  <2>7. ASSUME NEW w \in Writers, FindContact(w) PROVE ImportInv'
    <3>1. UNCHANGED triggers
      BY <2>7 DEF FindContact, Continue
    <3>2. QED
      BY <2>1, <2>7, <3>1, FindContactKeeps DEF ImportInv
  <2>8. ASSUME NEW w \in Writers, FindTrigger(w) PROVE ImportInv'
    <3>1. UNCHANGED triggers
      BY <2>8 DEF FindTrigger, Continue
    <3>2. QED
      BY <2>1, <2>8, <3>1, FindTriggerKeeps DEF ImportInv
  <2>9. ASSUME NEW w \in Writers, Commit(w) PROVE ImportInv'
    BY <2>9, CommitKeeps, CommitOnce DEF ImportInv
  <2>10. ASSUME NEW w \in Writers, RecordIncomingTrigger(w) PROVE ImportInv'
    BY <2>10, RecordKeeps, RecordOnce DEF ImportInv
  <2>11. ASSUME NEW w \in Writers, Stop(w) PROVE ImportInv'
    <3>1. Fail(w) /\ UNCHANGED triggers
      BY <2>11 DEF Stop, Fail
    <3>2. QED
      BY <2>1, <3>1, FailKeeps DEF ImportInv
  <2>12. CASE UNCHANGED vars
    <3>1. UNCHANGED <<contacts, triggers, pc, rows, found, holder, owner>>
      BY <2>12 DEF vars, tables
    <3>2. ASSUME NEW q \in Writers PROVE WriterInv(q)'
      BY <3>1, OthersIdle DEF ImportInv
    <3>3. QED
      BY <2>1, <3>1, <3>2 DEF ImportInv
  <2>13. QED
    <3>1. Importers \subseteq Writers /\ Posters \subseteq Writers
      BY DEF Writers
    <3>2. QED
      BY <2>3, <2>4, <2>5, <2>6, <2>7, <2>8, <2>9, <2>10, <2>11, <2>12, <3>1 DEF Next, Transaction
<1>3. QED
  BY <1>1, <1>2, PTL DEF Spec

\* A trigger that imports bring in is there once, however many of them overlap, stop half way and run
\* again: the lock of the account keeps what each found true until it commits.
THEOREM EachImportedOnce == Spec => []ImportedOnce
<1>1. Shape /\ ImportInv => ImportedOnce
  BY DEF ImportInv
<1>2. QED
  BY <1>1, ImportInvariant, PTL

\* When an import writes a trigger, its vessel is the account's: the lock of the vessel lasts until the
\* commit.
THEOREM VesselStaysTheAccounts == Spec => VesselIsTheAccounts
<1> DEFINE Right ==
             \A n \in DOMAIN triggers' :
                \/ n \in DOMAIN triggers /\ triggers'[n] = triggers[n]
                \/ n \notin DOMAIN triggers /\ triggers'[n].posted
                \/ triggers'[n].vessel = NoVessel
                \/ owner'[triggers'[n].vessel] = triggers'[n].account
<1>1. Shape /\ ImportInv /\ [Next]_vars => [Right]_vars
  <2> SUFFICES ASSUME Shape, ImportInv, Next PROVE Right
    OBVIOUS
  <2>1. CASE UNCHANGED triggers
    BY <2>1
  <2>2. ASSUME NEW w \in Writers, Commit(w) PROVE Right
    <3>1. pc[w] = "commit" /\ WriterInv(w) /\ UNCHANGED owner
      BY <2>2 DEF Commit, ImportInv
    <3>2. VesselOf(Row(w)) # NoVessel => owner[VesselOf(Row(w))] = Row(w).account
      BY <3>1 DEF WriterInv, HoldsVessel
    <3>3. ASSUME NEW n \in DOMAIN triggers'
          PROVE  \/ n \in DOMAIN triggers /\ triggers'[n] = triggers[n]
                 \/ triggers'[n].vessel = VesselOf(Row(w)) /\ triggers'[n].account = Row(w).account
      <4>1. /\ NewTrigger(Row(w), FALSE).vessel = VesselOf(Row(w))
            /\ NewTrigger(Row(w), FALSE).account = Row(w).account
        BY DEF NewTrigger
      <4>2. KnowsTrigger(w)
        BY <3>1 DEF WriterInv
      <4>3. QED
        BY <2>2, <4>1, <4>2, CommitTriggers
    <3>4. QED
      BY <3>1, <3>2, <3>3
  <2>3. ASSUME NEW w \in Writers, RecordIncomingTrigger(w) PROVE Right
    <3> DEFINE row == NewTrigger(Row(w), TRUE)
    <3>1. /\ row \in Trigger /\ row.posted
          /\ triggers \in Seq(Trigger) /\ triggers' = Append(triggers, row)
      BY <2>3, RowFacts DEF Shape, RecordIncomingTrigger, NewTrigger, Trigger, CsvRow
    <3> HIDE DEF row
    <3>2. /\ Len(triggers) \in Nat /\ DOMAIN triggers = 1 .. Len(triggers)
          /\ DOMAIN triggers' = 1 .. (Len(triggers) + 1)
          /\ \A n \in DOMAIN triggers : triggers'[n] = triggers[n]
          /\ triggers'[Len(triggers) + 1] = row
      BY <3>1, Grows
    <3>3. \A n \in DOMAIN triggers' \ DOMAIN triggers : triggers'[n].posted
      BY <3>1, <3>2
    <3>4. QED
      BY <3>2, <3>3
  <2>4. Importers \subseteq Writers /\ Posters \subseteq Writers
    BY DEF Writers
  <2>5. QED
    BY <2>1, <2>2, <2>3, <2>4 DEF Next, Transaction, ImportTriggersCsv, ReceiveTrigger, Start,
       FindAccount, WriteAccount, UpsertVessel, FindContact, FindTrigger, Stop, Fail, Continue, tables
<1>2. QED
  BY <1>1, ImportInvariant, PTL DEF Spec, VesselIsTheAccounts

(***************************************************************************)
(* Running a file again.  A row is held when the tables have what it would *)
(* write and every import that is to commit such a row found so: an import *)
(* that nobody disturbs holds the rows behind it, and the file that was    *)
(* imported last is held as long as nothing else is written.               *)
(***************************************************************************)
HeldContact(file, k) ==
    \E n \in DOMAIN contacts, m \in DOMAIN file :
        /\ HasContact(file[m]) /\ file[m].account = file[k].account
        /\ EmailOf(file[m]) = EmailOf(file[k])
        /\ EmailOf(file[k]) = NoEmail => file[m].name = file[k].name
        /\ contacts[n] = ContactOf(file[m])

HeldTrigger(file, k) ==
    /\ \E n \in DOMAIN triggers : SameTrigger(triggers[n], file[k])
    /\ \A i \in Importers :
          pc[i] = "commit" /\ Row(i).account = file[k].account /\ Row(i).key = file[k].key =>
              found[i].trigger # 0

Held(file, k) == (HasContact(file[k]) => HeldContact(file, k)) /\ HeldTrigger(file, k)

AloneInv ==
    \A i \in Importers : \A file \in {whole[i]} :
        alone[i] /\ pc[i] # "idle" /\ ContactsAgree(file) =>
            \A k \in 1 .. (Len(file) - Len(rows[i])) : Held(file, k)

LastInv ==
    \A file \in {last.file} :
        last # NoImport /\ ContactsAgree(file) =>
            /\ \A k \in DOMAIN file : Held(file, k)
            /\ Len(contacts) = last.contacts /\ Len(triggers) = last.triggers

RerunInv == AloneInv /\ LastInv

\* A step that writes nothing and brings no import to its commit keeps what is held.
LEMMA HeldKept ==
    ASSUME NEW file, NEW k, Held(file, k), UNCHANGED <<contacts, triggers>>,
           \A i \in Importers : pc'[i] = "commit" =>
              pc[i] = "commit" /\ rows'[i] = rows[i] /\ found'[i] = found[i]
    PROVE  Held(file, k)'
<1>1. HasContact(file[k]) => HeldContact(file, k)'
  BY DEF Held, HeldContact
<1>2. HeldTrigger(file, k)'
  BY DEF Held, HeldTrigger, Row
<1>3. QED
  BY <1>1, <1>2 DEF Held

\* An import that looks for a trigger that is held finds it.
LEMMA FindTriggerHeld ==
    ASSUME Shape, NEW w \in Importers, FindTrigger(w), NEW file, NEW k, Held(file, k)
    PROVE  Held(file, k)'
<1> DEFINE matches == {n \in DOMAIN triggers : SameTrigger(triggers[n], Row(w))}
<1>0. w \in Writers /\ Importers \subseteq Writers
  BY DEF Writers
<1>1. pc' = [pc EXCEPT ![w] = "commit"] /\ UNCHANGED <<contacts, triggers, rows>>
  BY DEF FindTrigger, Continue
<1>2. PICK n \in FirstOf(matches) : found' = [found EXCEPT ![w].trigger = n]
  BY DEF FindTrigger
<1>3. found'[w].trigger = n
  BY <1>0, <1>2 DEF Shape, Finding
<1>4. ASSUME NEW i \in Importers, pc'[i] = "commit",
             Row(i)'.account = file[k].account, Row(i)'.key = file[k].key
      PROVE  found'[i].trigger # 0
  <2>1. Row(i)' = Row(i)
    BY <1>1 DEF Row
  <2>2. CASE i = w
    <3>1. matches # {}
      BY <1>4, <2>1, <2>2 DEF Held, HeldTrigger, SameTrigger
    <3>2. n \in DOMAIN triggers
      BY <3>1 DEF FirstOf
    <3>3. QED
      BY <1>3, <2>2, <3>2, LenProperties DEF Shape
  <2>3. CASE i # w
    <3>1. pc[i] = "commit" /\ found'[i] = found[i]
      BY <1>0, <1>1, <1>2, <1>4, <2>3 DEF Shape
    <3>2. QED
      BY <1>4, <2>1, <3>1 DEF Held, HeldTrigger
  <2>4. QED
    BY <2>2, <2>3
<1>5. HeldTrigger(file, k)'
  BY <1>1, <1>4 DEF Held, HeldTrigger
<1>6. HasContact(file[k]) => HeldContact(file, k)'
  BY <1>1 DEF Held, HeldContact
<1>7. QED
  BY <1>5, <1>6 DEF Held

\* A commit of a row of the file keeps what is held of the file: the contact it overwrites is one that
\* a row of the file with its email, or with its name and no email, wrote.
LEMMA CommitHeld ==
    ASSUME Shape, ImportInv, NEW w \in Importers, Commit(w), NEW file \in Seq(CsvRow),
           ContactsAgree(file), NEW r \in DOMAIN file, Row(w) = file[r],
           NEW k \in DOMAIN file, Held(file, k)
    PROVE  Held(file, k)'
<1>0. w \in Writers /\ Importers \subseteq Writers /\ KnowsContact(w) /\ KnowsTrigger(w)
  BY DEF Writers, ImportInv, WriterInv
<1>1. ASSUME HasContact(file[k]) PROVE HeldContact(file, k)'
  <2>1. PICK n \in DOMAIN contacts, m \in DOMAIN file :
           /\ HasContact(file[m]) /\ file[m].account = file[k].account
           /\ EmailOf(file[m]) = EmailOf(file[k])
           /\ EmailOf(file[k]) = NoEmail => file[m].name = file[k].name
           /\ contacts[n] = ContactOf(file[m])
    BY <1>1 DEF Held, HeldContact
  <2>2. /\ n \in DOMAIN contacts'
        /\ \/ contacts'[n] = contacts[n]
           \/ /\ HasContact(file[r]) /\ contacts'[n] = ContactOf(file[r])
              /\ SameContact(contacts[n], file[r])
    BY <1>0, CommitContacts
  <2>3. CASE contacts'[n] = contacts[n]
    BY <2>1, <2>2, <2>3 DEF HeldContact
  <2>4. CASE /\ HasContact(file[r]) /\ contacts'[n] = ContactOf(file[r])
             /\ SameContact(contacts[n], file[r])
    <3>1. /\ contacts[n].account = file[m].account /\ contacts[n].name = file[m].name
          /\ contacts[n].email = EmailOf(file[m])
      BY <2>1 DEF ContactOf
    <3>2. file[m].account = file[r].account
      BY <2>4, <3>1 DEF SameContact
    <3>3. CASE EmailOf(file[r]) # NoEmail
      <4>1. EmailOf(file[r]) = EmailOf(file[k])
        BY <2>1, <2>4, <3>1, <3>3 DEF SameContact
      <4>2. QED
        BY <2>1, <2>2, <2>4, <3>2, <3>3, <4>1 DEF HeldContact
    <3>4. CASE EmailOf(file[r]) = NoEmail
      <4>1. file[m].name = file[r].name
        BY <2>4, <3>1, <3>4 DEF SameContact
      <4>2. EmailOf(file[m]) = NoEmail
        BY <2>1, <2>4, <3>2, <3>4, <4>1 DEF ContactsAgree
      <4>3. QED
        BY <2>1, <2>2, <2>4, <3>2, <3>4, <4>1, <4>2 DEF HeldContact
    <3>5. QED
      BY <3>3, <3>4
  <2>5. QED
    BY <2>2, <2>3, <2>4
<1>2. HeldTrigger(file, k)'
  <2>1. \E n \in DOMAIN triggers' : SameTrigger(triggers'[n], file[k])
    <3>1. PICK n \in DOMAIN triggers : SameTrigger(triggers[n], file[k])
      BY DEF Held, HeldTrigger
    <3>2. /\ n \in DOMAIN triggers' /\ triggers'[n].account = triggers[n].account
          /\ triggers'[n].key = triggers[n].key
      BY <1>0, CommitTriggers
    <3>3. QED
      BY <3>1, <3>2 DEF SameTrigger
  <2>2. ASSUME NEW i \in Importers, pc'[i] = "commit"
        PROVE  pc[i] = "commit" /\ rows'[i] = rows[i] /\ found'[i] = found[i]
    <3>1. PICK step \in {"record", "find", "idle"} : pc' = [pc EXCEPT ![w] = step]
      BY DEF Commit
    <3>2. i # w /\ pc[i] = "commit"
      BY <1>0, <2>2, <3>1 DEF Shape
    <3>3. rows'[i] = rows[i] /\ found'[i] = found[i]
      BY <1>0, <3>2 DEF Shape, Commit
    <3>4. QED
      BY <3>2, <3>3
  <2>3. QED
    BY <2>1, <2>2 DEF Held, HeldTrigger, Row
<1>3. QED
  BY <1>1, <1>2 DEF Held

\* And it holds its own row: no other import of the account is under way.
LEMMA CommitHolds ==
    ASSUME Shape, ImportInv, NEW w \in Importers, Commit(w), NEW file \in Seq(CsvRow),
           NEW r \in DOMAIN file, Row(w) = file[r]
    PROVE  Held(file, r)'
<1>0. /\ w \in Writers /\ Importers \subseteq Writers /\ KnowsContact(w) /\ KnowsTrigger(w)
      /\ pc[w] = "commit" /\ holder[Row(w).account] = w
  BY DEF Writers, ImportInv, WriterInv, Commit, HoldsAccount
<1>1. ASSUME HasContact(file[r]) PROVE HeldContact(file, r)'
  <2>1. \E n \in DOMAIN contacts' : contacts'[n] = ContactOf(file[r])
    BY <1>0, <1>1, CommitContacts
  <2>2. QED
    BY <1>1, <2>1 DEF HeldContact
<1>2. \E n \in DOMAIN triggers' : SameTrigger(triggers'[n], file[r])
  BY <1>0, CommitTriggers
<1>3. ASSUME NEW i \in Importers, pc'[i] = "commit", Row(i)'.account = file[r].account
      PROVE  FALSE
  <2>1. PICK step \in {"record", "find", "idle"} : pc' = [pc EXCEPT ![w] = step]
    BY DEF Commit
  <2>2. i # w /\ pc[i] = "commit"
    BY <1>0, <1>3, <2>1 DEF Shape
  <2>3. Row(i)' = Row(i)
    BY <1>0, <2>2 DEF Shape, Commit, Row
  <2>4. holder[Row(i).account] = i
    BY <1>0, <2>2 DEF ImportInv, WriterInv, HoldsAccount
  <2>5. QED
    BY <1>0, <1>3, <2>2, <2>3, <2>4
<1>4. QED
  BY <1>1, <1>2, <1>3 DEF Held, HeldTrigger

\* A step that commits nothing: an import is alone after it only if it was, or has just begun.
LEMMA NothingCommitted ==
    ASSUME Shape', RerunInv, UNCHANGED <<contacts, triggers, last>>,
           \A file : \A k : Held(file, k) => Held(file, k)',
           \A i \in Importers : alone'[i] /\ pc'[i] # "idle" =>
              \/ alone[i] /\ pc[i] # "idle" /\ rows'[i] = rows[i] /\ whole'[i] = whole[i]
              \/ rows'[i] = whole'[i]
    PROVE  RerunInv'
<1>1. ASSUME NEW i \in Importers, NEW file, file = whole'[i], alone'[i], pc'[i] # "idle",
             ContactsAgree(file), NEW k \in 1 .. (Len(file) - Len(rows'[i]))
      PROVE  Held(file, k)'
  <2>1. CASE alone[i] /\ pc[i] # "idle" /\ rows'[i] = rows[i] /\ whole'[i] = whole[i]
    <3>1. Held(file, k)
      BY <1>1, <2>1 DEF RerunInv, AloneInv
    <3>2. QED
      BY <3>1
  <2>2. CASE rows'[i] = whole'[i]
    <3>1. i \in Writers
      BY DEF Writers
    <3>2. Len(file) \in Nat
      BY <1>1, <3>1, LenProperties DEF Shape
    <3>3. QED
      BY <1>1, <2>2, <3>2
  <2>3. QED
    BY <1>1, <2>1, <2>2
<1>2. AloneInv'
  BY <1>1 DEF AloneInv
<1>3. LastInv'
  <2>1. ASSUME NEW file, file = last.file, last # NoImport, ContactsAgree(file)
        PROVE  /\ \A k \in DOMAIN file : Held(file, k)'
               /\ Len(contacts) = last.contacts /\ Len(triggers) = last.triggers
    BY <2>1 DEF RerunInv, LastInv
  <2>2. QED
    BY <2>1 DEF LastInv
<1>4. QED
  BY <1>2, <1>3 DEF RerunInv

\* A commit: whoever else was alone is so no longer, and the file that is held is the committer's.
LEMMA CommitRerun ==
    ASSUME Shape, Shape', ImportInv, RerunInv, NEW w \in Writers, Commit(w)
    PROVE  RerunInv'
<1>0. /\ pc[w] = "commit" /\ rows[w] \in Seq(CsvRow) /\ rows[w] # <<>>
      /\ Suffix(rows[w], whole[w]) /\ whole[w] \in Seq(CsvRow)
      /\ KnowsContact(w) /\ KnowsTrigger(w)
      /\ Importers \cap Posters = {} /\ Importers \subseteq Writers
  BY TriggerImportAssumption DEF Shape, Commit, ImportInv, WriterInv, Writers
<1> DEFINE finished == w \in Importers /\ Len(rows[w]) = 1
           place == Len(whole[w]) - Len(rows[w]) + 1
<1>1. /\ Len(whole[w]) \in Nat /\ Len(rows[w]) \in Nat \ {0}
      /\ place \in DOMAIN whole[w] /\ Row(w) = whole[w][place]
      /\ Len(Tail(rows[w])) = Len(rows[w]) - 1
  BY <1>0, SuffixFacts DEF Row
<1>2. /\ alone' = [x \in Writers |-> IF x = w THEN alone[w] /\ ~finished ELSE FALSE]
      /\ \/ whole[w] = last.file /\ w \in Importers /\ last' = last
         \/ /\ finished /\ alone[w]
            /\ last' = [file |-> whole[w], contacts |-> Len(contacts'), triggers |-> Len(triggers')]
         \/ last' = NoImport
  BY DEF Commit, Committed
<1>3. AloneInv'
  <2>1. ASSUME NEW i \in Importers, NEW file, file = whole'[i], alone'[i], pc'[i] # "idle",
               ContactsAgree(file), NEW k \in 1 .. (Len(file) - Len(rows'[i]))
        PROVE  Held(file, k)'
    <3>1. i = w /\ alone[w] /\ ~finished /\ w \in Importers /\ w \notin Posters
      BY <1>0, <1>2, <2>1
    <3>2. Len(rows[w]) > 1
      <4>1. Len(rows[w]) # 1 /\ Len(rows[w]) \in Nat \ {0}
        BY <1>1, <3>1
      <4>2. \A l \in Nat \ {0} : l # 1 => l > 1
        OBVIOUS
      <4>3. QED
        BY <4>1, <4>2
    <3>3. rows'[w] = Tail(rows[w]) /\ whole'[w] = whole[w]
      BY <3>1, <3>2 DEF Shape, Commit
    <3>4. file = whole[w] /\ k \in 1 .. place
      BY <1>1, <2>1, <3>1, <3>3
    <3>5. CASE k = place
      BY <1>0, <1>1, <3>1, <3>4, <3>5, CommitHolds
    <3>6. CASE k # place
      <4>1. k \in 1 .. (Len(file) - Len(rows[w])) /\ k \in DOMAIN file
        <5>1. \A l \in Nat, g \in Nat \ {0} :
                 \A n \in 1 .. (l - g + 1) : n # l - g + 1 => n \in 1 .. (l - g) /\ n \in 1 .. l
          OBVIOUS
        <5>2. DOMAIN file = 1 .. Len(file)
          BY <1>0, <3>4, LenProperties
        <5>3. QED
          BY <1>1, <3>4, <3>6, <5>1, <5>2
      <4>2. Held(file, k)
        BY <1>0, <2>1, <3>1, <3>4, <4>1 DEF RerunInv, AloneInv
      <4>3. QED
        BY <1>0, <1>1, <2>1, <3>1, <3>4, <4>1, <4>2, CommitHeld
    <3>7. QED
      BY <3>5, <3>6
  <2>2. QED
    BY <2>1 DEF AloneInv
<1>4. LastInv'
  <2>1. CASE last' = NoImport
    BY <2>1 DEF LastInv
  <2>2. CASE whole[w] = last.file /\ w \in Importers /\ last' = last /\ last # NoImport
    <3>1. ASSUME NEW file, file = last.file, ContactsAgree(file)
          PROVE  /\ \A k \in DOMAIN file : Held(file, k)'
                 /\ Len(contacts') = last.contacts /\ Len(triggers') = last.triggers
      <4>1. /\ \A k \in DOMAIN file : Held(file, k)
            /\ Len(contacts) = last.contacts /\ Len(triggers) = last.triggers
        BY <2>2, <3>1 DEF RerunInv, LastInv
      <4>2. file \in Seq(CsvRow) /\ place \in DOMAIN file /\ Row(w) = file[place]
        BY <1>0, <1>1, <2>2, <3>1
      <4>3. \A k \in DOMAIN file : Held(file, k)'
        BY <2>2, <3>1, <4>1, <4>2, CommitHeld
      <4>4. Held(file, place)
        BY <4>1, <4>2
      <4>5. found[w].trigger # 0
        BY <1>0, <2>2, <4>2, <4>4 DEF Held, HeldTrigger
      <4>6. HasContact(Row(w)) => \E n \in DOMAIN contacts : SameContact(contacts[n], Row(w))
        <5>1. SUFFICES ASSUME HasContact(Row(w))
                       PROVE  \E n \in DOMAIN contacts : SameContact(contacts[n], Row(w))
          OBVIOUS
        <5>2. PICK n \in DOMAIN contacts, m \in DOMAIN file :
                 /\ file[m].account = Row(w).account /\ EmailOf(file[m]) = EmailOf(Row(w))
                 /\ EmailOf(Row(w)) = NoEmail => file[m].name = Row(w).name
                 /\ contacts[n] = ContactOf(file[m])
          BY <4>2, <4>4, <5>1 DEF Held, HeldContact
        <5>3. /\ contacts[n].account = file[m].account /\ contacts[n].name = file[m].name
              /\ contacts[n].email = EmailOf(file[m])
          BY <5>2 DEF ContactOf
        <5>4. SameContact(contacts[n], Row(w))
          BY <5>2, <5>3 DEF SameContact
        <5>5. QED
          BY <5>4
      <4>7. Len(contacts') = Len(contacts)
        BY <1>0, <4>6, CommitContacts
      <4>8. Len(triggers') = Len(triggers)
        BY <1>0, <4>5, CommitTriggers
      <4>9. QED
        BY <4>1, <4>3, <4>7, <4>8
    <3>2. QED
      BY <2>2, <3>1 DEF LastInv
  <2>3. CASE /\ finished /\ alone[w]
             /\ last' = [file |-> whole[w], contacts |-> Len(contacts'), triggers |-> Len(triggers')]
    <3>1. ASSUME NEW file, file = whole[w], ContactsAgree(file), NEW k \in DOMAIN file
          PROVE  Held(file, k)'
      <4>1. place = Len(file) /\ DOMAIN file = 1 .. Len(file)
        BY <1>0, <1>1, <2>3, <3>1, LenProperties
      <4>2. CASE k = place
        BY <1>0, <1>1, <2>3, <3>1, <4>2, CommitHolds
      <4>3. CASE k # place
        <5>1. k \in 1 .. (Len(file) - Len(rows[w]))
          BY <1>1, <2>3, <3>1, <4>1, <4>3
        <5>2. Held(file, k)
          BY <1>0, <2>3, <3>1, <5>1 DEF RerunInv, AloneInv
        <5>3. QED
          BY <1>0, <1>1, <2>3, <3>1, <5>2, CommitHeld
      <4>4. QED
        BY <4>2, <4>3
    <3>2. /\ last'.file = whole[w] /\ last'.contacts = Len(contacts')
          /\ last'.triggers = Len(triggers')
      BY <2>3
    <3>3. QED
      BY <3>1, <3>2 DEF LastInv
  <2>4. QED
    BY <1>2, <2>1, <2>2, <2>3
<1>5. QED
  BY <1>3, <1>4 DEF RerunInv

LEMMA RerunInvariant == Spec => []RerunInv
<1>1. Init => RerunInv
  BY DEF Init, RerunInv, AloneInv, LastInv
<1>2. Shape /\ ImportInv /\ RerunInv /\ [Next]_vars => RerunInv'
  <2> SUFFICES ASSUME Shape, ImportInv, RerunInv, [Next]_vars PROVE RerunInv'
    OBVIOUS
  <2>0. Shape' /\ Importers \subseteq Writers /\ Posters \subseteq Writers
    BY ShapeStep DEF Writers
  <2>1. ASSUME NEW w \in Writers, UNCHANGED <<contacts, triggers, rows, history>>,
               \A i \in Importers : /\ pc'[i] = "commit" =>
                                          pc[i] = "commit" /\ found'[i] = found[i]
                                    /\ pc'[i] # "idle" => pc[i] # "idle"
        PROVE  RerunInv'
    <3>1. ASSUME NEW file, NEW k, Held(file, k) PROVE Held(file, k)'
      <4>1. \A i \in Importers : pc'[i] = "commit" =>
               pc[i] = "commit" /\ rows'[i] = rows[i] /\ found'[i] = found[i]
        BY <2>1
      <4>2. QED
        BY <2>1, <3>1, <4>1, HeldKept
    <3>2. UNCHANGED <<contacts, triggers, rows, whole, alone, last>>
      BY <2>1 DEF history
    <3>3. QED
      BY <2>0, <2>1, <3>1, <3>2, NothingCommitted
  <2>2. ASSUME NEW w \in Writers, NEW step \in {"account", "vessel", "contact", "trigger", "commit"},
               pc[w] # "idle", Continue(w, step),
               \A q \in Writers \ {w} : found'[q] = found[q],
               step = "commit" => w \notin Importers
        PROVE  RerunInv'
    <3>1. UNCHANGED <<contacts, triggers, rows, history>> /\ pc' = [pc EXCEPT ![w] = step]
      BY <2>2 DEF Continue
    <3>2. ASSUME NEW i \in Importers
          PROVE  /\ pc'[i] = "commit" => pc[i] = "commit" /\ found'[i] = found[i]
                 /\ pc'[i] # "idle" => pc[i] # "idle"
      <4>1. CASE i = w
        BY <2>0, <2>2, <3>1, <4>1 DEF Shape
      <4>2. CASE i # w
        BY <2>0, <2>2, <3>1, <4>2 DEF Shape
      <4>3. QED
        BY <4>1, <4>2
    <3>3. QED
      BY <2>1, <3>1, <3>2
  <2>3. ASSUME NEW w \in Writers, Fail(w) PROVE RerunInv'
    <3>1. /\ pc' = [pc EXCEPT ![w] = "idle"] /\ UNCHANGED <<contacts, triggers, last>>
          /\ rows' = [rows EXCEPT ![w] = <<>>] /\ whole' = [whole EXCEPT ![w] = <<>>]
          /\ found' = [found EXCEPT ![w] = NothingFound] /\ alone' = [alone EXCEPT ![w] = FALSE]
      BY <2>3 DEF Fail
    <3>2. ASSUME NEW i \in Importers
          PROVE  /\ pc'[i] = "commit" => pc[i] = "commit" /\ rows'[i] = rows[i] /\ found'[i] = found[i]
                 /\ alone'[i] /\ pc'[i] # "idle" =>
                       alone[i] /\ pc[i] # "idle" /\ rows'[i] = rows[i] /\ whole'[i] = whole[i]
      BY <2>0, <3>1 DEF Shape
    <3>3. ASSUME NEW file, NEW k, Held(file, k) PROVE Held(file, k)'
      BY <3>1, <3>2, <3>3, HeldKept
    <3>4. QED
      BY <2>0, <3>1, <3>2, <3>3, NothingCommitted
  <2>4. ASSUME NEW w \in Writers, \/ w \in Importers /\ ImportTriggersCsv(w)
                                  \/ w \in Posters /\ ReceiveTrigger(w)
        PROVE  RerunInv'
    <3>1. PICK file \in Seq(CsvRow) : Start(w, file)
      BY <2>4, StartFile
    <3>2. /\ pc' = [pc EXCEPT ![w] = "find"] /\ UNCHANGED <<contacts, triggers, found, last>>
          /\ rows' = [rows EXCEPT ![w] = file] /\ whole' = [whole EXCEPT ![w] = file]
          /\ alone' = [alone EXCEPT ![w] = TRUE]
      BY <3>1 DEF Start, tables
    <3>3. ASSUME NEW i \in Importers
          PROVE  /\ pc'[i] = "commit" => pc[i] = "commit" /\ rows'[i] = rows[i] /\ found'[i] = found[i]
                 /\ alone'[i] /\ pc'[i] # "idle" =>
                       \/ alone[i] /\ pc[i] # "idle" /\ rows'[i] = rows[i] /\ whole'[i] = whole[i]
                       \/ rows'[i] = whole'[i]
      <4>1. CASE i = w
        BY <2>0, <3>2, <4>1 DEF Shape
      <4>2. CASE i # w
        BY <2>0, <3>2, <4>2 DEF Shape
      <4>3. QED
        BY <4>1, <4>2
    <3>4. ASSUME NEW f, NEW k, Held(f, k) PROVE Held(f, k)'
      BY <3>2, <3>3, <3>4, HeldKept
    <3>5. QED
      BY <2>0, <3>2, <3>3, <3>4, NothingCommitted
  <2>5. ASSUME NEW w \in Writers, FindAccount(w) \/ WriteAccount(w) \/ UpsertVessel(w) \/ FindContact(w)
        PROVE  RerunInv'
    <3>1. CASE Fail(w)
      BY <2>3, <3>1
    <3>2. CASE ~Fail(w)
      <4>1. PICK step \in {"account", "vessel", "contact", "trigger", "commit"} :
               Continue(w, step) /\ (step = "commit" => w \notin Importers)
        BY <2>5, <3>2 DEF FindAccount, WriteAccount, UpsertVessel, FindContact
      <4>2. pc[w] # "idle"
        BY <2>5 DEF FindAccount, WriteAccount, UpsertVessel, FindContact
      <4>3. \A q \in Writers \ {w} : found'[q] = found[q]
        BY <2>5, <3>2 DEF FindAccount, WriteAccount, UpsertVessel, FindContact, Shape
      <4>4. QED
        BY <2>2, <4>1, <4>2, <4>3
    <3>3. QED
      BY <3>1, <3>2
  <2>6. ASSUME NEW w \in Importers, FindTrigger(w) PROVE RerunInv'
    <3>1. /\ pc[w] = "trigger" /\ pc' = [pc EXCEPT ![w] = "commit"]
          /\ UNCHANGED <<contacts, triggers, rows, whole, alone, last>>
      BY <2>6 DEF FindTrigger, Continue, history
    <3>2. ASSUME NEW file, NEW k, Held(file, k) PROVE Held(file, k)'
      BY <2>6, <3>2, FindTriggerHeld
    <3>3. \A i \in Importers : alone'[i] /\ pc'[i] # "idle" =>
             alone[i] /\ pc[i] # "idle" /\ rows'[i] = rows[i] /\ whole'[i] = whole[i]
      BY <2>0, <3>1 DEF Shape
    <3>4. QED
      BY <2>0, <3>1, <3>2, <3>3, NothingCommitted
  <2>7. ASSUME NEW w \in Posters, RecordIncomingTrigger(w) PROVE RerunInv'
    <3>1. alone' = [q \in Writers |-> FALSE] /\ last' = NoImport
      BY <2>7 DEF RecordIncomingTrigger
    <3>2. QED
      BY <2>0, <3>1 DEF RerunInv, AloneInv, LastInv
  <2>8. CASE UNCHANGED vars
    <3>1. UNCHANGED <<contacts, triggers, rows, found, pc, whole, alone, last>>
      BY <2>8 DEF vars, tables, history
    <3>2. ASSUME NEW file, NEW k, Held(file, k) PROVE Held(file, k)'
      BY <3>1, <3>2, HeldKept
    <3>3. QED
      BY <2>0, <3>1, <3>2, NothingCommitted
  <2>9. QED
    BY <2>0, <2>3, <2>4, <2>5, <2>6, <2>7, <2>8, CommitRerun DEF Next, Transaction, Stop
<1>3. QED
  BY <1>1, <1>2, ImportInvariant, PTL DEF Spec

\* Running the same file again, whole or in part and any number of times, adds no contact and no trigger,
\* for any file of one mind about who has an email.
THEOREM RerunAddsNothing == Spec => []RerunDuplicatesNothing
<1>1. RerunInv => RerunDuplicatesNothing
  BY DEF RerunInv, LastInv, RerunDuplicatesNothing
<1>2. QED
  BY <1>1, RerunInvariant, PTL
=============================================================================
