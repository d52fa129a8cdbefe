---------------------------- MODULE MemoryProofs ----------------------------
(***************************************************************************)
(* What the memory guarantees for every set of keys and births, every     *)
(* limit and every bound.  The inductive invariant says what the handler   *)
(* in progress and the consolidation runs that await the LLM still know    *)
(* about the rows they are going to change.                                *)
(***************************************************************************)
EXTENDS Memory, SequenceTheorems, FiniteSetTheorems,
        WellFoundedInduction, TLAPS

\* A call of promote is under way: its evidence is recorded.
Begun == job.at \in {"status", "journal"}

\* The calls that take a row away.
Refutals == {c \in Call : /\ c.type = "external_source" /\ c.to = "refuted"
                          /\ c.gate \in {"decay", "refutation", "llm_consolidate"}}

\* The calls the handler has still to make: one a row, on rows that a snapshot
\* preserves; those of a curation pass on rows that are still active.
CallsInv ==
    /\ \A c \in job.calls : /\ c \in Refutals /\ c.id \in Ids /\ c.id \in preserved
                            /\ c.gate # "llm_consolidate" => Active(c.id)
    /\ \A c, d \in job.calls : c.id = d.id => c = d

\* Why the call under way may be made.
Justified(c) ==
    \/ c \in Refutals /\ c.id \in preserved
    \/ /\ c.gate = "auto_corroborate" /\ c.to = "corroborated"
       /\ c.type = "reproduced_observation"
       /\ knowledge[c.id].prov \in SelfConfirming
    \/ /\ c.gate = "owner_verify"
       /\ \/ c.to = "verified" /\ c.type = "owner_confirmation"
          \/ c.to = "corroborated" /\ c.type = "test_pass"

BegunInv ==
    Begun =>
        /\ job.call \in Call /\ job.call.id \in Ids
        /\ Justified(job.call)
        /\ job.run # "command" => job.call \in Refutals
        /\ job.call.type \in EvidenceOf(job.call.id)
        /\ \A c \in job.calls : c.id # job.call.id
        /\ job.at = "status" =>
              /\ job.call.gate = "auto_corroborate" =>
                     knowledge[job.call.id].status = "unverified"
              /\ job.call.gate \in {"decay", "refutation"} => Active(job.call.id)

\* A curation run took its snapshot when every row it can still refute was active.
PassInv == job.run \in {"stale", "dedup", "decay"} => \A id \in Ids : Active(id) => id \in preserved

\* What the awaiting runs and the merges to come name is in the table and in a snapshot.
Kept == Ids \cap preserved
AwaitInv ==
    /\ awaiting \in Seq(SUBSET Kept)
    /\ job.merges \in Seq(SUBSET Kept)
    /\ job.at = "proposal" => knowledge # <<>>

IInv == /\ TypeOK /\ EvidenceBacked /\ NoSelfConfirmation /\ TransitionsLegal /\ RefutedRecoverable
        /\ CallsInv /\ BegunInv /\ PassInv /\ AwaitInv

-----------------------------------------------------------------------------
(* Sequences: what the tables keep when a row changes or is added.         *)

\* Replacing one element of a sequence leaves its length and the others alone.
LEMMA ReplaceOne ==
    ASSUME NEW S, NEW s \in Seq(S), NEW i \in DOMAIN s, NEW e \in S
    PROVE  /\ [s EXCEPT ![i] = e] \in Seq(S)
           /\ Len([s EXCEPT ![i] = e]) = Len(s)
           /\ DOMAIN [s EXCEPT ![i] = e] = DOMAIN s
           /\ \A j \in DOMAIN s : [s EXCEPT ![i] = e][j] = IF j = i THEN e ELSE s[j]
<1>1. DOMAIN s = 1 .. Len(s) BY LenProperties
<1>2. QED BY <1>1, ExceptSeq, LenProperties

\* Appending an element leaves the earlier ones alone.
LEMMA AppendOne ==
    ASSUME NEW S, NEW s \in Seq(S), NEW e \in S
    PROVE  /\ Append(s, e) \in Seq(S)
           /\ Len(Append(s, e)) = Len(s) + 1
           /\ Append(s, e) # <<>>
           /\ DOMAIN Append(s, e) = DOMAIN s \cup {Len(s) + 1}
           /\ Len(s) + 1 \notin DOMAIN s
           /\ \A j \in DOMAIN s : Append(s, e)[j] = s[j]
           /\ Append(s, e)[Len(s) + 1] = e
<1>1. DOMAIN s = 1 .. Len(s) /\ Len(s) \in Nat BY LenProperties
<1>2. /\ Append(s, e) \in Seq(S) /\ Len(Append(s, e)) = Len(s) + 1
      /\ Append(s, e) # <<>>
      /\ \A j \in 1 .. Len(s) : Append(s, e)[j] = s[j]
      /\ Append(s, e)[Len(s) + 1] = e
  BY AppendProperties
<1>3. DOMAIN Append(s, e) = 1 .. Len(s) + 1 BY <1>2, LenProperties
<1>4. QED BY <1>1, <1>2, <1>3

\* Removing an element leaves a sequence over the same set.
LEMMA RemoveOne ==
    ASSUME NEW S, NEW s \in Seq(S), NEW n \in DOMAIN s
    PROVE  RemoveAt(s, n) \in Seq(S)
<1>1. DOMAIN s = 1 .. Len(s) /\ Len(s) \in Nat BY LenProperties
<1>2. \A i \in 1 .. Len(s) : s[i] \in S BY ElementOfSeq
<1>3. /\ 1 \in Int /\ n - 1 \in Int /\ n + 1 \in Int /\ Len(s) \in Int
      /\ 1 .. n - 1 \subseteq 1 .. Len(s) /\ n + 1 .. Len(s) \subseteq 1 .. Len(s)
  BY <1>1
<1>4. SubSeq(s, 1, n - 1) \in Seq(S)
  <2>1. \A i \in 1 .. n - 1 : s[i] \in S BY <1>2, <1>3
  <2>2. QED BY ONLY <2>1, <1>3, SubSeqProperties
<1>5. SubSeq(s, n + 1, Len(s)) \in Seq(S)
  <2>1. \A i \in n + 1 .. Len(s) : s[i] \in S BY <1>2, <1>3
  <2>2. QED BY ONLY <2>1, <1>3, SubSeqProperties
<1>6. QED BY <1>4, <1>5, ConcatProperties DEF RemoveAt

\* Batches over a set are batches over a larger one.
LEMMA BatchesWiden ==
    ASSUME NEW S, NEW T, S \subseteq T, NEW s \in Seq(SUBSET S)
    PROVE  s \in Seq(SUBSET T)
<1>1. SUBSET S \subseteq SUBSET T OBVIOUS
<1>2. QED BY ONLY <1>1, SeqMonotonic, s \in Seq(SUBSET S)

-----------------------------------------------------------------------------
(* The invariant holds at the start, and every step preserves it.          *)

LEMMA IInvInit == Init => IInv
<1> SUFFICES ASSUME Init PROVE IInv
  OBVIOUS
<1> USE DEF Init, Idle
<1>1. Ids = {} BY DEF Ids
<1>2. TypeOK
  <2>1. /\ <<>> \in Seq(Row) /\ <<>> \in Seq(Evidence) /\ <<>> \in Seq(Statuses \cup {Null})
        /\ <<>> \in Seq(SUBSET Nat) /\ Len(<<>>) = 0
    BY EmptySeq
  <2>2. job \in JobType BY <2>1 DEF JobType
  <2>3. QED BY <2>1, <2>2 DEF TypeOK
<1>3. EvidenceBacked /\ NoSelfConfirmation BY <1>1 DEF EvidenceBacked, NoSelfConfirmation
<1>4. TransitionsLegal /\ RefutedRecoverable /\ BegunInv /\ PassInv
  BY DEF TransitionsLegal, RefutedRecoverable, BegunInv, Begun, PassInv
<1>5. CallsInv BY DEF CallsInv
<1>6. AwaitInv BY EmptySeq DEF AwaitInv
<1>7. QED BY <1>2, <1>3, <1>4, <1>5, <1>6 DEF IInv

\* A step that leaves the three tables alone and loses no snapshot.
LEMMA TablesUnchanged ==
    ASSUME IInv, UNCHANGED tables, preserved \subseteq preserved'
    PROVE  /\ EvidenceBacked' /\ NoSelfConfirmation'
           /\ Ids' = Ids /\ (\A id \in Ids : Active(id)' <=> Active(id))
           /\ Kept \subseteq Kept'
<1> USE DEF IInv, tables
<1>1. EvidenceBacked' /\ NoSelfConfirmation'
  BY DEF EvidenceBacked, NoSelfConfirmation, EvidenceOf, Injectable, Ids
<1>2. Ids' = Ids /\ (\A id \in Ids : Active(id)' <=> Active(id)) BY DEF Ids, Active
<1>3. Kept \subseteq Kept' BY <1>2 DEF Kept
<1>4. QED BY <1>1, <1>2, <1>3

\* The handler ends or another one begins that has made no call yet.
LEMMA NothingBegun ==
    ASSUME job'.at = "evidence"
    PROVE  BegunInv' /\ TransitionsLegal' /\ RefutedRecoverable'
BY DEF BegunInv, Begun, TransitionsLegal, RefutedRecoverable

\* A row's id is a number.
LEMMA IdsAreNat == ASSUME TypeOK PROVE Ids \subseteq Nat
BY LenProperties DEF TypeOK, Ids

\* A step of the world around: the handler and the tables stay.
LEMMA JobUnchanged ==
    ASSUME IInv, UNCHANGED <<tables, job>>, preserved \subseteq preserved',
           preserved' \subseteq Nat, snapped' \in BOOLEAN, clock' \in Nat, crashes' \in Nat,
           awaiting' \in Seq(SUBSET Kept')
    PROVE  IInv'
<1>1. /\ EvidenceBacked' /\ NoSelfConfirmation'
      /\ Ids' = Ids /\ (\A id \in Ids : Active(id)' <=> Active(id))
      /\ Kept \subseteq Kept'
  BY TablesUnchanged
<1> USE DEF IInv
<1>2. Ids \subseteq Nat BY IdsAreNat
<1>3. TypeOK'
  <2>1. Kept' \subseteq Nat BY <1>1, <1>2 DEF Kept
  <2>2. awaiting' \in Seq(SUBSET Nat) BY <2>1, SeqMonotonic
  <2>3. QED BY <2>2 DEF TypeOK, tables
<1>4. CallsInv' BY <1>1 DEF CallsInv
<1>5. BegunInv' BY <1>1 DEF BegunInv, Begun, Justified, EvidenceOf, tables
<1>6. TransitionsLegal' /\ RefutedRecoverable' BY DEF TransitionsLegal, RefutedRecoverable
<1>7. PassInv' BY <1>1 DEF PassInv
<1>8. AwaitInv'
  <2>1. job'.merges \in Seq(SUBSET Kept') BY <1>1, SeqMonotonic DEF AwaitInv
  <2>2. QED BY <2>1 DEF AwaitInv, tables
<1>9. QED BY <1>1, <1>3, <1>4, <1>5, <1>6, <1>7, <1>8

\* The handler returns, or dies, and leaves the tables as they are.
LEMMA JobEnds ==
    ASSUME IInv, UNCHANGED <<tables, preserved, snapped, clock>>, job' = Idle,
           awaiting' \in {awaiting, <<>>}, crashes' \in Nat
    PROVE  IInv'
<1>1. /\ EvidenceBacked' /\ NoSelfConfirmation' /\ Ids' = Ids /\ Kept \subseteq Kept'
  BY TablesUnchanged
<1> USE DEF IInv
<1>2. job'.at = "evidence" BY DEF Idle
<1>3. awaiting' \in Seq(SUBSET Kept') /\ awaiting' \in Seq(SUBSET Nat)
      /\ <<>> \in Seq(SUBSET Kept') /\ <<>> \in Seq(SUBSET Nat)
  <2>1. awaiting \in Seq(SUBSET Kept') BY <1>1, BatchesWiden DEF AwaitInv
  <2>2. QED BY <2>1, EmptySeq DEF TypeOK
<1>4. TypeOK'
  <2>1. job' \in JobType BY <1>3 DEF JobType, Idle
  <2>2. QED BY <2>1, <1>3 DEF TypeOK, tables
<1>5. CallsInv' /\ PassInv' BY DEF CallsInv, PassInv, Idle
<1>6. AwaitInv' BY <1>3 DEF AwaitInv, Idle
<1>7. QED BY <1>1, <1>2, <1>4, <1>5, <1>6, NothingBegun

\* A pass of the curation run starts over active rows that a snapshot has.
LEMMA PassStarts ==
    ASSUME IInv, UNCHANGED <<tables, clock, awaiting, crashes>>,
           preserved \subseteq preserved', preserved' \subseteq Nat, snapped' \in BOOLEAN,
           \A id \in Ids : Active(id) => id \in preserved',
           NEW R \in SUBSET Ids, \A id \in R : Active(id),
           NEW run \in {"stale", "dedup", "decay"}, NEW gate \in {"decay", "refutation"},
           job' = Start(run, {Refute(id, gate) : id \in R})
    PROVE  IInv'
<1>1. /\ EvidenceBacked' /\ NoSelfConfirmation'
      /\ Ids' = Ids /\ (\A id \in Ids : Active(id)' <=> Active(id)) /\ Kept \subseteq Kept'
  BY TablesUnchanged
<1> USE DEF IInv
<1>2. Ids \subseteq Nat BY IdsAreNat
<1>3. /\ job'.at = "evidence" /\ job'.run = run /\ job'.merges = <<>>
      /\ job'.calls = {Refute(id, gate) : id \in R}
  BY DEF Start, Idle
<1>4. {Refute(id, gate) : id \in R} \subseteq Refutals
  BY <1>2 DEF Refutals, Refute, Call, EvidenceTypes, Statuses, Gates
<1>5. awaiting' \in Seq(SUBSET Kept') /\ <<>> \in Seq(SUBSET Kept') /\ <<>> \in Seq(SUBSET Nat)
  BY <1>1, SeqMonotonic, EmptySeq DEF AwaitInv
<1>6. TypeOK'
  <2>1. job' \in JobType BY <1>4, <1>5 DEF JobType, Start, Idle, Refutals
  <2>2. QED BY <2>1, <1>5 DEF TypeOK, tables
<1>7. CallsInv' BY <1>1, <1>3, <1>4 DEF CallsInv, Refute
<1>8. PassInv' BY <1>1 DEF PassInv
<1>9. AwaitInv' BY <1>3, <1>5 DEF AwaitInv
<1>10. QED BY <1>1, <1>3, <1>6, <1>7, <1>8, <1>9, NothingBegun

\* The handler goes on to its next merge, or has none left.
LEMMA MergeStarts ==
    ASSUME (Ids \subseteq Nat)', NEW merges \in Seq(SUBSET Kept'), job' = NextMerge(merges)
    PROVE  /\ job' \in JobType /\ job'.at = "evidence" /\ job'.merges \in Seq(SUBSET Kept')
           /\ CallsInv' /\ PassInv'
<1>1. /\ Kept' \subseteq Nat /\ <<>> \in Seq(SUBSET Kept') /\ <<>> \in Seq(SUBSET Nat)
  BY EmptySeq DEF Kept
<1>2. CASE merges = <<>>
  <2>1. job' = Idle BY <1>2 DEF NextMerge
  <2>2. QED BY <1>1, <2>1 DEF Idle, JobType, CallsInv, PassInv
<1>3. CASE merges # <<>>
  <2>1. /\ Head(merges) \subseteq Kept' /\ Tail(merges) \in Seq(SUBSET Kept')
        /\ Tail(merges) \in Seq(SUBSET Nat)
    <3>1. Head(merges) \in SUBSET Kept' /\ Tail(merges) \in Seq(SUBSET Kept')
      BY <1>3, HeadTailProperties
    <3>2. QED BY <1>1, <3>1, BatchesWiden
  <2> DEFINE calls == {Refute(id, "llm_consolidate") : id \in Head(merges)}
  <2>2. job' = [run |-> "merge", calls |-> calls, at |-> "evidence", call |-> Null, from |-> Null,
                merges |-> Tail(merges)]
    BY <1>3 DEF NextMerge, Start, Idle
  <2>3. calls \subseteq Refutals
    BY <1>1, <2>1 DEF Refutals, Refute, Call, EvidenceTypes, Statuses, Gates
  <2>4. job' \in JobType BY <2>1, <2>2, <2>3 DEF JobType, Refutals
  <2>5. CallsInv'
    <3>1. \A c \in calls : c.id \in Kept' /\ c.gate = "llm_consolidate" BY <2>1 DEF Refute
    <3>2. \A c, d \in calls : c.id = d.id => c = d BY DEF Refute
    <3>3. QED BY <2>2, <2>3, <3>1, <3>2 DEF CallsInv, Kept
  <2>6. PassInv' BY <2>2 DEF PassInv
  <2>7. QED BY <2>1, <2>2, <2>4, <2>5, <2>6
<1>4. QED BY <1>2, <1>3

\* A row changes in columns the promotion gate does not look at.
LEMMA RowTouched ==
    ASSUME IInv, UNCHANGED <<evidence, journal, preserved, snapped, clock, job, awaiting, crashes>>,
           NEW id \in Ids, NEW row \in Row,
           row.status = knowledge[id].status, row.prov = knowledge[id].prov,
           knowledge' = [knowledge EXCEPT ![id] = row]
    PROVE  IInv'
<1> USE DEF IInv
<1>1. /\ knowledge' \in Seq(Row) /\ Len(knowledge') = Len(knowledge) /\ Ids' = Ids
      /\ \A i \in Ids : knowledge'[i] = IF i = id THEN row ELSE knowledge[i]
  BY ReplaceOne DEF TypeOK, Ids
<1>2. \A i \in Ids : /\ knowledge'[i].status = knowledge[i].status
                     /\ knowledge'[i].prov = knowledge[i].prov
  BY <1>1
<1>3. \A i \in Ids : Active(i)' <=> Active(i) BY <1>2 DEF Active
<1>4. TypeOK' BY <1>1 DEF TypeOK
<1>5. EvidenceBacked' /\ NoSelfConfirmation'
  BY <1>1, <1>2 DEF EvidenceBacked, NoSelfConfirmation, EvidenceOf, Injectable
<1>6. TransitionsLegal' /\ RefutedRecoverable' BY DEF TransitionsLegal, RefutedRecoverable
<1>7. CallsInv' BY <1>1, <1>3 DEF CallsInv
<1>8. BegunInv' BY <1>1, <1>2, <1>3 DEF BegunInv, Begun, Justified, EvidenceOf
<1>9. PassInv' BY <1>1, <1>3 DEF PassInv
<1>10. AwaitInv'
  <2>1. Kept' = Kept BY <1>1 DEF Kept
  <2>2. knowledge # <<>> => knowledge' # <<>> BY <1>1 DEF Ids
  <2>3. QED BY <2>1, <2>2 DEF AwaitInv
<1>11. QED BY <1>4, <1>5, <1>6, <1>7, <1>8, <1>9, <1>10

\* A new row is unverified and has neither evidence nor a transition.
LEMMA RowAdded ==
    ASSUME IInv, NEW birth \in [key : Keys, kind : Kinds, prov : Provenances], AddRow(birth),
           UNCHANGED <<preserved, snapped, clock, awaiting, crashes>>,
           job' \in {job, [job EXCEPT !.at = "proposal"]},
           job.run \notin {"stale", "dedup", "decay"}
    PROVE  IInv'
<1> USE DEF IInv
<1> DEFINE row == [key |-> birth.key, kind |-> birth.kind, prov |-> birth.prov,
                   status |-> "unverified", uses |-> 0, created |-> clock, staleAfter |-> Null]
           new == Len(knowledge) + 1
<1>1. /\ row \in Row /\ [count |-> 0, types |-> {}] \in Evidence
      /\ Null \in Statuses \cup {Null}
  BY DEF Row, Evidence, Statuses, TypeOK
<1>2. /\ knowledge' \in Seq(Row) /\ Len(knowledge') = new /\ knowledge' # <<>>
      /\ Ids' = Ids \cup {new} /\ new \notin Ids
      /\ \A i \in Ids : knowledge'[i] = knowledge[i]
      /\ knowledge'[new] = row
  BY <1>1, AppendOne DEF AddRow, TypeOK, Ids
<1>3. /\ evidence' \in Seq(Evidence) /\ Len(evidence') = new
      /\ \A i \in Ids : evidence'[i] = evidence[i]
  <2>1. DOMAIN evidence = Ids BY LenProperties DEF TypeOK, Ids
  <2>2. QED BY <1>1, <2>1, AppendOne DEF AddRow, TypeOK
<1>4. journal' \in Seq(Statuses \cup {Null}) /\ Len(journal') = new
  BY <1>1, AppendOne DEF AddRow, TypeOK
<1>5. \A i \in Ids : Active(i)' <=> Active(i) BY <1>2 DEF Active
<1>6. /\ job' \in JobType /\ job'.calls = job.calls /\ job'.run = job.run /\ job'.call = job.call
      /\ job'.merges = job.merges /\ job'.from = job.from
      /\ job'.at # "proposal" => job'.at = job.at
  BY DEF TypeOK, JobType
<1>7. TypeOK' BY <1>2, <1>3, <1>4, <1>6 DEF TypeOK
<1>8. /\ knowledge'[new].status = "unverified"
  BY <1>2
<1>9. EvidenceBacked' /\ NoSelfConfirmation'
  BY <1>2, <1>3, <1>8 DEF EvidenceBacked, NoSelfConfirmation, EvidenceOf, Injectable
<1>10. TransitionsLegal' /\ RefutedRecoverable'
  BY <1>6 DEF TransitionsLegal, RefutedRecoverable
<1>11. CallsInv' BY <1>2, <1>5, <1>6 DEF CallsInv
<1>12. BegunInv' BY <1>2, <1>3, <1>5, <1>6 DEF BegunInv, Begun, Justified, EvidenceOf
<1>13. PassInv' BY <1>6 DEF PassInv
<1>14. AwaitInv'
  <2>1. Kept \subseteq Kept' BY <1>2 DEF Kept
  <2>2. awaiting' \in Seq(SUBSET Kept') /\ job'.merges \in Seq(SUBSET Kept')
    BY <1>6, <2>1, BatchesWiden DEF AwaitInv
  <2>3. QED BY <1>2, <2>2 DEF AwaitInv
<1>15. QED BY <1>7, <1>9, <1>10, <1>11, <1>12, <1>13, <1>14

\* The first statement of a call: the handler takes it up and its evidence is there.
LEMMA CallBegins ==
    ASSUME IInv, NEW j \in JobType, NEW c \in Call, CiteFor(c, j), c.id \in Ids, Justified(c),
           c.gate = "auto_corroborate" => knowledge[c.id].status = "unverified",
           c.gate \in {"decay", "refutation"} => Active(c.id),
           \/ j = job /\ c \in job.calls
           \/ j.calls = {} /\ j.run = "command" /\ j.merges = <<>>
    PROVE  IInv'
<1> USE DEF IInv
<1>1. Ids \subseteq Nat /\ DOMAIN evidence = Ids BY IdsAreNat, LenProperties DEF TypeOK, Ids
<1>2. /\ evidence[c.id] \in Evidence
      /\ Cite(evidence[c.id], c.type) \in Evidence
  <2>1. evidence[c.id] \in Evidence BY <1>1, ElementOfSeq, LenProperties DEF TypeOK
  <2>2. c.type \in EvidenceTypes BY DEF Call
  <2>3. QED BY <2>1, <2>2 DEF Evidence, Cite
<1>3. /\ evidence' \in Seq(Evidence) /\ Len(evidence') = Len(evidence)
      /\ \A i \in Ids : EvidenceOf(i) \subseteq EvidenceOf(i)'
      /\ c.type \in EvidenceOf(c.id)'
  <2>1. /\ evidence' \in Seq(Evidence) /\ Len(evidence') = Len(evidence)
        /\ \A i \in Ids : evidence'[i] = IF i = c.id THEN Cite(evidence[c.id], c.type) ELSE evidence[i]
    BY <1>1, <1>2, ReplaceOne DEF CiteFor, TypeOK
  <2>2. QED BY <2>1 DEF EvidenceOf, Cite
<1>4. /\ job'.calls = j.calls \ {c} /\ job'.call = c /\ job'.at = "status"
      /\ job'.run = j.run /\ job'.merges = j.merges /\ job' \in JobType
  BY DEF CiteFor, JobType
<1>5. UNCHANGED <<knowledge, journal, preserved, snapped, clock, awaiting, crashes>> BY DEF CiteFor
<1>6. Ids' = Ids /\ Kept' = Kept /\ (\A i \in Ids : Active(i)' <=> Active(i))
  BY <1>5 DEF Ids, Kept, Active
<1>7. TypeOK' BY <1>3, <1>4, <1>5 DEF TypeOK
<1>8. EvidenceBacked' /\ NoSelfConfirmation'
  <2>1. EvidenceBacked' BY <1>3, <1>5, <1>6 DEF EvidenceBacked
  <2>2. NoSelfConfirmation' BY <1>3, <1>5, <1>6 DEF NoSelfConfirmation, Injectable
  <2>3. QED BY <2>1, <2>2
<1>9. TransitionsLegal' /\ RefutedRecoverable' BY <1>4 DEF TransitionsLegal, RefutedRecoverable
<1>10. j.calls \subseteq job.calls OBVIOUS
<1>11. CallsInv' BY <1>4, <1>5, <1>6, <1>10 DEF CallsInv
<1>12. BegunInv'
  <2>1. \A d \in job'.calls : d.id # c.id BY <1>4, <1>10 DEF CallsInv
  <2>2. Justified(c)' BY <1>5 DEF Justified
  <2>3. job'.run # "command" => c \in Refutals BY <1>4 DEF CallsInv
  <2>4. QED BY <1>3, <1>4, <1>5, <1>6, <2>1, <2>2, <2>3 DEF BegunInv
<1>13. PassInv' BY <1>4, <1>5, <1>6 DEF PassInv
<1>14. AwaitInv' BY <1>4, <1>5, <1>6, EmptySeq DEF AwaitInv
<1>15. QED BY <1>7, <1>8, <1>9, <1>11, <1>12, <1>13, <1>14

\* The UPDATE of promote: the evidence for the new status is there already.
LEMMA UpdateStatusStep == IInv /\ UpdateStatus => IInv'
<1> SUFFICES ASSUME IInv, UpdateStatus, NEW c, c = job.call PROVE IInv'
  OBVIOUS
<1> USE DEF IInv
<1> DEFINE row == [knowledge[c.id] EXCEPT !.status = c.to]
<1>1. /\ Begun /\ job.at = "status" /\ c \in Call /\ c.id \in Ids /\ Justified(c)
      /\ c.type \in EvidenceOf(c.id) /\ \A d \in job.calls : d.id # c.id
      /\ c.gate = "auto_corroborate" => knowledge[c.id].status = "unverified"
      /\ c.gate \in {"decay", "refutation"} => Active(c.id)
      /\ job.run # "command" => c \in Refutals
  BY DEF UpdateStatus, BegunInv, Begun
<1>2. /\ knowledge[c.id] \in Row /\ row \in Row /\ row.status = c.to
      /\ row.prov = knowledge[c.id].prov
  <2>1. knowledge[c.id] \in Row BY <1>1, ElementOfSeq, LenProperties DEF TypeOK, Ids
  <2>2. QED BY <1>1, <2>1 DEF Row, Call
<1>3. /\ knowledge' \in Seq(Row) /\ Len(knowledge') = Len(knowledge) /\ Ids' = Ids
      /\ \A i \in Ids : knowledge'[i] = IF i = c.id THEN row ELSE knowledge[i]
  BY <1>1, <1>2, ReplaceOne DEF UpdateStatus, TypeOK, Ids
<1>4. /\ UNCHANGED <<evidence, journal, preserved, snapped, clock, awaiting, crashes>>
      /\ job' \in JobType /\ job'.calls = job.calls /\ job'.run = job.run /\ job'.call = c
      /\ job'.merges = job.merges /\ job'.from = knowledge[c.id].status /\ job'.at = "journal"
  BY <1>2 DEF UpdateStatus, TypeOK, JobType, Row
<1>5. \A i \in Ids : i # c.id => (Active(i)' <=> Active(i)) BY <1>3 DEF Active
<1>6. TypeOK' BY <1>3, <1>4 DEF TypeOK
<1>7. EvidenceBacked'
  <2>1. ASSUME NEW i \in Ids, i # c.id
        PROVE  knowledge'[i] = knowledge[i] /\ EvidenceOf(i)' = EvidenceOf(i)
    BY <1>3, <1>4, <2>1 DEF EvidenceOf
  <2>2. /\ EvidenceOf(c.id)' = EvidenceOf(c.id) /\ knowledge'[c.id].status = c.to
    BY <1>1, <1>2, <1>3, <1>4 DEF EvidenceOf
  <2>3. /\ c.to = "verified" => c.type = "owner_confirmation"
        /\ c.to = "corroborated" => c.type \in {"test_pass", "reproduced_observation"}
        /\ c.to = "refuted" => c.type = "external_source"
    BY <1>1 DEF Justified, Refutals
  <2>4. QED BY <1>1, <1>3, <2>1, <2>2, <2>3 DEF EvidenceBacked
<1>8. NoSelfConfirmation'
  <2>1. ASSUME NEW i \in Ids, i # c.id
        PROVE  knowledge'[i] = knowledge[i] /\ EvidenceOf(i)' = EvidenceOf(i)
    BY <1>3, <1>4, <2>1 DEF EvidenceOf
  <2>2. /\ EvidenceOf(c.id)' = EvidenceOf(c.id) /\ knowledge'[c.id].status = c.to
        /\ knowledge'[c.id].prov = knowledge[c.id].prov
    BY <1>1, <1>2, <1>3, <1>4 DEF EvidenceOf
  <2>3. \/ c.to = "refuted" \/ c.type \in {"test_pass", "owner_confirmation"}
        \/ knowledge[c.id].prov \in {"owner", "orchestrator"}
    BY <1>1 DEF Justified, Refutals, SelfConfirming
  <2>4. QED BY <1>1, <1>3, <2>1, <2>2, <2>3 DEF NoSelfConfirmation, Injectable
<1>9. TransitionsLegal'
  <2>1. LegalTransition(knowledge[c.id].status, c.to, c.gate)
    BY <1>1 DEF LegalTransition, Justified, Refutals, Active
  <2>2. QED BY <1>4, <2>1 DEF TransitionsLegal, LegalTransition
<1>10. RefutedRecoverable' BY <1>1, <1>4 DEF RefutedRecoverable, Justified
<1>11. CallsInv' BY <1>1, <1>3, <1>4, <1>5 DEF CallsInv
<1>12. BegunInv'
  <2>1. Justified(c)' BY <1>1, <1>2, <1>3, <1>4 DEF Justified
  <2>2. QED BY <1>1, <1>3, <1>4, <2>1 DEF BegunInv, EvidenceOf
<1>13. PassInv'
  <2>1. job.run # "command" => c.to = "refuted" BY <1>1 DEF Refutals
  <2>2. job.run # "command" => ~ Active(c.id)' BY <1>1, <1>2, <1>3, <2>1 DEF Active
  <2>3. QED BY <1>3, <1>4, <1>5, <2>2 DEF PassInv
<1>14. AwaitInv'
  <2>1. Kept' = Kept BY <1>3, <1>4 DEF Kept
  <2>2. QED BY <1>4, <2>1 DEF AwaitInv
<1>15. QED BY <1>6, <1>7, <1>8, <1>9, <1>10, <1>11, <1>12, <1>13, <1>14

\* The INSERT into the journal ends the call, and the handler goes on to the next.
LEMMA RecordTransitionStep == IInv /\ RecordTransition => IInv'
<1> SUFFICES ASSUME IInv, RecordTransition PROVE IInv'
  OBVIOUS
<1> USE DEF IInv
<1>1. job.at = "journal" /\ job.call \in Call /\ job.call.id \in Ids
  BY DEF RecordTransition, BegunInv, Begun
<1>2. journal' \in Seq(Statuses \cup {Null}) /\ Len(journal') = Len(journal)
  <2>1. DOMAIN journal = Ids BY LenProperties DEF TypeOK, Ids
  <2>2. job.call.to \in Statuses \cup {Null} BY <1>1 DEF Call
  <2>3. QED BY <1>1, <2>1, <2>2, ReplaceOne DEF RecordTransition, TypeOK
<1>3. UNCHANGED <<knowledge, evidence, preserved, snapped, clock, awaiting, crashes>>
  BY DEF RecordTransition
<1>4. /\ job' \in JobType /\ job'.at = "evidence"
      /\ \/ job'.calls = {} /\ job'.run = "none" /\ job'.merges = <<>>
         \/ job'.calls = job.calls /\ job'.run = job.run /\ job'.merges = job.merges
  BY EmptySeq DEF RecordTransition, Idle, TypeOK, JobType
<1>5. Ids' = Ids /\ Kept' = Kept /\ (\A i \in Ids : Active(i)' <=> Active(i))
  BY <1>3 DEF Ids, Kept, Active
<1>6. TypeOK' BY <1>2, <1>3, <1>4 DEF TypeOK
<1>7. EvidenceBacked' /\ NoSelfConfirmation'
  BY <1>3 DEF EvidenceBacked, NoSelfConfirmation, EvidenceOf, Injectable, Ids
<1>8. CallsInv' BY <1>3, <1>4, <1>5 DEF CallsInv
<1>9. PassInv' BY <1>3, <1>4, <1>5 DEF PassInv
<1>10. AwaitInv' BY <1>3, <1>4, <1>5, EmptySeq DEF AwaitInv
<1>11. QED BY <1>4, <1>6, <1>7, <1>8, <1>9, <1>10, NothingBegun

\* The evidence of a summary does not lift it, and the next merge may begin.
LEMMA RecordProposalStep == IInv /\ RecordProposal => IInv'
<1> SUFFICES ASSUME IInv, RecordProposal, NEW id, id = Len(knowledge) PROVE IInv'
  OBVIOUS
<1> USE DEF IInv
<1>1. /\ id \in Ids /\ DOMAIN evidence = Ids /\ Ids \subseteq Nat
  <2>1. knowledge # <<>> BY DEF AwaitInv, RecordProposal
  <2>2. id \in Nat \ {0} BY <2>1, EmptySeq DEF TypeOK
  <2>3. QED BY <2>2, LenProperties DEF TypeOK, Ids
<1>2. Cite(evidence[id], "llm_proposal") \in Evidence
  <2>1. evidence[id] \in Evidence BY <1>1, ElementOfSeq, LenProperties DEF TypeOK
  <2>2. QED BY <2>1 DEF Evidence, Cite, EvidenceTypes
<1>3. /\ evidence' \in Seq(Evidence) /\ Len(evidence') = Len(evidence)
      /\ \A i \in Ids : EvidenceOf(i) \subseteq EvidenceOf(i)'
  <2>1. /\ evidence' \in Seq(Evidence) /\ Len(evidence') = Len(evidence)
        /\ \A i \in Ids : evidence'[i] = IF i = id THEN Cite(evidence[id], "llm_proposal")
                                           ELSE evidence[i]
    BY <1>1, <1>2, ReplaceOne DEF RecordProposal, TypeOK
  <2>2. QED BY <2>1 DEF EvidenceOf, Cite
<1>4. UNCHANGED <<knowledge, journal, preserved, snapped, clock, awaiting, crashes>>
  BY DEF RecordProposal
<1>5. Ids' = Ids /\ Kept' = Kept BY <1>4 DEF Ids, Kept
<1>6. /\ job' \in JobType /\ job'.at = "evidence" /\ job'.merges \in Seq(SUBSET Kept')
      /\ CallsInv' /\ PassInv'
  <2>1. job' = NextMerge(job.merges) BY DEF RecordProposal
  <2>2. job.merges \in Seq(SUBSET Kept') BY <1>5 DEF AwaitInv
  <2>3. QED BY <1>1, <1>5, <2>1, <2>2, MergeStarts
<1>7. TypeOK' BY <1>3, <1>4, <1>6 DEF TypeOK
<1>8. EvidenceBacked' /\ NoSelfConfirmation'
  <2>1. EvidenceBacked' BY <1>3, <1>4, <1>5 DEF EvidenceBacked
  <2>2. NoSelfConfirmation' BY <1>3, <1>4, <1>5 DEF NoSelfConfirmation, Injectable
  <2>3. QED BY <2>1, <2>2
<1>9. AwaitInv' BY <1>4, <1>5, <1>6 DEF AwaitInv
<1>10. QED BY <1>6, <1>7, <1>8, <1>9, NothingBegun

\* The owner's commands and the verifier's, on a row of the table.
LEMMA CommandStep ==
    ASSUME IInv, NEW c \in Call, Command(c), c.id \in Ids, Justified(c),
           c.gate = "auto_corroborate" => knowledge[c.id].status = "unverified",
           c.gate \notin {"decay", "refutation"}
    PROVE  IInv'
<1> DEFINE j == Start("command", {})
<1>1. j.run = "command" /\ j.calls = {} /\ j.merges = <<>> BY DEF Start, Idle
<1>2. j \in JobType
  <2>1. <<>> \in Seq(SUBSET Nat) BY EmptySeq
  <2>2. QED BY <2>1 DEF JobType, Start, Idle
<1>3. CiteFor(c, j) BY DEF Command
<1> HIDE DEF j
<1>4. QED BY <1>1, <1>2, <1>3, CallBegins

\* What callers do with one row: use it, date it, verify it.
LEMMA RowActionsStep ==
    ASSUME IInv, NEW id \in Ids,
           \/ BumpUsage(id) \/ \E date \in StaleDates : MarkStale(id, date)
           \/ TryAutoCorroborate(id) \/ VerifyByOwner(id) \/ OwnerCorroborate(id)
    PROVE  IInv'
<1>1. /\ knowledge[id] \in Row /\ id \in Nat
  BY IdsAreNat, ElementOfSeq, LenProperties DEF IInv, TypeOK, Ids
<1>2. CASE BumpUsage(id)
  <2> DEFINE row == [knowledge[id] EXCEPT !.uses = @ + 1]
  <2>1. row \in Row /\ row.status = knowledge[id].status /\ row.prov = knowledge[id].prov
    BY <1>1 DEF Row
  <2>2. knowledge' = [knowledge EXCEPT ![id] = row] BY <1>2 DEF BumpUsage
  <2> HIDE DEF row
  <2>3. QED BY <1>2, <2>1, <2>2, RowTouched DEF BumpUsage
<1>3. CASE \E date \in StaleDates : MarkStale(id, date)
  <2>1. PICK date \in StaleDates : MarkStale(id, date) BY <1>3
  <2> DEFINE row == [knowledge[id] EXCEPT !.staleAfter = date]
  <2>2. row \in Row /\ row.status = knowledge[id].status /\ row.prov = knowledge[id].prov
    BY <1>1, MemoryAssumption DEF Row
  <2>3. knowledge' = [knowledge EXCEPT ![id] = row] BY <2>1 DEF MarkStale
  <2> HIDE DEF row
  <2>4. QED BY <2>1, <2>2, <2>3, RowTouched DEF MarkStale
<1>4. CASE TryAutoCorroborate(id)
  <2> DEFINE c == [id |-> id, type |-> "reproduced_observation",
                   to |-> "corroborated", gate |-> "auto_corroborate"]
  <2>1. /\ c \in Call /\ c.id = id /\ Justified(c)
        /\ knowledge[c.id].status = "unverified" /\ c.gate \notin {"decay", "refutation"}
    BY <1>1, <1>4 DEF Call, EvidenceTypes, Statuses, Gates, Justified, TryAutoCorroborate
  <2>2. Command(c) BY <1>4 DEF TryAutoCorroborate
  <2> HIDE DEF c
  <2>3. QED BY <2>1, <2>2, CommandStep
<1>5. CASE VerifyByOwner(id)
  <2> DEFINE c == [id |-> id, type |-> "owner_confirmation", to |-> "verified", gate |-> "owner_verify"]
  <2>1. /\ c \in Call /\ c.id = id /\ Justified(c)
        /\ c.gate \notin {"auto_corroborate", "decay", "refutation"}
    BY <1>1 DEF Call, EvidenceTypes, Statuses, Gates, Justified
  <2>2. Command(c) BY <1>5 DEF VerifyByOwner
  <2> HIDE DEF c
  <2>3. QED BY <2>1, <2>2, CommandStep
<1>6. CASE OwnerCorroborate(id)
  <2> DEFINE c == [id |-> id, type |-> "test_pass", to |-> "corroborated", gate |-> "owner_verify"]
  <2>1. /\ c \in Call /\ c.id = id /\ Justified(c)
        /\ c.gate \notin {"auto_corroborate", "decay", "refutation"}
    BY <1>1 DEF Call, EvidenceTypes, Statuses, Gates, Justified
  <2>2. Command(c) BY <1>6 DEF OwnerCorroborate
  <2> HIDE DEF c
  <2>3. QED BY <2>1, <2>2, CommandStep
<1>7. QED BY <1>2, <1>3, <1>4, <1>5, <1>6

\* A pass or a merge takes up one of the calls it has still to make.
LEMMA AddEvidenceStep == IInv /\ AddEvidence => IInv'
<1> SUFFICES ASSUME IInv, AddEvidence PROVE IInv'
  OBVIOUS
<1>1. PICK c \in job.calls : CiteFor(c, job) BY DEF AddEvidence
<1>2. /\ c \in Refutals /\ c \in Call /\ c.id \in Ids /\ Justified(c)
      /\ c.gate # "auto_corroborate"
      /\ c.gate # "llm_consolidate" => Active(c.id)
  BY DEF IInv, CallsInv, Justified, Refutals
<1>3. job \in JobType BY DEF IInv, TypeOK
<1>4. QED BY <1>1, <1>2, <1>3, CallBegins

\* A snapshot adds the active rows to those that are preserved.
LEMMA SnapshotStep ==
    ASSUME IInv, CreateSnapshot
    PROVE  /\ preserved \subseteq preserved' /\ preserved' \subseteq Nat /\ snapped' \in BOOLEAN
           /\ \A id \in Ids : Active(id) => id \in preserved'
BY IdsAreNat DEF IInv, TypeOK, CreateSnapshot

\* The passes of a curation begin over active rows that the run's snapshot has.
LEMMA CurationStep ==
    IInv /\ (StartCuration \/ RefuteDuplicates \/ RefuteDecayed \/ CurationReturns) => IInv'
<1> SUFFICES ASSUME IInv PROVE StartCuration \/ RefuteDuplicates \/ RefuteDecayed \/ CurationReturns
                              => IInv'
  OBVIOUS
<1>1. preserved \subseteq preserved /\ preserved \subseteq Nat /\ snapped \in BOOLEAN
  BY DEF IInv, TypeOK
<1>2. ASSUME StartCuration PROVE IInv'
  <2>1. StaleIds \in SUBSET Ids /\ \A id \in StaleIds : Active(id) BY DEF StaleIds
  <2>2. QED BY <1>2, <2>1, SnapshotStep, PassStarts DEF StartCuration
<1>3. ASSUME RefuteDuplicates PROVE IInv'
  <2>1. DuplicateIds \in SUBSET Ids /\ \A id \in DuplicateIds : Active(id) BY DEF DuplicateIds
  <2>2. \A id \in Ids : Active(id) => id \in preserved' BY <1>3 DEF IInv, PassInv, RefuteDuplicates
  <2>3. QED BY <1>1, <1>3, <2>1, <2>2, PassStarts DEF RefuteDuplicates
<1>4. ASSUME RefuteDecayed PROVE IInv'
  <2>1. DecayedIds \in SUBSET Ids /\ \A id \in DecayedIds : Active(id) BY DEF DecayedIds
  <2>2. \A id \in Ids : Active(id) => id \in preserved' BY <1>4 DEF IInv, PassInv, RefuteDecayed
  <2>3. QED BY <1>1, <1>4, <2>1, <2>2, PassStarts DEF RefuteDecayed
<1>5. ASSUME CurationReturns PROVE IInv'
  BY <1>5, JobEnds DEF CurationReturns, IInv, TypeOK
<1>6. QED BY <1>2, <1>3, <1>4, <1>5

\* A consolidation that begins awaits the LLM with rows that its snapshot has.
LEMMA StartConsolidationStep == IInv /\ StartConsolidation => IInv'
<1> SUFFICES ASSUME IInv, StartConsolidation PROVE IInv'
  OBVIOUS
<1>1. /\ preserved \subseteq preserved' /\ preserved' \subseteq Nat /\ snapped' \in BOOLEAN
      /\ \A id \in Ids : Active(id) => id \in preserved'
  BY SnapshotStep DEF StartConsolidation
<1>2. PICK b \in Batches : awaiting' = Append(awaiting, b) BY DEF StartConsolidation
<1>3. Ids' = Ids /\ Kept \subseteq Kept' BY <1>1, TablesUnchanged DEF StartConsolidation
<1>4. b \in SUBSET Kept'
  BY <1>1, <1>3 DEF Batches, Candidates, Active, Kept
<1>5. awaiting' \in Seq(SUBSET Kept')
  <2>1. awaiting \in Seq(SUBSET Kept') BY <1>3, BatchesWiden DEF IInv, AwaitInv
  <2>2. QED BY <1>2, <1>4, <2>1, AppendProperties
<1>6. QED BY <1>1, <1>5, JobUnchanged DEF StartConsolidation, IInv, TypeOK

\* An answer of the LLM names rows of the batch, all of them in a snapshot.
LEMMA LlmStep ==
    ASSUME IInv, NEW n \in DOMAIN awaiting, LlmAnswers(n) \/ LlmFails(n)
    PROVE  IInv'
<1>1. /\ RemoveAt(awaiting, n) \in Seq(SUBSET Kept) /\ awaiting[n] \in SUBSET Kept
  BY RemoveOne, ElementOfSeq, LenProperties DEF IInv, AwaitInv
<1>2. CASE LlmFails(n)
  <2>1. Kept' = Kept BY <1>2 DEF LlmFails, tables, Kept, Ids
  <2>2. QED BY <1>1, <1>2, <2>1, JobUnchanged DEF LlmFails, IInv, TypeOK
<1>3. CASE LlmAnswers(n)
  <2> USE DEF IInv
  <2>1. UNCHANGED <<tables, preserved, snapped, clock, crashes>> /\ awaiting' = RemoveAt(awaiting, n)
    BY <1>3 DEF LlmAnswers
  <2>2. EvidenceBacked' /\ NoSelfConfirmation' /\ Ids' = Ids BY <2>1, TablesUnchanged
  <2>3. Kept' = Kept /\ Ids \subseteq Nat BY <2>1, <2>2, IdsAreNat DEF Kept
  <2>4. PICK p \in Plans(awaiting[n]) : job' = NextMerge(p) BY <1>3 DEF LlmAnswers
  <2>5. p \in Seq(SUBSET Kept')
    <3>1. PICK m \in 0 .. MaxMerges : p \in [1 .. m -> (SUBSET awaiting[n]) \ {{}}]
      BY <2>4 DEF Plans
    <3>2. m \in Nat BY MemoryAssumption
    <3>3. p \in [1 .. m -> SUBSET Kept'] BY <1>1, <2>3, <3>1
    <3>4. QED BY <3>2, <3>3, SeqDef
  <2>6. /\ job' \in JobType /\ job'.at = "evidence" /\ job'.merges \in Seq(SUBSET Kept')
        /\ CallsInv' /\ PassInv'
    BY <2>2, <2>3, <2>4, <2>5, MergeStarts
  <2>7. TypeOK'
    <3>1. awaiting' \in Seq(SUBSET Nat) BY <1>1, <2>1, <2>3, BatchesWiden DEF Kept
    <3>2. QED BY <2>1, <2>6, <3>1 DEF TypeOK, tables
  <2>8. AwaitInv' BY <1>1, <2>1, <2>3, <2>6 DEF AwaitInv
  <2>9. QED BY <2>2, <2>6, <2>7, <2>8, NothingBegun
<1>4. QED BY <1>2, <1>3

\* What callers and merges insert is unverified and has no evidence.
LEMMA InsertStep ==
    ASSUME IInv, InsertSummary \/ \E birth \in Births : Insert(birth)
    PROVE  IInv'
<1>1. CASE InsertSummary
  <2>1. PICK key \in SummaryKeys : AddRow([key |-> key, kind |-> "fact", prov |-> "consolidation"])
    BY <1>1 DEF InsertSummary
  <2> DEFINE birth == [key |-> key, kind |-> "fact", prov |-> "consolidation"]
  <2>2. birth \in [key : Keys, kind : Kinds, prov : Provenances]
    BY MemoryAssumption DEF Kinds, Provenances
  <2>3. AddRow(birth) BY <2>1
  <2> HIDE DEF birth
  <2>4. QED BY <1>1, <2>2, <2>3, RowAdded DEF InsertSummary
<1>2. CASE \E birth \in Births : Insert(birth)
  <2>1. PICK birth \in Births : Insert(birth) BY <1>2
  <2>2. birth \in [key : Keys, kind : Kinds, prov : Provenances] BY MemoryAssumption
  <2>3. QED BY <2>1, <2>2, RowAdded DEF Insert, Quiet
<1>3. QED BY <1>1, <1>2

\* An exception, the clock or a crash only ends the handler.
LEMMA WorldStep == IInv /\ (EvidenceLimit \/ Tick \/ Crash) => IInv'
<1> SUFFICES ASSUME IInv PROVE EvidenceLimit \/ Tick \/ Crash => IInv'
  OBVIOUS
<1>1. TypeOK BY DEF IInv
<1>2. ASSUME EvidenceLimit PROVE IInv' BY <1>1, <1>2, JobEnds DEF EvidenceLimit, TypeOK
<1>3. ASSUME Tick PROVE IInv'
  <2>1. awaiting' \in Seq(SUBSET Kept')
    BY <1>3 DEF Tick, IInv, AwaitInv, tables, Kept, Ids
  <2>2. UNCHANGED <<tables, job, preserved, crashes>> BY <1>3 DEF Tick
  <2>3. snapped' \in BOOLEAN /\ clock' \in Nat
    <3>1. snapped' \in BOOLEAN BY <1>3 DEF Tick
    <3>2. clock \in Nat /\ clock' = clock + 1 BY <1>1, <1>3 DEF Tick, TypeOK
    <3>3. QED BY <3>1, <3>2
  <2>4. QED BY <1>1, <2>1, <2>2, <2>3, JobUnchanged DEF TypeOK
<1>4. ASSUME Crash PROVE IInv' BY <1>1, <1>4, JobEnds DEF Crash, TypeOK
<1>5. QED BY <1>2, <1>3, <1>4

\* Every step preserves the invariant.
LEMMA IInvStep == IInv /\ [Next]_vars => IInv'
<1> SUFFICES ASSUME IInv, [Next]_vars PROVE IInv'
  OBVIOUS
<1>1. CASE \E birth \in Births : Insert(birth) BY <1>1, InsertStep
<1>2. CASE \E id \in Ids : \/ BumpUsage(id) \/ \E date \in StaleDates : MarkStale(id, date)
                          \/ TryAutoCorroborate(id) \/ VerifyByOwner(id) \/ OwnerCorroborate(id)
  BY <1>2, RowActionsStep
<1>3. CASE AddEvidence BY <1>3, AddEvidenceStep
<1>4. CASE UpdateStatus BY <1>4, UpdateStatusStep
<1>5. CASE RecordTransition BY <1>5, RecordTransitionStep
<1>6. CASE StartCuration \/ RefuteDuplicates \/ RefuteDecayed \/ CurationReturns
  BY <1>6, CurationStep
<1>7. CASE StartConsolidation BY <1>7, StartConsolidationStep
<1>8. CASE \E n \in DOMAIN awaiting : LlmAnswers(n) \/ LlmFails(n) BY <1>8, LlmStep
<1>9. CASE InsertSummary BY <1>9, InsertStep
<1>10. CASE RecordProposal BY <1>10, RecordProposalStep
<1>11. CASE EvidenceLimit \/ Tick \/ Crash BY <1>11, WorldStep
<1>12. CASE UNCHANGED vars
  <2>1. awaiting' \in Seq(SUBSET Kept')
    BY <1>12 DEF vars, IInv, AwaitInv, tables, Kept, Ids
  <2>2. QED BY <1>12, <2>1, JobUnchanged DEF vars, IInv, TypeOK
<1>13. QED
  BY <1>1, <1>2, <1>3, <1>4, <1>5, <1>6, <1>7, <1>8, <1>9, <1>10, <1>11, <1>12 DEF Next

\* The invariant holds in every reachable state.
LEMMA IInvAlways == Spec => []IInv
BY IInvInit, IInvStep, PTL DEF Spec

-----------------------------------------------------------------------------
(* The journal, and the duplicates that go.                                *)

\* Without a handler there is no call; the row has the status that is journalled next.
HandlerInv ==
    /\ Quiet => job.calls = {} /\ ~ Begun
    /\ job.at = "journal" => knowledge[job.call.id].status = job.call.to

\* The rows whose journal lags behind.
Lagging == {id \in Ids : knowledge[id].status # Journalled(id)}

\* The row whose entry the call under way is about to write.
Pending == IF job.at = "journal" THEN {job.call.id} ELSE {}

\* Every other row that lags was left behind by a crash.
LagInv == HandlerInv /\ Cardinality(Lagging \ Pending) <= crashes

\* The rows the handler refutes or is about to.
Doomed == {c.id : c \in job.calls} \cup (IF Begun THEN {job.call.id} ELSE {})

SameKey(i, j) == knowledge[i].key = knowledge[j].key

\* A duplicate goes while a later one stays; of two active rows that are equal the
\* earlier goes; nothing after the pass makes them more.
DedupInv ==
    /\ job.run = "dedup" =>
        /\ job.call # Null => Begun
        /\ \A i \in Doomed : \E keep \in Ids \ Doomed : keep > i /\ Active(keep) /\ SameKey(keep, i)
        /\ \A i, j \in Ids : Active(i) /\ Active(j) /\ SameKey(i, j) /\ i < j => i \in Doomed
    /\ job.run = "decay" =>
        \A i, j \in Ids : Active(i) /\ Active(j) /\ SameKey(i, j) => i = j

\* The rows are those of the sequences, and finitely many.
LEMMA LaggingFinite ==
    ASSUME TypeOK
    PROVE  IsFiniteSet(Ids) /\ IsFiniteSet(Lagging \ Pending)
<1>1. Ids = 1 .. Len(knowledge) /\ Len(knowledge) \in Nat BY LenProperties DEF TypeOK, Ids
<1>2. IsFiniteSet(Ids) BY <1>1, FS_Interval
<1>3. Lagging \ Pending \in SUBSET Ids BY DEF Lagging
<1>4. QED BY <1>2, <1>3, FS_Subset

\* Unless the process dies, no further row is left behind.
LEMMA NoneLeftBehind ==
    ASSUME IInv, LagInv, HandlerInv', crashes' = crashes,
           Lagging' \ Pending' \subseteq Lagging \ Pending
    PROVE  LagInv'
<1> DEFINE S == Lagging \ Pending
           T == Lagging' \ Pending'
<1>1. IsFiniteSet(S) /\ T \in SUBSET S BY LaggingFinite DEF IInv
<1>2. Cardinality(S) \in Nat /\ Cardinality(T) \in Nat /\ Cardinality(T) <= Cardinality(S)
  BY <1>1, FS_Subset, FS_CardinalityType
<1>3. Cardinality(S) <= crashes /\ crashes \in Nat BY DEF LagInv, IInv, TypeOK
<1>4. Cardinality(T) <= crashes' BY <1>2, <1>3
<1>5. QED BY <1>4 DEF LagInv

\* No status and no entry changes, and no call is at its last statement.
LEMMA JournalUntouched ==
    ASSUME IInv, LagInv, UNCHANGED <<journal, crashes>>, Ids' = Ids,
           \A id \in Ids : knowledge'[id].status = knowledge[id].status,
           job' = job \/ (job.at # "journal" /\ HandlerInv')
    PROVE  LagInv'
<1>1. Lagging' = Lagging BY DEF Lagging, Journalled
<1>2. Pending \subseteq Pending' BY DEF Pending
<1>3. HandlerInv'
  <2>1. job.at = "journal" => job.call.id \in Ids BY DEF IInv, BegunInv, Begun
  <2>2. QED BY <2>1 DEF LagInv, HandlerInv, Quiet, Begun
<1>4. QED BY <1>1, <1>2, <1>3, NoneLeftBehind

\* A handler that ends or begins has nothing under way.
LEMMA QuietSteps ==
    ASSUME NEW merges
    PROVE  /\ job' = Idle => HandlerInv'
           /\ job' = NextMerge(merges) => HandlerInv' /\ job'.run \in {"none", "merge"}
<1>1. job' = Idle => HandlerInv' BY DEF HandlerInv, Quiet, Begun, Idle
<1>2. job' = NextMerge(merges) => HandlerInv' /\ job'.run \in {"none", "merge"}
  BY <1>1 DEF NextMerge, Start, Idle, HandlerInv, Quiet
<1>3. QED BY <1>1, <1>2

\* A row with its first status and without an entry does not lag.
LEMMA AddedInStep ==
    ASSUME IInv, LagInv, NEW birth, AddRow(birth), UNCHANGED crashes,
           job' = job \/ (job.at # "journal" /\ HandlerInv')
    PROVE  LagInv'
<1> DEFINE row == [key |-> birth.key, kind |-> birth.kind, prov |-> birth.prov,
                   status |-> "unverified", uses |-> 0, created |-> clock, staleAfter |-> Null]
           new == Len(knowledge) + 1
<1>1. /\ knowledge \in Seq({knowledge[i] : i \in Ids} \cup {row})
      /\ journal \in Seq({journal[i] : i \in Ids} \cup {Null})
      /\ Len(journal) = Len(knowledge) /\ DOMAIN journal = Ids
  <2>1. /\ Len(knowledge) \in Nat /\ Ids = 1 .. Len(knowledge) /\ DOMAIN journal = Ids
        /\ Len(journal) = Len(knowledge)
    BY LenProperties DEF IInv, TypeOK, Ids
  <2>2. /\ knowledge = [i \in 1 .. Len(knowledge) |-> knowledge[i]]
        /\ journal = [i \in 1 .. Len(knowledge) |-> journal[i]]
    BY <2>1, LenProperties DEF IInv, TypeOK
  <2>3. QED BY <2>1, <2>2, IsASeq
<1> HIDE DEF row
<1>2. /\ Ids' = Ids \cup {new} /\ \A i \in Ids : knowledge'[i] = knowledge[i]
      /\ knowledge'[new] = row
  BY <1>1, AppendOne DEF AddRow, Ids, row
<1>3. (\A i \in Ids : journal'[i] = journal[i]) /\ journal'[new] = Null
  BY <1>1, AppendOne DEF AddRow
<1>4. Lagging' \subseteq Lagging BY <1>2, <1>3 DEF Lagging, Journalled, row
<1>5. Pending \subseteq Pending' BY DEF Pending
<1>6. HandlerInv'
  <2>1. job.at = "journal" => job.call.id \in Ids BY DEF IInv, BegunInv, Begun
  <2>2. QED BY <1>2, <2>1 DEF LagInv, HandlerInv, Quiet, Begun
<1>7. QED BY <1>4, <1>5, <1>6, NoneLeftBehind

\* The UPDATE makes the row of the call lag, which its INSERT then ends.
LEMMA PromoteInStep ==
    ASSUME IInv, LagInv, UpdateStatus \/ RecordTransition
    PROVE  LagInv'
<1> DEFINE id == job.call.id
<1>1. Begun /\ id \in Ids BY DEF UpdateStatus, RecordTransition, Begun, IInv, BegunInv
<1>2. ~ Quiet BY <1>1 DEF LagInv, HandlerInv
<1>3. CASE UpdateStatus
  <2>1. /\ job'.at = "journal" /\ job'.call = job.call /\ job'.run = job.run
        /\ job'.calls = job.calls /\ UNCHANGED <<journal, crashes>>
    BY <1>3 DEF UpdateStatus, IInv, TypeOK, JobType
  <2>2. Ids' = Ids /\ \A i \in Ids : i # id => knowledge'[i] = knowledge[i]
    BY <1>3 DEF UpdateStatus, Ids
  <2>3. HandlerInv'
    <3>1. knowledge[id] \in Row BY <1>1, ElementOfSeq, LenProperties DEF IInv, TypeOK, Ids
    <3>2. knowledge'[id].status = job.call.to BY <1>1, <1>3, <3>1 DEF UpdateStatus, Ids, Row
    <3>3. QED BY <1>2, <2>1, <3>2 DEF HandlerInv, Quiet
  <2>4. Pending' = {id} /\ Pending = {} BY <1>3, <2>1 DEF Pending, UpdateStatus
  <2>5. Lagging' \ {id} \subseteq Lagging BY <2>1, <2>2 DEF Lagging, Journalled
  <2>6. QED BY <2>1, <2>3, <2>4, <2>5, NoneLeftBehind
<1>4. CASE RecordTransition
  <2>1. /\ job'.at = "evidence" /\ UNCHANGED <<knowledge, crashes>>
        /\ job' = Idle \/ job'.run = job.run
    BY <1>4 DEF RecordTransition, Idle, IInv, TypeOK, JobType
  <2>2. HandlerInv' BY <1>2, <2>1, QuietSteps DEF HandlerInv, Quiet
  <2>3. DOMAIN journal = Ids BY LenProperties DEF IInv, TypeOK, Ids
  <2>4. \A i \in Ids : i # id => journal'[i] = journal[i] BY <1>4, <2>3 DEF RecordTransition
  <2>5. Ids' = Ids BY <2>1 DEF Ids
  <2>6. Pending = {id} BY <1>4 DEF Pending, RecordTransition
  <2>7. id \notin Lagging'
    <3>1. TransitionsLegal /\ job.call \in Call
      BY <1>1, <1>4 DEF IInv, BegunInv, RecordTransition
    <3>2. journal'[id] = job.call.to BY <1>1, <1>4, <2>3 DEF RecordTransition
    <3>3. knowledge[id].status = job.call.to BY <1>4 DEF HandlerInv, RecordTransition, LagInv
    <3>4. QED BY <2>1, <3>1, <3>2, <3>3, MemoryAssumption DEF Lagging, Journalled, Call
  <2>8. Lagging' \subseteq Lagging \ {id} BY <2>1, <2>4, <2>5, <2>7 DEF Lagging, Journalled
  <2>9. QED BY <2>1, <2>2, <2>6, <2>8, NoneLeftBehind
<1>5. QED BY <1>3, <1>4

\* A crash leaves at most the row of the call under way behind.
LEMMA CrashLags == IInv /\ LagInv /\ Crash => LagInv'
<1> SUFFICES ASSUME IInv, LagInv, Crash PROVE LagInv'
  OBVIOUS
<1> DEFINE S == Lagging \ Pending
           T == Lagging' \ Pending'
<1>1. job' = Idle /\ crashes' = crashes + 1 /\ UNCHANGED tables BY DEF Crash
<1>2. Lagging' = Lagging BY <1>1 DEF tables, Lagging, Journalled, Ids
<1>3. T \in SUBSET (S \cup {job.call.id}) BY <1>2 DEF Pending
<1>4. /\ IsFiniteSet(S) /\ IsFiniteSet(S \cup {job.call.id})
      /\ Cardinality(S) \in Nat
      /\ Cardinality(S \cup {job.call.id}) \in {Cardinality(S), Cardinality(S) + 1}
  <2>1. IsFiniteSet(S) BY LaggingFinite DEF IInv
  <2>2. QED BY <2>1, FS_AddElement, FS_CardinalityType
<1>5. Cardinality(T) \in Nat /\ Cardinality(T) <= Cardinality(S \cup {job.call.id})
  BY <1>3, <1>4, FS_Subset, FS_CardinalityType
<1>6. Cardinality(S) <= crashes /\ crashes \in Nat BY DEF LagInv, IInv, TypeOK
<1>7. Cardinality(T) <= crashes' BY <1>1, <1>4, <1>5, <1>6
<1>8. HandlerInv' BY <1>1, QuietSteps
<1>9. QED BY <1>7, <1>8 DEF LagInv

\* What callers do to a row changes neither its status nor its entry.
LEMMA RowActionsLag ==
    ASSUME IInv, LagInv, NEW id \in Ids,
           \/ BumpUsage(id) \/ \E date \in StaleDates : MarkStale(id, date)
           \/ TryAutoCorroborate(id) \/ VerifyByOwner(id) \/ OwnerCorroborate(id)
    PROVE  LagInv'
<1>1. Quiet => job.at # "journal" BY DEF LagInv, HandlerInv, Begun
<1>2. ASSUME NEW c, Command(c) PROVE LagInv'
  <2>1. /\ UNCHANGED <<knowledge, journal, crashes>> /\ job.at # "journal"
        /\ job'.run = "command" /\ job'.at = "status"
    BY <1>1, <1>2 DEF Command, CiteFor, Start, Idle
  <2>2. HandlerInv' BY <2>1 DEF HandlerInv, Quiet
  <2>3. QED BY <2>1, <2>2, JournalUntouched DEF Ids
<1>3. CASE TryAutoCorroborate(id) \/ VerifyByOwner(id) \/ OwnerCorroborate(id)
  BY <1>2, <1>3 DEF TryAutoCorroborate, VerifyByOwner, OwnerCorroborate
<1>4. CASE BumpUsage(id) \/ \E date \in StaleDates : MarkStale(id, date)
  <2>1. /\ UNCHANGED <<journal, crashes, job>> /\ Ids' = Ids
        /\ \A i \in Ids : knowledge'[i].status = knowledge[i].status
    <3>1. \A i \in Ids : knowledge[i] \in Row
      BY ElementOfSeq, LenProperties DEF IInv, TypeOK, Ids
    <3>2. QED BY <1>4, <3>1 DEF BumpUsage, MarkStale, Ids, Row
  <2>2. QED BY <2>1, JournalUntouched
<1>5. QED BY <1>3, <1>4

\* The passes, the runs and their calls change no status but by UpdateStatus.
LEMMA RunsLag ==
    ASSUME IInv, LagInv,
           \/ AddEvidence \/ EvidenceLimit \/ RecordProposal
           \/ StartCuration \/ RefuteDuplicates \/ RefuteDecayed \/ CurationReturns
           \/ StartConsolidation \/ Tick
           \/ \E n \in DOMAIN awaiting : LlmAnswers(n) \/ LlmFails(n)
    PROVE  LagInv'
<1>1. Quiet => job.at # "journal" BY DEF LagInv, HandlerInv, Begun
<1>2. ASSUME UNCHANGED <<knowledge, journal, crashes>>,
             job' = job \/ (job.at # "journal" /\ HandlerInv')
      PROVE  LagInv'
  BY <1>2, JournalUntouched DEF Ids
<1>3. CASE AddEvidence
  <2>1. PICK c \in job.calls : CiteFor(c, job) BY <1>3 DEF AddEvidence
  <2>2. /\ UNCHANGED <<knowledge, journal, crashes>> /\ job.at = "evidence" /\ ~ Quiet
        /\ job'.run = job.run /\ job'.at = "status"
    BY <1>3, <2>1 DEF AddEvidence, CiteFor, LagInv, HandlerInv, IInv, TypeOK, JobType
  <2>3. HandlerInv' BY <2>2 DEF HandlerInv, Quiet
  <2>4. QED BY <1>2, <2>2, <2>3
<1>4. CASE EvidenceLimit \/ CurationReturns
  <2>1. /\ UNCHANGED <<knowledge, journal, crashes>> /\ job.at # "journal" /\ job' = Idle
    BY <1>4 DEF EvidenceLimit, CurationReturns, CallsDone, tables
  <2>2. QED BY <1>2, <2>1, QuietSteps
<1>5. CASE RecordProposal \/ \E n \in DOMAIN awaiting : LlmAnswers(n)
  <2>1. /\ UNCHANGED <<knowledge, journal, crashes>> /\ job.at # "journal"
        /\ \E merges : job' = NextMerge(merges)
    BY <1>1, <1>5 DEF RecordProposal, LlmAnswers, tables
  <2>2. QED BY <1>2, <2>1, QuietSteps
<1>6. CASE StartCuration \/ RefuteDuplicates \/ RefuteDecayed
  <2>1. /\ UNCHANGED <<knowledge, journal, crashes>> /\ job.at # "journal"
        /\ job'.run # "none" /\ job'.at = "evidence"
    BY <1>1, <1>6
       DEF StartCuration, RefuteDuplicates, RefuteDecayed, CallsDone, tables, Start, Idle
  <2>2. HandlerInv' BY <2>1 DEF HandlerInv, Quiet
  <2>3. QED BY <1>2, <2>1, <2>2
<1>7. CASE StartConsolidation \/ Tick \/ \E n \in DOMAIN awaiting : LlmFails(n)
  <2>1. UNCHANGED <<knowledge, journal, crashes, job>>
    BY <1>7 DEF StartConsolidation, Tick, LlmFails, tables
  <2>2. QED BY <1>2, <2>1
<1>8. QED BY <1>3, <1>4, <1>5, <1>6, <1>7

\* Every step keeps the journal within the crashes.
LEMMA LagStep == IInv /\ LagInv /\ [Next]_vars => LagInv'
<1> SUFFICES ASSUME IInv, LagInv, [Next]_vars PROVE LagInv'
  OBVIOUS
<1>1. CASE \E birth \in Births : Insert(birth)
  <2>1. PICK birth \in Births : Insert(birth) BY <1>1
  <2>2. QED BY <2>1, AddedInStep DEF Insert
<1>2. CASE InsertSummary
  <2>1. PICK birth : AddRow(birth) BY <1>2 DEF InsertSummary
  <2>2. /\ job.at = "evidence" /\ job'.at = "proposal" /\ job'.run = "merge"
        /\ UNCHANGED crashes
    BY <1>2 DEF InsertSummary, CallsDone, IInv, TypeOK, JobType
  <2>3. HandlerInv' BY <2>2 DEF HandlerInv, Quiet
  <2>4. QED BY <2>1, <2>2, <2>3, AddedInStep
<1>3. CASE \E id \in Ids : \/ BumpUsage(id) \/ \E date \in StaleDates : MarkStale(id, date)
                          \/ TryAutoCorroborate(id) \/ VerifyByOwner(id) \/ OwnerCorroborate(id)
  BY <1>3, RowActionsLag
<1>4. CASE UpdateStatus \/ RecordTransition BY <1>4, PromoteInStep
<1>5. CASE Crash BY <1>5, CrashLags
<1>6. CASE \/ AddEvidence \/ EvidenceLimit \/ RecordProposal
           \/ StartCuration \/ RefuteDuplicates \/ RefuteDecayed \/ CurationReturns
           \/ StartConsolidation \/ Tick
           \/ \E n \in DOMAIN awaiting : LlmAnswers(n) \/ LlmFails(n)
  BY <1>6, RunsLag
<1>7. CASE UNCHANGED vars
  BY <1>7, JournalUntouched DEF vars, tables, Ids
<1>8. QED BY <1>1, <1>2, <1>3, <1>4, <1>5, <1>6, <1>7 DEF Next

\* At the start there is no row.
LEMMA LagInit == Init => LagInv
<1> SUFFICES ASSUME Init PROVE LagInv
  OBVIOUS
<1>1. Lagging \ Pending = {} BY DEF Init, Lagging, Ids
<1>2. Cardinality(Lagging \ Pending) = 0 BY <1>1, FS_EmptySet
<1>3. QED BY <1>2 DEF Init, Idle, LagInv, HandlerInv, Quiet, Begun

\* A set of row ids has a greatest one: the distances from the end have a least one.
LEMMA LastOf ==
    ASSUME TypeOK, NEW S \in SUBSET Ids, S # {}
    PROVE  \E last \in S : \A i \in S : i <= last
<1>1. Ids = 1 .. Len(knowledge) /\ Len(knowledge) \in Nat BY LenProperties DEF TypeOK, Ids
<1> DEFINE T == {Len(knowledge) - i : i \in S}
<1>2. T \subseteq Nat /\ T # {}
  <2>1. \A i \in S : Len(knowledge) - i \in Nat BY <1>1
  <2>2. QED BY <2>1
<1>3. PICK d \in T : \A e \in T : ~ (<<e, d>> \in OpToRel(<, Nat))
  BY <1>2, NatLessThanWellFounded, WFMin
<1>4. \A e \in T : d <= e
  <2>1. \A e \in T : ~ (e < d) BY <1>2, <1>3, Zenon DEF OpToRel
  <2> HIDE DEF T
  <2>2. QED BY <1>2, <2>1
<1>5. PICK last \in S : d = Len(knowledge) - last OBVIOUS
<1>6. ASSUME NEW i \in S PROVE i <= last
  <2>1. Len(knowledge) - i \in T OBVIOUS
  <2>2. d <= Len(knowledge) - i BY <1>4, <2>1
  <2>3. i \in Int /\ last \in Int BY <1>1
  <2>4. QED BY <1>1, <1>5, <2>2, <2>3
<1>7. QED BY <1>6

\* The dedup pass takes every active row but the last one of each group.
LEMMA DedupBegins == IInv /\ RefuteDuplicates => DedupInv'
<1> SUFFICES ASSUME IInv, RefuteDuplicates PROVE DedupInv'
  OBVIOUS
<1>1. UNCHANGED knowledge BY DEF RefuteDuplicates, tables
<1>2. /\ job'.run = "dedup" /\ job'.at = "evidence" /\ job'.call = Null
      /\ job'.calls = {Refute(id, "refutation") : id \in DuplicateIds}
  BY DEF RefuteDuplicates, Start, Idle
<1>3. Ids' = Ids /\ (\A i \in Ids : Active(i)' <=> Active(i))
      /\ (\A i, j \in Ids : SameKey(i, j)' <=> SameKey(i, j))
  BY <1>1 DEF Ids, Active, SameKey
<1>4. Doomed' = DuplicateIds
  <2>1. \A id : Refute(id, "refutation").id = id BY DEF Refute
  <2>2. {c.id : c \in job'.calls} = DuplicateIds BY <1>2, <2>1
  <2>3. QED BY <1>2, <2>2 DEF Doomed, Begun
<1>5. ASSUME NEW i \in DuplicateIds
      PROVE  \E keep \in Ids \ DuplicateIds : keep > i /\ Active(keep) /\ SameKey(keep, i)
  <2> DEFINE S == {k \in Ids : k > i /\ Active(k) /\ SameKey(k, i)}
  <2>1. S # {} BY DEF DuplicateIds, SameKey
  <2>2. PICK last \in S : \A k \in S : k <= last BY <2>1, LastOf DEF IInv
  <2>3. i \in Ids /\ Ids \subseteq Nat BY IdsAreNat DEF IInv, DuplicateIds
  <2>4. ASSUME NEW k \in Ids, k > last, Active(k), SameKey(k, last) PROVE FALSE
    <3>1. k > i BY <2>3, <2>4
    <3>2. SameKey(k, i) BY <2>4 DEF SameKey
    <3>3. k <= last BY <2>2, <2>4, <3>1, <3>2
    <3>4. QED BY <2>3, <2>4, <3>3
  <2>5. last \notin DuplicateIds BY <2>4 DEF DuplicateIds, SameKey
  <2>6. QED BY <2>2, <2>5
<1>6. ASSUME NEW i \in Ids, NEW j \in Ids, Active(i), Active(j), SameKey(i, j), i < j
      PROVE  i \in DuplicateIds
  <2>1. j > i BY <1>6, IdsAreNat DEF IInv
  <2>2. QED BY <1>6, <2>1 DEF DuplicateIds, SameKey
<1>7. DuplicateIds \subseteq Ids BY DEF DuplicateIds
<1>8. QED BY <1>2, <1>3, <1>4, <1>5, <1>6, <1>7 DEF DedupInv

\* When it has made its calls no two active rows are equal.
LEMMA DedupEnds == IInv /\ DedupInv /\ RefuteDecayed => DedupInv'
<1> SUFFICES ASSUME IInv, DedupInv, RefuteDecayed PROVE DedupInv'
  OBVIOUS
<1>1. /\ job.run = "dedup" /\ Doomed = {} /\ job'.run = "decay" /\ UNCHANGED knowledge
  BY DEF RefuteDecayed, CallsDone, Doomed, Begun, tables, Start, Idle
<1>2. ASSUME NEW i \in Ids, NEW j \in Ids, Active(i), Active(j), SameKey(i, j) PROVE i = j
  <2>1. ~ (i < j) /\ ~ (j < i) BY <1>1, <1>2 DEF DedupInv, SameKey
  <2>2. QED BY <2>1, IdsAreNat DEF IInv
<1>3. QED BY <1>1, <1>2 DEF DedupInv, Ids, Active, SameKey

\* What the handler refutes are rows of the table.
LEMMA DoomedAreIds == ASSUME IInv PROVE Doomed \subseteq Ids
BY DEF IInv, CallsInv, BegunInv, Doomed

\* A call of a pass refutes the row that it takes off the list, and nothing else.
LEMMA DedupGoesOn ==
    IInv /\ LagInv /\ DedupInv /\ (AddEvidence \/ UpdateStatus \/ RecordTransition) => DedupInv'
<1> SUFFICES ASSUME IInv, LagInv, DedupInv, AddEvidence \/ UpdateStatus \/ RecordTransition
             PROVE  DedupInv'
  OBVIOUS
<1>0. job'.run \in {job.run, "none"}
  <2>1. job \in JobType BY DEF IInv, TypeOK
  <2>2. AddEvidence => job'.run = job.run BY <2>1 DEF AddEvidence, CiteFor, JobType
  <2>3. UpdateStatus => job'.run = job.run BY <2>1 DEF UpdateStatus, JobType
  <2>4. RecordTransition => job'.run \in {job.run, "none"}
    BY <2>1 DEF RecordTransition, Idle, JobType
  <2>5. QED BY <2>2, <2>3, <2>4
<1> SUFFICES ASSUME job.run \in {"dedup", "decay"} PROVE DedupInv'
  BY <1>0 DEF DedupInv
<1>1. CASE AddEvidence
  <2>1. PICK c \in job.calls : CiteFor(c, job) BY <1>1 DEF AddEvidence
  <2>2. /\ UNCHANGED knowledge /\ job'.run = job.run /\ job'.at = "status" /\ job'.call = c
        /\ job'.calls = job.calls \ {c} /\ job.at = "evidence"
    BY <1>1, <2>1 DEF AddEvidence, CiteFor, IInv, TypeOK, JobType
  <2>3. Doomed' = Doomed BY <2>2 DEF Doomed, Begun
  <2>4. Begun' BY <2>2 DEF Begun
  <2>5. QED BY <2>2, <2>3, <2>4 DEF DedupInv, Ids, Active, SameKey
<1>2. CASE UpdateStatus
  <2> DEFINE id == job.call.id
  <2>1. /\ Begun /\ id \in Ids /\ job.call \in Refutals
    BY <1>2 DEF UpdateStatus, Begun, IInv, BegunInv
  <2>2. /\ job'.run = job.run /\ job'.at = "journal" /\ job'.call = job.call
        /\ job'.calls = job.calls
    BY <1>2 DEF UpdateStatus, IInv, TypeOK, JobType
  <2>3. Doomed' = Doomed /\ Begun' /\ id \in Doomed BY <2>1, <2>2 DEF Doomed, Begun
  <2>4. /\ Ids' = Ids /\ \A i \in Ids : knowledge'[i].key = knowledge[i].key
        /\ \A i \in Ids : i # id => knowledge'[i] = knowledge[i]
        /\ knowledge'[id].status = "refuted"
    <3>1. \A i \in Ids : knowledge[i] \in Row
      BY ElementOfSeq, LenProperties DEF IInv, TypeOK, Ids
    <3>2. QED BY <1>2, <2>1, <3>1 DEF UpdateStatus, Ids, Row, Refutals
  <2>5. /\ \A i, j \in Ids : SameKey(i, j)' <=> SameKey(i, j)
        /\ \A i \in Ids : i # id => (Active(i)' <=> Active(i))
        /\ ~ Active(id)'
    <3>1. \A i, j \in Ids : SameKey(i, j)' <=> SameKey(i, j) BY <2>4 DEF SameKey
    <3>2. \A i \in Ids : i # id => (Active(i)' <=> Active(i)) BY <2>4 DEF Active
    <3>3. id' = id BY <2>2
    <3>4. ~ Active(id)' BY <2>4, <3>3 DEF Active
    <3>5. QED BY <3>1, <3>2, <3>4
  <2>6. QED BY <2>2, <2>3, <2>4, <2>5, DoomedAreIds DEF DedupInv
<1>3. CASE RecordTransition
  <2> DEFINE id == job.call.id
  <2>1. /\ Begun /\ id \in Ids /\ job.call \in Refutals /\ \A c \in job.calls : c.id # id
    BY <1>3 DEF RecordTransition, Begun, IInv, BegunInv
  <2>2. /\ UNCHANGED knowledge /\ job'.run = job.run /\ job'.at = "evidence"
        /\ job'.call = Null /\ job'.calls = job.calls
    BY <1>3 DEF RecordTransition, IInv, TypeOK, JobType
  <2>3. Doomed' = Doomed \ {id} BY <2>1, <2>2 DEF Doomed, Begun
  <2>4. ~ Active(id) BY <1>3, <2>1 DEF LagInv, HandlerInv, RecordTransition, Active, Refutals
  <2>5. QED BY <2>2, <2>3, <2>4 DEF DedupInv, Ids, Active, SameKey
<1>4. QED BY <1>1, <1>2, <1>3

\* Every step keeps one row of each group.
LEMMA DedupStep == IInv /\ LagInv /\ DedupInv /\ [Next]_vars => DedupInv'
<1> SUFFICES ASSUME IInv, LagInv, DedupInv, [Next]_vars PROVE DedupInv'
  OBVIOUS
<1>1. ASSUME job'.run \notin {"dedup", "decay"} PROVE DedupInv' BY <1>1 DEF DedupInv
<1>2. CASE Quiet
  <2>1. ASSUME NEW c, Command(c) PROVE job'.run = "command"
    BY <2>1 DEF Command, CiteFor, Start, Idle
  <2>2. ASSUME NEW n, LlmAnswers(n) PROVE job'.run \in {"none", "merge"}
    BY <2>2, QuietSteps DEF LlmAnswers
  <2>3. job.run = "none" /\ job.calls = {} /\ ~ Begun
    BY <1>2 DEF LagInv, HandlerInv, Quiet
  <2>4. ASSUME job' = job \/ job' = Idle PROVE job'.run \notin {"dedup", "decay"}
    BY <2>3, <2>4 DEF Idle
  <2>5. StartCuration => job'.run = "stale" BY DEF StartCuration, Start, Idle
  <2>6. ~ (AddEvidence \/ UpdateStatus \/ RecordTransition)
    BY <2>3 DEF AddEvidence, UpdateStatus, RecordTransition, Begun
  <2>7. ~ (RefuteDuplicates \/ RefuteDecayed \/ InsertSummary)
    BY <2>3 DEF RefuteDuplicates, RefuteDecayed, InsertSummary
  <2>8. RecordProposal => job'.run \in {"none", "merge"} BY QuietSteps DEF RecordProposal
  <2>9. \/ \E birth \in Births : Insert(birth)
        \/ \E id \in Ids : BumpUsage(id) \/ \E date \in StaleDates : MarkStale(id, date)
        \/ EvidenceLimit \/ CurationReturns \/ StartConsolidation \/ Tick \/ Crash
        \/ \E n \in DOMAIN awaiting : LlmFails(n)
        \/ UNCHANGED vars
        => job' = job \/ job' = Idle
    BY DEF Insert, BumpUsage, MarkStale, EvidenceLimit, CurationReturns, StartConsolidation,
           Tick, Crash, LlmFails, vars
  <2>10. (\E id \in Ids : TryAutoCorroborate(id) \/ VerifyByOwner(id) \/ OwnerCorroborate(id))
         => job'.run = "command"
    BY <2>1 DEF TryAutoCorroborate, VerifyByOwner, OwnerCorroborate
  <2>11. job'.run \notin {"dedup", "decay"}
    BY <2>2, <2>4, <2>5, <2>6, <2>7, <2>8, <2>9, <2>10 DEF Next
  <2>12. QED BY <1>1, <2>11
<1>3. CASE AddEvidence \/ UpdateStatus \/ RecordTransition BY <1>3, DedupGoesOn
<1>4. CASE RefuteDuplicates BY <1>4, DedupBegins
<1>5. CASE RefuteDecayed BY <1>5, DedupEnds
<1>6. CASE EvidenceLimit \/ CurationReturns \/ Crash
  <2>1. job'.run = "none" BY <1>6 DEF EvidenceLimit, CurationReturns, Crash, Idle
  <2>2. QED BY <1>1, <2>1
<1>7. CASE InsertSummary
  <2>1. job'.run = "merge" BY <1>7 DEF InsertSummary, IInv, TypeOK, JobType
  <2>2. QED BY <1>1, <2>1
<1>8. CASE RecordProposal
  <2>1. job'.run \in {"none", "merge"} BY <1>8, QuietSteps DEF RecordProposal
  <2>2. QED BY <1>1, <2>1
<1>9. CASE Tick \/ UNCHANGED vars
  <2>1. UNCHANGED <<knowledge, job>> BY <1>9 DEF Tick, tables, vars
  <2>2. QED BY <2>1 DEF DedupInv, Doomed, Begun, Ids, Active, SameKey
<1>10. QED
  BY <1>2, <1>3, <1>4, <1>5, <1>6, <1>7, <1>8, <1>9
     DEF Next, Insert, BumpUsage, MarkStale, TryAutoCorroborate, VerifyByOwner, OwnerCorroborate,
         Command, StartCuration, StartConsolidation, LlmAnswers, LlmFails

\* The journal's and the duplicates' invariants hold in every reachable state.
LEMMA CountedAlways == Spec => [](LagInv /\ DedupInv)
<1>1. Init => IInv /\ LagInv /\ DedupInv
  BY IInvInit, LagInit DEF Init, Idle, DedupInv
<1>2. IInv /\ LagInv /\ DedupInv /\ [Next]_vars => (IInv /\ LagInv /\ DedupInv)'
  BY IInvStep, LagStep, DedupStep
<1>3. QED BY <1>1, <1>2, PTL DEF Spec

-----------------------------------------------------------------------------
(* What follows of it.                                                     *)

\* Whatever the handlers, runs and crashes, every variable keeps its type and the
\* evidence and the journal cover exactly the rows of the knowledge table.
THEOREM TypeCorrect == Spec => []TypeOK
<1>1. IInv => TypeOK BY DEF IInv
<1>2. QED BY <1>1, IInvAlways, PTL

\* promote writes its three statements in an order that never leaves a status
\* nothing backs, wherever the process dies.
THEOREM StatusIsBacked == Spec => []EvidenceBacked
<1>1. IInv => EvidenceBacked BY DEF IInv
<1>2. QED BY <1>1, IInvAlways, PTL

\* Knowledge from quarantine, background work or a merge is never injected into a
\* prompt without an act of the owner.
THEOREM OnlyTheOwnerConfirms == Spec => []NoSelfConfirmation
<1>1. IInv => NoSelfConfirmation BY DEF IInv
<1>2. QED BY <1>1, IInvAlways, PTL

\* The three passes of a curation run never act on a row another pass refuted, and
\* the verifier lifts unverified rows only.
THEOREM GatesAreKept == Spec => []TransitionsLegal
<1>1. IInv => TransitionsLegal BY DEF IInv
<1>2. QED BY <1>1, IInvAlways, PTL

\* A snapshot older than the refutation has every row that a run refutes.
THEOREM RefutedIsPreserved == Spec => []RefutedRecoverable
<1>1. IInv => RefutedRecoverable BY DEF IInv
<1>2. QED BY <1>1, IInvAlways, PTL
\* promote writes status and journal one after the other: every row whose journal does
\* not tell its status was left so by a crash, or is being promoted right now.
THEOREM JournalIsBehindByCrashes == Spec => []JournalLag
<1>1. IInv /\ LagInv => JournalLag
  <2> SUFFICES ASSUME IInv, LagInv PROVE JournalLag
    OBVIOUS
  <2> DEFINE S == Lagging \ Pending
  <2>1. Lagging \in SUBSET (S \cup {job.call.id}) /\ (job.at # "journal" => Lagging = S)
    BY DEF Pending
  <2>2. IsFiniteSet(S) /\ Cardinality(S) \in Nat BY LaggingFinite, FS_CardinalityType DEF IInv
  <2>3. /\ IsFiniteSet(S \cup {job.call.id})
        /\ Cardinality(S \cup {job.call.id}) \in {Cardinality(S), Cardinality(S) + 1}
    BY <2>2, FS_AddElement
  <2>4. Cardinality(Lagging) <= Cardinality(S \cup {job.call.id}) /\ Cardinality(Lagging) \in Nat
    BY <2>1, <2>3, FS_Subset, FS_CardinalityType
  <2>5. Cardinality(S) <= crashes /\ crashes \in Nat BY DEF LagInv, IInv, TypeOK
  <2>6. Cardinality(Lagging) <= crashes + (IF job.at = "journal" THEN 1 ELSE 0)
    <3>1. Cardinality(Lagging) <= crashes + 1 BY <2>2, <2>3, <2>4, <2>5
    <3>2. job.at # "journal" => Cardinality(Lagging) <= crashes BY <2>1, <2>5
    <3>3. QED BY <3>1, <3>2, <2>4, <2>5
  <2>7. QED BY <2>6 DEF JournalLag, Lagging
<1>2. QED BY <1>1, IInvAlways, CountedAlways, PTL

\* The dedup pass keeps the last active row of every group of equal ones, though it
\* refutes them one by one, and leaves no two active rows equal.
THEOREM LastDuplicateStays == Spec => []DedupKeepsOne
<1>1. DedupInv => DedupKeepsOne
  <2> SUFFICES ASSUME DedupInv PROVE DedupKeepsOne
    OBVIOUS
  <2>1. ASSUME job.run = "dedup",
               NEW c \in job.calls \cup (IF job.call = Null THEN {} ELSE {job.call})
        PROVE  c.id \in Doomed
    BY <2>1 DEF DedupInv, Doomed
  <2>2. QED BY <2>1 DEF DedupKeepsOne, DedupInv, SameKey
<1>2. QED BY <1>1, CountedAlways, PTL
=============================================================================
