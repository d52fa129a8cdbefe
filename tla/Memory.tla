------------------------------- MODULE Memory -------------------------------
(***************************************************************************)
(* The semantic memory of packages/core/memory/src: the knowledge table    *)
(* (knowledge.ts), the promotion gate that changes a row's epistemic       *)
(* status with evidence and a journal (promotion.ts), the verifier         *)
(* (verifier.ts), the curation run (curation.ts), the consolidation run    *)
(* (consolidation.ts) and the snapshots they take first (snapshot.ts).     *)
(*                                                                         *)
(* better-sqlite3 is synchronous, so a handler owns the event loop until   *)
(* it returns or awaits.  Two things break a handler up: the process may   *)
(* die between two SQL statements (none of them shares a transaction), and *)
(* a consolidation run awaits the LLM between listing its batch and        *)
(* refuting it.  A row id is the row's place in the sequence, as an        *)
(* AUTOINCREMENT key is.                                                   *)
(***************************************************************************)
EXTENDS Integers, SequencesExt, FiniteSets

CONSTANTS
    Keys,              \* normalised title and body of a row (normalizeKey)
    BlankKeys,         \* the keys whose body is only white space
    SummaryKeys,       \* the keys of the summaries the LLM writes
    Births,            \* what callers insert: rows' key, kind and provenance
    StaleDates,        \* the dates written to stale_after
    MaxEvidence,       \* MAX_EVIDENCE_PER_KNOWLEDGE
    BatchSize,         \* ConsolidationRunnerOptions.batchSize
    MaxMerges,         \* MAX_MERGES
    DecayAge,          \* CurationRunnerOptions.decayDays, in clock units
    Null,              \* SQL NULL
    MaxRows, MaxUses, MaxTime, MaxCrashes  \* bounds: rows callers insert, uses, clock, crashes

Kinds == {"fact", "procedure", "skill"}
Provenances == {"owner", "orchestrator", "quarantine", "background", "consolidation"}
Statuses == {"unverified", "corroborated", "verified", "refuted"}
EvidenceTypes == {"test_pass", "reproduced_observation", "owner_confirmation",
                  "external_source", "llm_proposal"}
Gates == {"auto_corroborate", "owner_verify", "refutation", "decay", "llm_consolidate"}

ASSUME MemoryAssumption ==
    /\ BlankKeys \subseteq Keys /\ SummaryKeys \subseteq Keys
    /\ Births \subseteq [key : Keys, kind : Kinds, prov : Provenances]
    /\ {MaxEvidence, BatchSize, MaxMerges, DecayAge} \subseteq Nat
    /\ {MaxRows, MaxUses, MaxTime, MaxCrashes} \subseteq Nat
    /\ MaxEvidence > 0 /\ StaleDates \subseteq Nat
    /\ Null \notin Nat \cup Statuses

VARIABLES
    knowledge,  \* the knowledge table
    evidence,   \* evidence[id]: how many pieces of evidence the row has, of which types
    journal,    \* journal[id]: to_status of the row's latest transition, Null before the first
    preserved,  \* the ids that are active in some snapshot file
    snapped,    \* whether a snapshot file of this very millisecond exists
    clock,      \* Date.now()
    job,        \* the synchronous handler on the event loop
    awaiting,   \* the batches of the consolidation runs waiting for the LLM
    crashes     \* how often the process died so far

tables == <<knowledge, evidence, journal>>
vars == <<tables, preserved, snapped, clock, job, awaiting, crashes>>

-----------------------------------------------------------------------------
(* Rows, calls of the promotion gate, and the handler in progress.         *)

Row == [key : Keys, kind : Kinds, prov : Provenances, status : Statuses,
        uses : Nat, created : Nat, staleAfter : Nat \cup {Null}]

\* One call of the promotion gate: evidence of this type, then promote.
Call == [id : Nat, type : EvidenceTypes, to : Statuses, gate : Gates]

Ids == DOMAIN knowledge
Active(id) == knowledge[id].status # "refuted"

Refute(id, gate) == [id |-> id, type |-> "external_source", to |-> "refuted", gate |-> gate]

\* run: whose handler it is.  calls: the calls still to make.  at: the next
\* statement of the call in progress (call; from: the status it replaces).
\* merges: the merges that come after the one in progress.
Idle == [run |-> "none", calls |-> {}, at |-> "evidence", call |-> Null, from |-> Null,
         merges |-> <<>>]

Start(run, calls) == [Idle EXCEPT !.run = run, !.calls = calls]

Quiet == job.run = "none"

Init ==
    /\ knowledge = <<>> /\ evidence = <<>> /\ journal = <<>>
    /\ preserved = {} /\ snapped = FALSE
    /\ clock = 0 /\ crashes = 0
    /\ job = Idle /\ awaiting = <<>>

-----------------------------------------------------------------------------
(* KnowledgeStore.                                                         *)

\* epistemicStatus is left to its default: the caller in this repository passes
\* 'unverified' (consolidation.ts), the documents say knowledge is born so.
AddRow(birth) ==
    /\ knowledge' = Append(knowledge,
           [key |-> birth.key, kind |-> birth.kind, prov |-> birth.prov, status |-> "unverified",
            uses |-> 0, created |-> clock, staleAfter |-> Null])
    /\ evidence' = Append(evidence, [count |-> 0, types |-> {}])
    /\ journal' = Append(journal, Null)

Insert(birth) ==
    /\ Quiet
    /\ Len(knowledge) < MaxRows
    /\ AddRow(birth)
    /\ UNCHANGED <<preserved, snapped, clock, job, awaiting, crashes>>

\* What listForInjection may show to the model (up to its limit).
Injectable(id) == knowledge[id].status \in {"corroborated", "verified"}

\* use_count counts the prompts a row was used in (metrics.ts).
BumpUsage(id) ==
    /\ Quiet
    /\ Injectable(id)
    /\ knowledge[id].uses < MaxUses
    /\ knowledge' = [knowledge EXCEPT ![id].uses = @ + 1]
    /\ UNCHANGED <<evidence, journal, preserved, snapped, clock, job, awaiting, crashes>>

\* curation.ts reads stale_after, and code outside the repository writes it.
MarkStale(id, date) ==
    /\ Quiet
    /\ knowledge[id].staleAfter = Null
    /\ knowledge' = [knowledge EXCEPT ![id].staleAfter = date]
    /\ UNCHANGED <<evidence, journal, preserved, snapped, clock, job, awaiting, crashes>>

-----------------------------------------------------------------------------
(* PromotionGate, one SQL statement a step: evidence, status, journal.     *)

\* The INSERT of addEvidence.
Cite(e, type) == [count |-> e.count + 1, types |-> e.types \cup {type}]

\* Fault: at its limit addEvidence gives up quietly and promote goes on.
CiteForBestEffort(c, j) ==
    /\ evidence' = [evidence EXCEPT ![c.id] = IF @.count < MaxEvidence THEN Cite(@, c.type) ELSE @]
    /\ job' = [j EXCEPT !.calls = @ \ {c}, !.call = c, !.at = "status"]
    /\ UNCHANGED <<knowledge, journal, preserved, snapped, clock, awaiting, crashes>>

\* The first statement of call c, made by handler j.
CiteFor(c, j) ==
    /\ evidence[c.id].count < MaxEvidence
    /\ evidence' = [evidence EXCEPT ![c.id] = Cite(@, c.type)]
    /\ job' = [j EXCEPT !.calls = @ \ {c}, !.call = c, !.at = "status"]
    /\ UNCHANGED <<knowledge, journal, preserved, snapped, clock, awaiting, crashes>>

\* The calls of one pass come from a query whose order is SQLite's: any order.
AddEvidence == job.at = "evidence" /\ \E c \in job.calls : CiteFor(c, job)

\* addEvidence throws, and the exception leaves the whole run.
EvidenceLimit ==
    /\ job.at = "evidence"
    /\ \E c \in job.calls : evidence[c.id].count >= MaxEvidence
    /\ job' = Idle
    /\ UNCHANGED <<tables, preserved, snapped, clock, awaiting, crashes>>

UpdateStatus ==
    /\ job.at = "status"
    /\ knowledge' = [knowledge EXCEPT ![job.call.id].status = job.call.to]
    /\ job' = [job EXCEPT !.from = knowledge[job.call.id].status, !.at = "journal"]
    /\ UNCHANGED <<evidence, journal, preserved, snapped, clock, awaiting, crashes>>

\* Fault: from_status and to_status change places.
RecordTransitionSwapped ==
    /\ job.at = "journal"
    /\ journal' = [journal EXCEPT ![job.call.id] = job.from]
    /\ job' = IF job.run = "command" THEN Idle
              ELSE [job EXCEPT !.at = "evidence", !.call = Null, !.from = Null]
    /\ UNCHANGED <<knowledge, evidence, preserved, snapped, clock, awaiting, crashes>>

RecordTransition ==
    /\ job.at = "journal"
    /\ journal' = [journal EXCEPT ![job.call.id] = job.call.to]
    /\ job' = IF job.run = "command" THEN Idle
              ELSE [job EXCEPT !.at = "evidence", !.call = Null, !.from = Null]
    /\ UNCHANGED <<knowledge, evidence, preserved, snapped, clock, awaiting, crashes>>

CallsDone == job.at = "evidence" /\ job.calls = {}

-----------------------------------------------------------------------------
(* Calls that promote one row: the verifier and the owner's commands.  A   *)
(* command on a row at its evidence limit throws and changes nothing.      *)

Command(call) == Quiet /\ CiteFor(call, Start("command", {}))

\* Fault: what a background task noted confirms itself like the owner's words.
SelfConfirmingAll == {"owner", "orchestrator", "quarantine", "background"}

SelfConfirming == {"owner", "orchestrator"}  \* AUTO_CORROBORATE_PROVENANCES

TryAutoCorroborate(id) ==
    /\ knowledge[id].status = "unverified"
    /\ knowledge[id].prov \in SelfConfirming
    /\ knowledge[id].key \notin BlankKeys
    /\ Command([id |-> id, type |-> "reproduced_observation",
                to |-> "corroborated", gate |-> "auto_corroborate"])

VerifyByOwner(id) ==
    Command([id |-> id, type |-> "owner_confirmation",
             to |-> "verified", gate |-> "owner_verify"])

OwnerCorroborate(id) ==
    Command([id |-> id, type |-> "test_pass",
             to |-> "corroborated", gate |-> "owner_verify"])

-----------------------------------------------------------------------------
(* MemorySnapshot.create.  VACUUM INTO fails if the file exists, so two     *)
(* snapshots of one millisecond do not both succeed.  Of the copy the model *)
(* keeps which rows were active in it.                                     *)

\* Fault: an existing file of this millisecond is taken for the snapshot.
CreateSnapshotReuse ==
    /\ snapped' = TRUE
    /\ preserved' = IF snapped THEN preserved ELSE preserved \cup {id \in Ids : Active(id)}

CreateSnapshot ==
    /\ ~snapped
    /\ snapped' = TRUE
    /\ preserved' = preserved \cup {id \in Ids : Active(id)}

-----------------------------------------------------------------------------
(* CurationRunner.run: a snapshot, then three passes, each over what it    *)
(* reads when it starts.                                                   *)

StaleIds == {id \in Ids : /\ Active(id)
                          /\ knowledge[id].staleAfter # Null
                          /\ knowledge[id].staleAfter < clock}

\* Fault: every row that has an equal one is refuted.
EveryDuplicate == {id \in Ids : /\ Active(id)
                                /\ \E keep \in Ids \ {id} : /\ Active(keep)
                                                           /\ knowledge[keep].key = knowledge[id].key}

\* The ids of a group of equal rows but the highest, which is kept.
DuplicateIds == {id \in Ids : /\ Active(id)
                              /\ \E keep \in Ids : /\ keep > id
                                                   /\ Active(keep)
                                                   /\ knowledge[keep].key = knowledge[id].key}

\* Fault: the query forgets to leave out refuted rows.
DecayedIdsAll == {id \in Ids : knowledge[id].uses = 0 /\ knowledge[id].created < clock - DecayAge}

DecayedIds == {id \in Ids : /\ Active(id)
                            /\ knowledge[id].uses = 0
                            /\ knowledge[id].created < clock - DecayAge}

StartCuration ==
    /\ Quiet
    /\ CreateSnapshot
    /\ job' = Start("stale", {Refute(id, "decay") : id \in StaleIds})
    /\ UNCHANGED <<tables, clock, awaiting, crashes>>

RefuteDuplicates ==
    /\ job.run = "stale" /\ CallsDone
    /\ job' = Start("dedup", {Refute(id, "refutation") : id \in DuplicateIds})
    /\ UNCHANGED <<tables, preserved, snapped, clock, awaiting, crashes>>

RefuteDecayed ==
    /\ job.run = "dedup" /\ CallsDone
    /\ job' = Start("decay", {Refute(id, "decay") : id \in DecayedIds})
    /\ UNCHANGED <<tables, preserved, snapped, clock, awaiting, crashes>>

CurationReturns ==
    /\ job.run = "decay" /\ CallsDone
    /\ job' = Idle
    /\ UNCHANGED <<tables, preserved, snapped, clock, awaiting, crashes>>

-----------------------------------------------------------------------------
(* ConsolidationRunner.run, cut in two by the await of the LLM.            *)

Candidates == {id \in Ids : knowledge[id].status = "corroborated" /\ knowledge[id].kind = "fact"}

\* ORDER BY use_count, updated_at LIMIT batchSize: the least used ones, any order of ties.
Batches ==
    {b \in SUBSET Candidates :
        /\ Cardinality(b) = IF Cardinality(Candidates) < BatchSize
                            THEN Cardinality(Candidates) ELSE BatchSize
        /\ \A i \in b, j \in Candidates \ b : knowledge[i].uses <= knowledge[j].uses}

StartConsolidation ==
    /\ Quiet
    /\ \E b \in Batches :
        /\ Cardinality(b) >= 2
        /\ awaiting' = Append(awaiting, b)
    /\ CreateSnapshot
    /\ UNCHANGED <<tables, clock, job, crashes>>

\* What validateConsolidationPlan lets through: merges of ids of the batch, no id twice.
Plans(batch) ==
    {p \in UNION {[1..n -> (SUBSET batch) \ {{}}] : n \in 0..MaxMerges} :
        \A i, j \in DOMAIN p : i # j => p[i] \cap p[j] = {}}

\* The handler on its way to the next merge, or at its end.
NextMerge(merges) ==
    IF merges = <<>> THEN Idle
    ELSE [Start("merge", {Refute(id, "llm_consolidate") : id \in Head(merges)})
          EXCEPT !.merges = Tail(merges)]

LlmAnswers(n) ==
    /\ Quiet
    /\ \E p \in Plans(awaiting[n]) : job' = NextMerge(p)
    /\ awaiting' = RemoveAt(awaiting, n)
    /\ UNCHANGED <<tables, preserved, snapped, clock, crashes>>

\* The LLM call fails, or its answer does not parse or validate.
LlmFails(n) ==
    /\ Quiet
    /\ awaiting' = RemoveAt(awaiting, n)
    /\ UNCHANGED <<tables, preserved, snapped, clock, job, crashes>>

InsertSummary ==
    /\ job.run = "merge" /\ CallsDone
    /\ \E key \in SummaryKeys : 
           AddRow([key |-> key, kind |-> "fact", prov |-> "consolidation"])
    /\ job' = [job EXCEPT !.at = "proposal"]
    /\ UNCHANGED <<preserved, snapped, clock, awaiting, crashes>>

RecordProposal ==
    /\ job.at = "proposal"
    /\ evidence' = [evidence EXCEPT ![Len(knowledge)] = Cite(@, "llm_proposal")]
    /\ job' = NextMerge(job.merges)
    /\ UNCHANGED <<knowledge, journal, preserved, snapped, clock, awaiting, crashes>>

-----------------------------------------------------------------------------
(* The world around: time passes, the process dies and starts again.       *)

Tick ==
    /\ clock < MaxTime
    /\ clock' = clock + 1 /\ snapped' = FALSE
    /\ UNCHANGED <<tables, preserved, job, awaiting, crashes>>

\* Between handlers a crash loses the awaiting runs only, as LlmFails does.
Crash ==
    /\ crashes < MaxCrashes
    /\ ~Quiet
    /\ crashes' = crashes + 1
    /\ job' = Idle
    /\ awaiting' = <<>>
    /\ UNCHANGED <<tables, preserved, snapped, clock>>

Next ==
    \/ \E birth \in Births : Insert(birth)
    \/ \E id \in Ids :
        \/ BumpUsage(id) \/ \E date \in StaleDates : MarkStale(id, date)
        \/ TryAutoCorroborate(id) \/ VerifyByOwner(id) \/ OwnerCorroborate(id)
    \/ AddEvidence \/ EvidenceLimit \/ UpdateStatus \/ RecordTransition
    \/ StartCuration \/ RefuteDuplicates \/ RefuteDecayed \/ CurationReturns
    \/ StartConsolidation
    \/ \E n \in DOMAIN awaiting : LlmAnswers(n) \/ LlmFails(n)
    \/ InsertSummary \/ RecordProposal
    \/ Tick \/ Crash

Spec == Init /\ [][Next]_vars

-----------------------------------------------------------------------------
(* Properties.                                                             *)

Evidence == [count : Nat, types : SUBSET EvidenceTypes]

JobType == [run : {"none", "command", "stale", "dedup", "decay", "merge"},
            calls : SUBSET Call,
            at : {"evidence", "status", "journal", "proposal"},
            call : Call \cup {Null}, from : Statuses \cup {Null},
            merges : Seq(SUBSET Nat)]

\* Every variable has its type, and the three tables have a row for the same ids.
TypeOK ==
    /\ knowledge \in Seq(Row)
    /\ evidence \in Seq(Evidence)
    /\ journal \in Seq(Statuses \cup {Null})
    /\ Len(evidence) = Len(knowledge) /\ Len(journal) = Len(knowledge)
    /\ preserved \in SUBSET Nat /\ snapped \in BOOLEAN
    /\ clock \in Nat /\ crashes \in Nat
    /\ job \in JobType
    /\ awaiting \in Seq(SUBSET Nat)

EvidenceOf(id) == evidence[id].types

\* A status is never ahead of its evidence: the three statements of a promotion
\* come in the order evidence, status, journal, and a crash between any two of
\* them or another run leaves no row whose status nothing backs.
EvidenceBacked ==
    \A id \in Ids :
        /\ knowledge[id].status = "verified" => "owner_confirmation" \in EvidenceOf(id)
        /\ knowledge[id].status = "corroborated" =>
               EvidenceOf(id) \cap {"test_pass", "reproduced_observation"} # {}
        /\ knowledge[id].status = "refuted" => "external_source" \in EvidenceOf(id)

\* Knowledge born in quarantine, in the background or from an LLM merge reaches a
\* status that listForInjection shows to the model only by an act of the owner,
\* whatever the verifier, the curation and the consolidation do in between.
NoSelfConfirmation ==
    \A id \in Ids :
        /\ knowledge[id].prov \in {"quarantine", "background", "consolidation"}
        /\ Injectable(id)
        => EvidenceOf(id) \cap {"test_pass", "owner_confirmation"} # {}

\* What each gate may do to a row: auto_corroborate lifts unverified rows only, a
\* curation pass refutes active rows only (no row twice, though the three passes
\* of a run read the table at three moments), a merge refutes.
LegalTransition(from, to, gate) ==
    CASE gate = "auto_corroborate" -> from = "unverified" /\ to = "corroborated"
      [] gate \in {"decay", "refutation"} -> from # "refuted" /\ to = "refuted"
      [] gate = "llm_consolidate" -> to = "refuted"
      [] gate = "owner_verify" -> to \in {"corroborated", "verified"}

TransitionsLegal ==
    job.at = "journal" => LegalTransition(job.from, job.call.to, job.call.gate)

\* The status the journal says the row has.
Journalled(id) ==
    IF journal[id] = Null THEN "unverified" ELSE journal[id]

\* promote updates the status and then writes the journal without a transaction:
\* a crash in between costs one entry, and nothing else makes the two disagree.
JournalLag ==
    Cardinality({id \in Ids : knowledge[id].status # Journalled(id)})
        <= crashes + (IF job.at = "journal" THEN 1 ELSE 0)

\* Whatever a curation or a merge refutes was active in some snapshot, the one the
\* run took before it (and before it awaited the LLM), so a rollback can revive it.
RefutedRecoverable ==
    /\ job.at = "journal"
    /\ job.call.to = "refuted" /\ job.from # "refuted"
    => job.call.id \in preserved

\* A row refuted as a duplicate leaves a later active row with the same content,
\* and after the pass no two active rows share their content.
DedupKeepsOne ==
    /\ job.run = "dedup" =>
        \A c \in job.calls \cup (IF job.call = Null THEN {} ELSE {job.call}) :
            \E keep \in Ids : /\ keep > c.id /\ Active(keep)
                              /\ knowledge[keep].key = knowledge[c.id].key
    /\ job.run = "decay" =>
        \A i, j \in Ids : /\ Active(i) /\ Active(j)
                          /\ knowledge[i].key = knowledge[j].key
                          => i = j

\* knowledge.ts calls a consolidation batch "corroborated facts": a merge takes away
\* corroborated rows only.  The run keeps the ids over its await and refutes
\* them whatever the owner made of them meanwhile.
MergesCorroboratedOnly ==
    job.at = "journal" /\ job.call.gate = "llm_consolidate" => job.from # "verified"
=============================================================================
