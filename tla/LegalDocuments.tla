--------------------------- MODULE LegalDocuments ---------------------------
(***************************************************************************)
(* One legal document: its revisions, its publications and the customers   *)
(* who accept it (legal-documents.service.ts, the publication triggers of  *)
(* migration 20260913120000, legal-approvals.service.ts).  A command holds *)
(* the row lock of the document from its first read to its commit, so it   *)
(* is one action; but it reads the clock twice, once to decide and once in *)
(* the trigger.  A customer's transaction holds the row in share mode, and *)
(* time goes on between its decision and its reads.                        *)
(***************************************************************************)
EXTENDS Naturals, Sequences, FiniteSets

CONSTANTS Editors, Customers, Texts, EffectiveDates,
          MaxRevisions, MaxEdits, MaxPublications, MaxLegalTime

\* Every date lies within the horizon, so that Forever can stand for no end at all.
ASSUME LegalAssumption == MaxLegalTime \in Nat /\ EffectiveDates \subseteq 0..MaxLegalTime

VARIABLES
  generation,
  revisions,      \* legal_document_revisions, by sequence
  publications,   \* legal_document_publications, in order of insertion
  screens,        \* what an editor's page shows of the document
  visits,         \* how far a customer's acceptance is
  acceptances,    \* legal_acceptances with the text the customer was shown
  legalClock

legalVars ==
  <<generation, revisions, publications, screens, visits, acceptances, legalClock>>

Forever == MaxLegalTime + 10
NotVisiting == [step |-> "AWAY", revision |-> 0, text |-> "none", decidedAt |-> 0]

Revisions == 1..Len(revisions)
Publications == 1..Len(publications)
Uncancelled == {i \in Publications : publications[i].cancelledAt = Forever}
inForce(i, t) == i \in Uncancelled /\ publications[i].startsAt <= t /\ t < publications[i].endsAt

LegalInit ==
  /\ generation = 1
  /\ revisions = <<>> /\ publications = <<>>
  /\ screens = [e \in Editors |-> [generation |-> 0, revisions |-> <<>>]]
  /\ visits = [c \in Customers |-> NotVisiting]
  /\ acceptances = {}
  /\ legalClock = 0

\* The page of the document: its generation and its revisions, from one snapshot.
getDocumentByKey(e) ==
  /\ screens' = [screens EXCEPT ![e] = [generation |-> generation, revisions |-> revisions]]
  /\ screens' # screens
  /\ UNCHANGED <<generation, revisions, publications, visits, acceptances, legalClock>>

\* FOR UPDATE waits for the customers that hold the row in share mode.
lockDocumentByKey == \A c \in Customers : visits[c].step # "LOCKED" /\ visits[c].step # "DECIDED"
generationExpected(e) == screens[e].generation = generation
Seen(e, r) == r <= Len(screens[e].revisions)

(***************************************************************************)
(* Revisions.                                                              *)
(***************************************************************************)
createDraft(e, text) ==
  /\ lockDocumentByKey
  /\ generationExpected(e)
  /\ Len(revisions) < MaxRevisions
  /\ revisions' = Append(revisions, [status |-> "DRAFT", editVersion |-> 1, content |-> text,
                                     effectiveAt |-> 0, reviewed |-> "none"])
  /\ generation' = generation + 1
  /\ UNCHANGED <<publications, screens, visits, acceptances, legalClock>>

\* The revision is a draft and nobody edited it since the page was read.
draftExpected(e, r) ==
  /\ revisions[r].status = "DRAFT"
  /\ revisions[r].editVersion = screens[e].revisions[r].editVersion

updateDraft(e, r, text) ==
  /\ lockDocumentByKey
  /\ Seen(e, r)
  /\ draftExpected(e, r)
  /\ revisions[r].editVersion < MaxEdits
  /\ revisions' = [revisions EXCEPT ![r].content = text, ![r].editVersion = @ + 1]
  /\ UNCHANGED <<generation, publications, screens, visits, acceptances, legalClock>>

\* The stored draft is normalised already; `reviewed` is the hash the audit event keeps.
approveRevision(e, r, effective) ==
  /\ lockDocumentByKey
  /\ Seen(e, r)
  /\ revisions[r].status = "DRAFT"
  /\ revisions[r].editVersion = screens[e].revisions[r].editVersion
  /\ revisions[r].content = screens[e].revisions[r].content
  /\ revisions' = [revisions EXCEPT ![r].status = "APPROVED", ![r].effectiveAt = effective,
                                    ![r].reviewed = screens[e].revisions[r].content]
  /\ UNCHANGED <<generation, publications, screens, visits, acceptances, legalClock>>

(***************************************************************************)
(* Publications.  `t` is the clock of the trigger, after the decision.     *)
(***************************************************************************)
laterOrNow(a, b) == IF a < b THEN b ELSE a
LegalTicks == {legalClock, legalClock + 1} \cap 0..MaxLegalTime

\* The trigger: the publication that would go on is cut where the new one starts.
Predecessors(startsAt) ==
  {i \in Uncancelled : publications[i].startsAt < startsAt /\ publications[i].endsAt > startsAt}
Newest(P) == CHOOSE i \in P : \A j \in P : publications[j].startsAt <= publications[i].startsAt
cutPredecessor(startsAt) ==
  [i \in Publications |->
     IF Predecessors(startsAt) # {} /\ i = Newest(Predecessors(startsAt))
       THEN [publications[i] EXCEPT !.endsAt = startsAt] ELSE publications[i]]

\* A cancellation always precedes the start, so only an uncancelled one counts.
publishedBefore(r) == \E i \in Uncancelled : publications[i].revision = r

pendingPublication(startsAt) ==
  \E i \in Uncancelled : \/ publications[i].startsAt > legalClock
                         \/ startsAt <= legalClock /\ publications[i].startsAt = legalClock

\* `asked` is the start the operator gave, or the decision time when none was.
publishRevision(e, r, asked, t) ==
  LET decided == laterOrNow(revisions[r].effectiveAt, asked)
      starts == IF decided <= t THEN laterOrNow(revisions[r].effectiveAt, t) ELSE decided
  IN /\ lockDocumentByKey
     /\ generationExpected(e)
     /\ revisions[r].status = "APPROVED"
     /\ asked >= legalClock
     /\ ~publishedBefore(r)
     /\ ~pendingPublication(decided)
     /\ \A i \in Uncancelled : publications[i].startsAt <= t   \* the trigger's own check
     /\ Len(publications) < MaxPublications
     /\ publications' = Append(cutPredecessor(starts),
          [revision |-> r, startsAt |-> starts, endsAt |-> Forever,
           cancelledAt |-> Forever, archived |-> FALSE])
     /\ legalClock' = t
     /\ generation' = generation + 1
     /\ UNCHANGED <<revisions, screens, visits, acceptances>>

\* Mutant: the publication that was cut short stays so.
leavePredecessor(i) == publications
\* The trigger: what was cut for the cancelled publication goes on again.
restorePredecessor(i) ==
  [j \in Publications |->
     IF /\ j \in Uncancelled
        /\ publications[j].startsAt < publications[i].startsAt
        /\ publications[j].endsAt = publications[i].startsAt
       THEN [publications[j] EXCEPT !.endsAt = Forever] ELSE publications[j]]

cancelPublication(e, i, t) ==
  /\ lockDocumentByKey
  /\ generationExpected(e)
  /\ i \in Uncancelled
  /\ t < publications[i].startsAt
  /\ publications' = [restorePredecessor(i) EXCEPT ![i].cancelledAt = t]
  /\ legalClock' = t
  /\ generation' = generation + 1
  /\ UNCHANGED <<revisions, screens, visits, acceptances>>

archivePublication(e, i, t) ==
  /\ lockDocumentByKey
  /\ generationExpected(e)
  /\ inForce(i, legalClock)
  /\ publications[i].startsAt < t
  /\ publications[i].endsAt = Forever \/ t < publications[i].endsAt
  /\ publications' = [publications EXCEPT ![i].endsAt = t, ![i].archived = TRUE]
  /\ legalClock' = t
  /\ generation' = generation + 1
  /\ UNCHANGED <<revisions, screens, visits, acceptances>>

(***************************************************************************)
(* Customers.                                                              *)
(***************************************************************************)
\* The publication in force at a given instant, when its revision is effective.
readAt(t) == {i \in Publications : inForce(i, t) /\ revisions[publications[i].revision].effectiveAt <= t}

\* The public page shows the document in force.
availability(c) ==
  /\ visits[c].step = "AWAY"
  /\ \E i \in readAt(legalClock) :
       visits' = [visits EXCEPT ![c] = [step |-> "SHOWN", revision |-> publications[i].revision,
                    text |-> revisions[publications[i].revision].content, decidedAt |-> 0]]
  /\ UNCHANGED <<generation, revisions, publications, screens, acceptances, legalClock>>

\* lock, then createLegalAcceptanceDecision takes the instant
lockLegalDocuments(c) ==
  /\ visits[c].step = "SHOWN"
  /\ visits' = [visits EXCEPT ![c].step = "LOCKED"]
  /\ UNCHANGED <<generation, revisions, publications, screens, acceptances, legalClock>>
createLegalAcceptanceDecision(c) ==
  /\ visits[c].step = "LOCKED"
  /\ visits' = [visits EXCEPT ![c].step = "DECIDED", ![c].decidedAt = legalClock]
  /\ UNCHANGED <<generation, revisions, publications, screens, acceptances, legalClock>>

\* The request names the revision the page showed; another one in force refuses it.
acceptShown(c) ==
  /\ visits[c].step = "DECIDED"
  /\ acceptances' = acceptances \cup
       {[revision |-> visits[c].revision, text |-> visits[c].text, at |-> visits[c].decidedAt] :
          i \in {i \in readAt(visits[c].decidedAt) : publications[i].revision = visits[c].revision}}
  /\ visits' = [visits EXCEPT ![c] = NotVisiting]
  /\ UNCHANGED <<generation, revisions, publications, screens, legalClock>>

legalTimePasses ==
  /\ legalClock < MaxLegalTime
  /\ legalClock' = legalClock + 1
  /\ UNCHANGED <<generation, revisions, publications, screens, visits, acceptances>>

LegalNext ==
  \/ \E e \in Editors :
       \/ getDocumentByKey(e)
       \/ \E text \in Texts : \/ createDraft(e, text)
                              \/ \E r \in Revisions : updateDraft(e, r, text)
       \/ \E r \in Revisions, effective \in EffectiveDates : approveRevision(e, r, effective)
       \/ \E t \in LegalTicks :
            \/ \E r \in Revisions, asked \in legalClock..MaxLegalTime :
                 publishRevision(e, r, asked, t)
            \/ \E i \in Publications : cancelPublication(e, i, t)
            \/ \E i \in Publications : archivePublication(e, i, t)
  \/ \E c \in Customers : \/ availability(c) \/ lockLegalDocuments(c)
                          \/ createLegalAcceptanceDecision(c) \/ acceptShown(c)
  \/ legalTimePasses

LegalSpec == LegalInit /\ [][LegalNext]_legalVars

(***************************************************************************)
(* Properties                                                              *)
(***************************************************************************)
\* What a customer agreed to can be shown later: by the history as it reads today
\* the revision was in force at the decided instant (the instant an archive or a
\* replacement ended it included), and its text is still the one the customer was
\* shown and the one its approver had reviewed.  Publishing, cancelling and
\* archiving never rewrite the past (the triggers of the publications), and no
\* stale page edits an approved text (updateDraft, approveRevision).
AcceptanceStands ==
  \A a \in acceptances :
    /\ \E i \in Uncancelled : /\ publications[i].revision = a.revision
                              /\ publications[i].startsAt <= a.at
                              /\ a.at <= publications[i].endsAt
    /\ revisions[a.revision].status = "APPROVED"
    /\ revisions[a.revision].content = a.text
    /\ revisions[a.revision].content = revisions[a.revision].reviewed

\* The document is never in force twice and never silently out of force: the
\* publications that stand do not overlap, and one ends only because it was
\* archived or because the next starts at that instant; cancelling a scheduled
\* publication takes the cut of its predecessor back, unless the predecessor was
\* archived meanwhile (publishRevision, cancelPublication, archivePublication).
PublicationsTile ==
  \A i \in Uncancelled :
    /\ publications[i].startsAt < publications[i].endsAt
    /\ \A j \in Uncancelled \ {i} : \/ publications[i].endsAt <= publications[j].startsAt
                                    \/ publications[j].endsAt <= publications[i].startsAt
    /\ publications[i].endsAt # Forever /\ ~publications[i].archived
         => \E j \in Uncancelled : publications[j].startsAt = publications[i].endsAt

\* Published texts follow each other without gap or overlap, and an acceptance is
\* of the text that was in force and on the screen.
LegalSound == AcceptanceStands /\ PublicationsTile
==============================================================================
