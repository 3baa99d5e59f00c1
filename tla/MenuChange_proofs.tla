-------------------------- MODULE MenuChange_proofs --------------------------
(***************************************************************************)
(* Proofs about MenuChange, for any sessions, accounts, items, values,     *)
(* proposals and bounds.  What a call reads of a row that it writes or     *)
(* locks is the row as it is when it commits (SnapshotInv), whatever other *)
(* rows it read have become.                                               *)
(***************************************************************************)
EXTENDS MenuChange, TLAPS

(* A snapshot differs from the database in stale rows only, and not in an  *)
(* applied request.                                                        *)
SnapshotOf(s, d) ==
  /\ \A r \in Request : <<"req", r>> \notin stale[s] => d.reqs[r] = db.reqs[r]
  /\ \A i \in Item : <<"item", i>> \notin stale[s] => d.items[i] = db.items[i]
  /\ \A r \in Request : d.reqs[r].state = "applied" => d.reqs[r] = db.reqs[r]

SnapshotInv == \A s \in Session : \A d \in tx[s] : SnapshotOf(s, d)

-----------------------------------------------------------------------------
(* The empty value set is a partial one.                                   *)
LEMMA NoValuesType == NoValues \in Partial
  <1>1. NoValues \in [{} -> Value]
    BY DEF NoValues
  <1> QED BY <1>1 DEF Partial

(* An item's content is a partial one that gives every field.              *)
LEMMA ContentIsPartial == Content \subseteq Partial
  BY DEF Content, Partial

(* A patched item still has every field.                                   *)
LEMMA PatchedType ==
  ASSUME NEW c \in Content, NEW p \in Partial
  PROVE  Patched(c, p) \in Content
  <1>1. PICK F \in SUBSET Field : p \in [F -> Value]
    BY DEF Partial
  <1> QED BY <1>1 DEF Patched, Content

(* An item that exists has content.                                        *)
LEMMA ExistsType ==
  ASSUME NEW d \in Database, NEW i \in Item, Exists(d, i)
  PROVE  d.items[i] \in Content
  BY DEF Database, Exists

(* The empty request is a request record.                                  *)
LEMMA NoRequestType == NoRequest \in RequestRecord
  BY NoValuesType DEF NoRequest, RequestRecord, States

(* A new draft is a request record.                                        *)
LEMMA DraftedType ==
  ASSUME NEW d \in Database, NEW u \in User,
         NEW origin \in {"merchant_manager", "remote_support"},
         NEW i \in Item \cup {NoItem}, NEW p \in Partial
  PROVE  Drafted(d, u, origin, i, p) \in RequestRecord
  <1>1. d.binding \in Binding /\ d.binding.user \in User
    BY MenuAssumption DEF Database
  <1> QED BY <1>1 DEF Drafted, NoRequest, RequestRecord, States

(* A submission keeps a request record one.                                *)
LEMMA SubmittedType ==
  ASSUME NEW d \in Database, NEW q \in RequestRecord
  PROVE  Submitted(d, q) \in RequestRecord
  <1>1. d.binding \in Binding /\ d.binding.user \in User
    BY MenuAssumption DEF Database
  <1>2. CurrentValues(d, q) \in Content \cup {NoValues}
    BY DEF CurrentValues, Database, RequestRecord
  <1>3. Seal(q) \in SUBSET [person : {b.person : b \in Binding} \cup {NoUser}, dual : BOOLEAN]
    BY DEF Seal, RequestRecord
  <1> QED BY <1>1, <1>2, <1>3 DEF Submitted, RequestRecord, States

(* What a submission writes of a request, and what it leaves.              *)
LEMMA SubmittedKeeps ==
  ASSUME NEW d, NEW q \in RequestRecord
  PROVE  /\ Submitted(d, q).item = q.item
         /\ Submitted(d, q).proposed = q.proposed
         /\ Submitted(d, q).reverses = q.reverses
         /\ Submitted(d, q).state = "pending_responsible_review"
         /\ Submitted(d, q).base = CurrentValues(d, q)
  <1> DEFINE base == CurrentValues(d, q)
             seal == Seal(q)
  <1>1. Submitted(d, q) =
          [q EXCEPT !.state = "pending_responsible_review", !.base = base, !.seal = seal,
                    !.reviewer = d.binding.user, !.person = d.binding.person]
    BY DEF Submitted
  <1> HIDE DEF base, seal
  <1>2. /\ Submitted(d, q).item = q.item
        /\ Submitted(d, q).proposed = q.proposed
        /\ Submitted(d, q).reverses = q.reverses
        /\ Submitted(d, q).state = "pending_responsible_review"
        /\ Submitted(d, q).base = base
    BY <1>1 DEF RequestRecord
  <1> QED BY <1>2 DEF base

(* A change of state and approver keeps a request record one.              *)
LEMMA StateType ==
  ASSUME NEW q \in RequestRecord, NEW st \in States, NEW u \in User \cup {NoUser},
         NEW i \in Item \cup {NoItem}
  PROVE  /\ [q EXCEPT !.state = st] \in RequestRecord
         /\ [q EXCEPT !.state = st, !.approver = u] \in RequestRecord
         /\ [q EXCEPT !.state = st, !.target = i] \in RequestRecord
  <1>1. [q EXCEPT !.state = st] \in RequestRecord
    BY DEF RequestRecord
  <1>2. [q EXCEPT !.state = st, !.approver = u] \in RequestRecord
    BY DEF RequestRecord
  <1>3. [q EXCEPT !.state = st, !.target = i] \in RequestRecord
    BY DEF RequestRecord
  <1> QED BY <1>1, <1>2, <1>3

(* A review note keeps a request record one.                               *)
LEMMA NotedType ==
  ASSUME NEW q \in RequestRecord
  PROVE  [q EXCEPT !.noted = TRUE] \in RequestRecord
  BY Zenon DEF RequestRecord

(* An edit of a draft keeps a request record one.                          *)
LEMMA EditedType ==
  ASSUME NEW q \in RequestRecord, NEW p \in Partial, NEW u \in User \cup {NoUser},
         NEW o \in {"merchant_manager", "remote_support"},
         NEW m \in {b.person : b \in Binding} \cup {NoUser}
  PROVE  [q EXCEPT !.origin = o, !.proposed = p, !.reviewer = u, !.person = m]
           \in RequestRecord
  BY DEF RequestRecord
-----------------------------------------------------------------------------
(* Every action but Open and Abort commits one transaction.                *)
LEMMA RowIsCurrent ==
  ASSUME SnapshotInv, NEW s \in Session, NEW d \in tx[s],
         NEW locked, NEW written, Committed(s, locked, written)
  PROVE  /\ \A r \in Request : <<"req", r>> \in locked \cup written
                               => d.reqs[r] = db.reqs[r]
         /\ \A i \in Item : <<"item", i>> \in locked \cup written
                               => d.items[i] = db.items[i]
  BY DEF Committed, SnapshotInv, SnapshotOf

(* A commit that writes the rows it names keeps SnapshotInv.               *)
LEMMA CommitKeepsSnapshots ==
  ASSUME TypeOK, SnapshotInv, NEW s \in Session, NEW locked, NEW written,
         Committed(s, locked, written),
         \A r \in Request : <<"req", r>> \notin written => db'.reqs[r] = db.reqs[r],
         \A i \in Item : <<"item", i>> \notin written => db'.items[i] = db.items[i],
         \A r \in Request : db.reqs[r].state = "applied" => db'.reqs[r] = db.reqs[r]
  PROVE  SnapshotInv'
  <1> SUFFICES ASSUME NEW t \in Session, NEW d \in tx'[t] PROVE SnapshotOf(t, d)'
    BY DEF SnapshotInv
  <1>1. t # s /\ d \in tx[t] /\ stale'[t] = stale[t] \cup written
    BY DEF Committed, TypeOK
  <1>2. SnapshotOf(t, d)
    BY <1>1 DEF SnapshotInv
  <1> QED BY <1>1, <1>2 DEF SnapshotOf

(* What a call that writes one request does to the database.               *)
LEMMA SaveRequestStep ==
  ASSUME TypeOK, SnapshotInv, NEW s \in Session, NEW d \in tx[s],
         NEW r \in Request, NEW q \in RequestRecord, SaveRequest(s, r, q)
  PROVE  /\ TypeOK'
         /\ d \in Database /\ d.reqs[r] = db.reqs[r]
         /\ db'.reqs[r] = q
         /\ \A n \in Request \ {r} : db'.reqs[n] = db.reqs[n]
         /\ db'.items = db.items /\ db'.binding = db.binding
         /\ book' = book /\ unlogged' = unlogged
         /\ db.reqs[r].state # "applied" => SnapshotInv'
  <1>1. d \in Database /\ db \in Database
    BY DEF TypeOK
  <1>2. Committed(s, {}, {<<"req", r>>})
    BY DEF SaveRequest
  <1>3. d.reqs[r] = db.reqs[r]
    BY <1>2, RowIsCurrent
  <1>4. /\ db'.reqs[r] = q
        /\ \A n \in Request \ {r} : db'.reqs[n] = db.reqs[n]
        /\ db'.items = db.items /\ db'.binding = db.binding
        /\ book' = book /\ unlogged' = unlogged /\ edits' = edits
    BY <1>1 DEF SaveRequest, Database
  <1>5. db' \in Database
    BY <1>1 DEF SaveRequest, Database
  <1>6. tx' \in [Session -> SUBSET Database]
    BY <1>2 DEF Committed, TypeOK
  <1>7. db.reqs[r].state # "applied" => SnapshotInv'
    BY <1>2, <1>4, CommitKeepsSnapshots
  <1> QED BY <1>1, <1>3, <1>4, <1>5, <1>6, <1>7 DEF TypeOK
-----------------------------------------------------------------------------
(* What one step can do to request r, told of the database alone: the      *)
(* snapshots are gone.                                                     *)
Outset(q) == q.item = NoItem => q.proposed \in NewItem

Born(old, new) ==
  /\ old = NoRequest
  /\ new.state = "draft" /\ new.reverses = 0 /\ Outset(new)

Reversal(old, new) ==
  /\ old = NoRequest
  /\ new.state = "pending_responsible_review"
  /\ new.item # NoItem
  /\ \E r \in Request :
       LET q == db.reqs[r] IN
       /\ new.reverses = r
       /\ q.state = "applied" /\ q.item = new.item
       /\ new.proposed = [f \in DOMAIN q.proposed |-> q.base[f]]
       /\ new.base = Patched(q.base, q.proposed)

Edited(old, new) ==
  /\ old.state = "draft" /\ new.state = "draft"
  /\ new.reverses = old.reverses /\ Outset(new)

Noted(old, new) ==
  /\ old.state \in {"draft", "pending_responsible_review"}
  /\ new = [old EXCEPT !.noted = TRUE]

Sent(old, new) ==
  /\ old.state = "draft" /\ new.state = "pending_responsible_review"
  /\ new.reverses = old.reverses
  /\ new.item = old.item /\ new.proposed = old.proposed

Approved(old, new) ==
  /\ old.state = "pending_responsible_review"
  /\ old.reviewer = old.requester /\ old.seal = Seal(old)
  /\ new = [old EXCEPT !.state = "approved", !.approver = old.requester]

Realised(old, new) ==
  /\ old.state = "approved"
  /\ old.base = CurrentValues(db, old)
  /\ old.item # NoItem => old.base \in Content /\ new.target = old.item
  /\ new.target \in Item /\ new = Applied(old, new.target)
  /\ db.items[new.target] = old.base
  /\ db'.items[new.target] = IF old.item = NoItem THEN old.proposed
                             ELSE Patched(old.base, old.proposed)

Ended(old, new) ==
  /\ old.state \notin {"none", "applied"}
  /\ \/ new = [old EXCEPT !.state = "dead_letter"]
     \/ \E u \in User : new = [old EXCEPT !.state = "rejected", !.approver = u]

RequestStep(old, new) ==
  \/ new = old
  \/ Born(old, new) \/ Reversal(old, new) \/ Edited(old, new) \/ Noted(old, new)
  \/ Sent(old, new) \/ Approved(old, new) \/ Realised(old, new) \/ Ended(old, new)

(* What one step can do to an item and its eventbook.                      *)
ItemStep(i) ==
  \/ db'.items[i] = db.items[i] /\ book'[i] = book[i]
  \/ book'[i] = [before |-> db.items[i], after |-> db'.items[i]]
  \/ i \in unlogged'

(* A step leaves all requests but those of R, and all items but those of I. *)
Untouched(R, I) ==
  /\ \A r \in Request \ R : db'.reqs[r] = db.reqs[r]
  /\ \A i \in Item \ I : db'.items[i] = db.items[i]

(* A step writes one request, or one item, or both where it realises one.  *)
OneAtATime ==
  \/ Untouched({}, {})
  \/ \E r \in Request : Untouched({r}, {})
  \/ \E i \in Item : Untouched({}, {i})
  \/ \E r \in Request : /\ Realised(db.reqs[r], db'.reqs[r])
                        /\ Untouched({r}, {db'.reqs[r].target})

(* What one step does, with the invariants it keeps.                       *)
StepFacts ==
  /\ TypeOK' /\ SnapshotInv'
  /\ OneAtATime
  /\ \A r \in Request : RequestStep(db.reqs[r], db'.reqs[r])
  /\ \A i \in Item : ItemStep(i)
  /\ unlogged \subseteq unlogged'

(* An item of a request that creates one is fully proposed.                *)
OutsetInv == \A r \in Request : db.reqs[r].state # "none" => Outset(db.reqs[r])

(* A call that writes one request, given what it makes of it.              *)
LEMMA RequestCall ==
  ASSUME TypeOK, SnapshotInv, NEW s \in Session, NEW d \in tx[s],
         NEW r \in Request, NEW q \in RequestRecord, SaveRequest(s, r, q),
         db.reqs[r].state # "applied", RequestStep(db.reqs[r], q)
  PROVE  StepFacts
  <1>1. \A n \in Request : RequestStep(db.reqs[n], db'.reqs[n])
    BY SaveRequestStep DEF RequestStep
  <1>2. Untouched({r}, {})
    BY SaveRequestStep DEF Untouched
  <1> QED BY <1>1, <1>2, SaveRequestStep DEF StepFacts, ItemStep, OneAtATime

(* create() of a request.                                                  *)
LEMMA CreateDraftStep ==
  ASSUME TypeOK, SnapshotInv, NEW s \in Session, CreateDraft(s)
  PROVE  StepFacts
  <1>1. PICK d \in tx[s], u \in User, origin \in {"merchant_manager", "remote_support"},
             i \in Item \cup {NoItem}, p \in Proposal \cup NewItem, r \in Request :
          /\ Proposable(d, i, p) /\ Fresh(r)
          /\ SaveRequest(s, r, Drafted(d, u, origin, i, p))
    BY DEF CreateDraft
  <1>2. d \in Database /\ p \in Partial
    BY MenuAssumption, ContentIsPartial DEF TypeOK
  <1> DEFINE q == Drafted(d, u, origin, i, p)
  <1>3. q \in RequestRecord
    BY <1>2, DraftedType
  <1>4. Born(db.reqs[r], q) /\ db.reqs[r].state # "applied"
    BY <1>1, MenuAssumption DEF Born, Drafted, NoRequest, Fresh, Outset, Proposable
  <1> HIDE DEF q
  <1> QED BY <1>1, <1>3, <1>4, RequestCall DEF q, RequestStep

(* write() on a draft.                                                     *)
LEMMA EditDraftStep ==
  ASSUME TypeOK, SnapshotInv, NEW s \in Session, EditDraft(s)
  PROVE  StepFacts
  <1>1. PICK d \in tx[s], r \in Request, u \in User, p \in Proposal \cup NewItem,
             origin \in {"merchant_manager", "remote_support"}, group \in BOOLEAN :
          LET q == d.reqs[r] IN
          /\ Editable(q, u)
          /\ origin = q.origin \/ MayOriginate(u, origin)
          /\ Proposable(d, q.item, p)
          /\ SaveRequest(s, r,
               [q EXCEPT !.origin = origin, !.proposed = p,
                         !.reviewer = IF group THEN d.binding.user ELSE @,
                         !.person = IF group THEN d.binding.person ELSE @])
    BY DEF EditDraft
  <1> DEFINE q == d.reqs[r]
             user == IF group THEN d.binding.user ELSE q.reviewer
             person == IF group THEN d.binding.person ELSE q.person
             n == [q EXCEPT !.origin = origin, !.proposed = p,
                            !.reviewer = user, !.person = person]
  <1>2. d \in Database /\ p \in Partial /\ q \in RequestRecord
    BY MenuAssumption, ContentIsPartial DEF TypeOK, Database
  <1>3. user \in User \cup {NoUser} /\ person \in {b.person : b \in Binding} \cup {NoUser}
    BY <1>2, MenuAssumption DEF Database, RequestRecord
  <1>4. n \in RequestRecord
    <2> HIDE DEF user, person, q
    <2> QED BY <1>2, <1>3, EditedType
  <1>5. q = db.reqs[r]
    BY <1>1, RowIsCurrent DEF SaveRequest
  <1>6. Edited(q, n)
    BY <1>1, <1>2, MenuAssumption DEF Edited, Editable, Outset, Proposable, RequestRecord
  <1> QED BY <1>1, <1>4, <1>5, <1>6, RequestCall DEF RequestStep, Editable

(* write() of the review note.                                             *)
LEMMA WriteNoteStep ==
  ASSUME TypeOK, SnapshotInv, NEW s \in Session, WriteNote(s)
  PROVE  StepFacts
  <1>1. PICK d \in tx[s], r \in Request :
          /\ d.reqs[r].state \in {"draft", "pending_responsible_review"}
          /\ SaveRequest(s, r, [d.reqs[r] EXCEPT !.noted = TRUE])
    BY DEF WriteNote
  <1>2. d.reqs[r] = db.reqs[r]
    BY <1>1, RowIsCurrent DEF SaveRequest
  <1>3. [db.reqs[r] EXCEPT !.noted = TRUE] \in RequestRecord
    BY NotedType DEF TypeOK, Database
  <1> QED BY <1>1, <1>2, <1>3, RequestCall DEF RequestStep, Noted

(* action_submit_for_responsible_review.                                   *)
LEMMA SubmitStep ==
  ASSUME TypeOK, SnapshotInv, NEW s \in Session, Submit(s)
  PROVE  StepFacts
  <1>1. PICK d \in tx[s], r \in Request :
          /\ d.reqs[r].state = "draft"
          /\ SaveRequest(s, r, Submitted(d, d.reqs[r]))
    BY DEF Submit
  <1>a. d.reqs[r] = db.reqs[r]
    BY <1>1, RowIsCurrent DEF SaveRequest
  <1>2. d.reqs[r] = db.reqs[r] /\ d \in Database /\ db.reqs[r] \in RequestRecord
    BY <1>a DEF TypeOK, Database
  <1>3. Submitted(d, db.reqs[r]) \in RequestRecord
    BY <1>2, SubmittedType
  <1>4. Sent(db.reqs[r], Submitted(d, db.reqs[r]))
    BY <1>1, <1>2 DEF Sent, Submitted, RequestRecord
  <1> QED BY <1>1, <1>2, <1>3, <1>4, RequestCall DEF RequestStep

(* action_responsible_approve.                                             *)
LEMMA ApproveStep ==
  ASSUME TypeOK, SnapshotInv, NEW s \in Session, Approve(s)
  PROVE  StepFacts
  <1>1. PICK d \in tx[s], r \in Request, u \in User :
          /\ d.reqs[r].state = "pending_responsible_review"
          /\ MayReview(d, d.reqs[r], u)
          /\ CandidateStands(d, d.reqs[r])
          /\ SaveRequest(s, r, [d.reqs[r] EXCEPT !.state = "approved", !.approver = u])
    BY DEF Approve
  <1>a. d.reqs[r] = db.reqs[r]
    BY <1>1, RowIsCurrent DEF SaveRequest
  <1>2. d.reqs[r] = db.reqs[r] /\ db.reqs[r] \in RequestRecord
    BY <1>a DEF TypeOK, Database
  <1> DEFINE n == [db.reqs[r] EXCEPT !.state = "approved", !.approver = u]
  <1>3. n \in RequestRecord
    BY <1>2, StateType DEF States
  <1>4. Approved(db.reqs[r], n)
    BY <1>1, <1>2 DEF Approved, MayReview, CandidateStands
  <1> QED BY <1>1, <1>2, <1>3, <1>4, RequestCall DEF RequestStep

(* action_responsible_reject and action_dead_letter.                       *)
LEMMA EndStep ==
  ASSUME TypeOK, SnapshotInv, NEW s \in Session, Reject(s) \/ DeadLetter(s)
  PROVE  StepFacts
  <1>0. PICK d \in tx[s], r \in Request : \E n :
          /\ d.reqs[r].state \notin {"none", "applied"}
          /\ \/ n = [d.reqs[r] EXCEPT !.state = "dead_letter"]
             \/ \E u \in User : n = [d.reqs[r] EXCEPT !.state = "rejected", !.approver = u]
          /\ SaveRequest(s, r, n)
    BY DEF Reject, DeadLetter
  <1>1. PICK n :
          /\ d.reqs[r].state \notin {"none", "applied"}
          /\ \/ n = [d.reqs[r] EXCEPT !.state = "dead_letter"]
             \/ \E u \in User : n = [d.reqs[r] EXCEPT !.state = "rejected", !.approver = u]
          /\ SaveRequest(s, r, n)
    BY <1>0
  <1>a. d.reqs[r] = db.reqs[r]
    <2>1. Committed(s, {}, {<<"req", r>>})
      BY <1>1 DEF SaveRequest
    <2> QED BY <2>1, RowIsCurrent
  <1>2. d.reqs[r] = db.reqs[r] /\ db.reqs[r] \in RequestRecord
    BY <1>a DEF TypeOK, Database
  <1>3. n \in RequestRecord
    <2>1. [db.reqs[r] EXCEPT !.state = "dead_letter"] \in RequestRecord
      BY <1>2, StateType DEF States
    <2>2. \A u \in User :
            [db.reqs[r] EXCEPT !.state = "rejected", !.approver = u] \in RequestRecord
      BY <1>2, StateType DEF States
    <2>3. CASE n = [d.reqs[r] EXCEPT !.state = "dead_letter"]
      BY <1>a, <2>1, <2>3
    <2>4. ASSUME NEW u \in User, n = [d.reqs[r] EXCEPT !.state = "rejected", !.approver = u]
          PROVE  n \in RequestRecord
      BY <1>a, <2>2, <2>4
    <2> QED BY <1>1, <2>3, <2>4
  <1>4. Ended(db.reqs[r], n)
    BY <1>1, <1>2 DEF Ended
  <1> QED BY <1>1, <1>2, <1>3, <1>4, RequestCall DEF RequestStep

(* action_prepare_reversal.                                                *)
LEMMA PrepareReversalStep ==
  ASSUME TypeOK, SnapshotInv, NEW s \in Session, PrepareReversal(s),
         \A r \in Request : db.reqs[r].state = "applied" /\ db.reqs[r].item # NoItem
           => db.reqs[r].base \in Content
  PROVE  StepFacts
  <1>1. PICK d \in tx[s], r \in Request, n \in Request, u \in User :
          LET q == d.reqs[r]
              back == [f \in DOMAIN q.proposed |-> q.base[f]]
              draft == [Drafted(d, u, "merchant_manager", q.item, back)
                          EXCEPT !.reverses = r] IN
          /\ Reversible(d, q)
          /\ Fresh(n)
          /\ SaveRequest(s, n, Submitted(d, draft))
    BY DEF PrepareReversal
  <1> DEFINE q == d.reqs[r]
             back == [f \in DOMAIN q.proposed |-> q.base[f]]
             first == Drafted(d, u, "merchant_manager", q.item, back)
             draft == [first EXCEPT !.reverses = r]
             new == Submitted(d, draft)
  <1>2. d \in Database /\ q \in RequestRecord
    BY DEF TypeOK, Database
  <1>3. q = db.reqs[r] /\ q.state = "applied" /\ q.item # NoItem
    BY <1>1 DEF Reversible, SnapshotInv, SnapshotOf
  <1>4. q.base \in Content /\ q.proposed \in Partial
    BY <1>2, <1>3 DEF RequestRecord
  <1>5. back \in Partial
    BY <1>4 DEF Partial, Content
  <1>6. first \in RequestRecord
    BY <1>2, <1>5, DraftedType DEF RequestRecord
  <1>7. draft \in RequestRecord
    <2>1. r \in Nat
      BY DEF Request
    <2> HIDE DEF first
    <2> QED BY <1>6, <2>1 DEF RequestRecord
  <1>8. new \in RequestRecord
    BY <1>2, <1>7, SubmittedType
  <1>9. /\ draft.item = q.item /\ draft.proposed = back /\ draft.reverses = r
    BY DEF Drafted, NoRequest
  <1>10. /\ new.item = q.item /\ new.proposed = back /\ new.reverses = r
         /\ new.state = "pending_responsible_review"
         /\ new.base = CurrentValues(d, draft)
    <2>1. /\ new.item = draft.item /\ new.proposed = draft.proposed
          /\ new.reverses = draft.reverses
          /\ new.state = "pending_responsible_review"
          /\ new.base = CurrentValues(d, draft)
      BY <1>7, SubmittedKeeps
    <2> HIDE DEF draft, new
    <2> QED BY <1>9, <2>1
  <1>11. CurrentValues(d, draft) = CurrentValues(d, q)
    <2> HIDE DEF draft, q
    <2> QED BY <1>9 DEF CurrentValues
  <1>12. new.base = Patched(q.base, q.proposed)
    BY <1>1, <1>10, <1>11 DEF Reversible
  <1>13. Reversal(db.reqs[n], new)
    BY <1>1, <1>3, <1>10, <1>12 DEF Reversal, Fresh
  <1>14. db.reqs[n].state # "applied"
    BY <1>1 DEF Fresh, NoRequest
  <1>15. SaveRequest(s, n, new)
    BY <1>1
  <1> HIDE DEF new
  <1> QED BY <1>8, <1>13, <1>14, <1>15, RequestCall DEF RequestStep

(* A call that writes one item, and no request.                            *)
LEMMA ItemCall ==
  ASSUME TypeOK, SnapshotInv, NEW s \in Session, NEW i \in Item, NEW c \in Content,
         WriteItem(s, i, c)
  PROVE  /\ SnapshotInv' /\ db' \in Database /\ edits' \in Nat
         /\ tx' \in [Session -> SUBSET Database]
         /\ \A r \in Request : RequestStep(db.reqs[r], db'.reqs[r])
         /\ db'.items[i] = c
         /\ \A j \in Item \ {i} : db'.items[j] = db.items[j]
         /\ OneAtATime
  <1>1. Committed(s, {}, {<<"item", i>>}) /\ edits' = edits + 1
    BY DEF WriteItem
  <1>2. /\ db'.reqs = db.reqs /\ db'.items[i] = c /\ db' \in Database
        /\ \A j \in Item \ {i} : db'.items[j] = db.items[j]
    BY DEF WriteItem, TypeOK, Database
  <1>3. SnapshotInv'
    BY <1>1, <1>2, CommitKeepsSnapshots
  <1>4. tx' \in [Session -> SUBSET Database] /\ edits' \in Nat
    BY <1>1 DEF Committed, TypeOK
  <1>5. OneAtATime
    BY <1>2 DEF OneAtATime, Untouched
  <1> QED BY <1>2, <1>3, <1>4, <1>5 DEF RequestStep

(* A product written by the account bound to the group.                    *)
LEMMA DirectEditStep ==
  ASSUME TypeOK, SnapshotInv, NEW s \in Session, DirectEdit(s)
  PROVE  StepFacts
  <1>1. PICK d \in tx[s], i \in Item, p \in Edit :
          /\ Exists(d, i)
          /\ WriteItem(s, i, Patched(d.items[i], p))
          /\ Logged(i, d.items[i], Patched(d.items[i], p))
          /\ UNCHANGED unlogged
    BY DEF DirectEdit
  <1>2. d.items[i] \in Content
    BY <1>1, ExistsType DEF TypeOK
  <1>3. d.items[i] = db.items[i]
    BY <1>1, RowIsCurrent DEF WriteItem
  <1> DEFINE c == Patched(d.items[i], p)
  <1>4. c \in Content
    BY <1>2, PatchedType, MenuAssumption
  <1> HIDE DEF c
  <1> QED BY <1>1, <1>2, <1>3, <1>4, ItemCall DEF c, StepFacts, TypeOK, ItemStep, Logged

(* A product created by that account.                                      *)
LEMMA DirectCreateStep ==
  ASSUME TypeOK, SnapshotInv, NEW s \in Session, DirectCreate(s)
  PROVE  StepFacts
  <1>1. PICK i \in Item, c \in NewItem :
          /\ ~Exists(db, i)
          /\ WriteItem(s, i, c)
          /\ Logged(i, NoValues, c)
          /\ UNCHANGED unlogged
    BY DEF DirectCreate
  <1>2. c \in Content
    BY MenuAssumption
  <1> QED BY <1>1, <1>2, ItemCall DEF StepFacts, TypeOK, ItemStep, Logged, Exists

(* A product written by an account outside the menu roles.                 *)
LEMMA OtherWriteStep ==
  ASSUME TypeOK, SnapshotInv, NEW s \in Session, OtherWrite(s)
  PROVE  StepFacts
  <1>1. PICK d \in tx[s], i \in Item, p \in Edit :
          /\ Exists(d, i)
          /\ WriteItem(s, i, Patched(d.items[i], p))
          /\ unlogged' = unlogged \cup {i}
          /\ UNCHANGED book
    BY DEF OtherWrite
  <1>2. Patched(d.items[i], p) \in Content
    BY <1>1, ExistsType, PatchedType, MenuAssumption DEF TypeOK
  <1> QED BY <1>1, <1>2, ItemCall DEF StepFacts, TypeOK, ItemStep

(* The binding of the merchant group is changed.                           *)
LEMMA RebindStep ==
  ASSUME TypeOK, SnapshotInv, NEW s \in Session, Rebind(s)
  PROVE  StepFacts
  <1>1. PICK b \in Binding :
          /\ Committed(s, {}, {<<"binding">>})
          /\ db' = [db EXCEPT !.binding = b]
          /\ edits' = edits + 1
          /\ UNCHANGED <<book, unlogged>>
    BY DEF Rebind
  <1>2. db'.reqs = db.reqs /\ db'.items = db.items /\ db' \in Database
    BY <1>1 DEF TypeOK, Database
  <1>3. SnapshotInv'
    BY <1>1, <1>2, CommitKeepsSnapshots
  <1>4. tx' \in [Session -> SUBSET Database] /\ edits' \in Nat
    BY <1>1 DEF Committed, TypeOK
  <1>5. OneAtATime
    BY <1>2 DEF OneAtATime, Untouched
  <1> QED BY <1>1, <1>2, <1>3, <1>4, <1>5 DEF StepFacts, TypeOK, ItemStep, RequestStep

(* The start and the rollback of a call, and stuttering.                   *)
LEMMA IdleStep ==
  ASSUME TypeOK, SnapshotInv,
         (\E s \in Session : Open(s) \/ Abort(s)) \/ UNCHANGED vars
  PROVE  StepFacts
  <1>1. UNCHANGED <<db, book, unlogged, edits>>
    BY DEF Open, Abort, vars
  <1>2. ASSUME NEW s \in Session, Open(s)
        PROVE  tx' \in [Session -> SUBSET Database] /\ SnapshotInv'
    BY <1>1, <1>2 DEF Open, Opened, TypeOK, SnapshotInv, SnapshotOf
  <1>3. ASSUME NEW s \in Session, Abort(s)
        PROVE  tx' \in [Session -> SUBSET Database] /\ SnapshotInv'
    BY <1>1, <1>3 DEF Abort, RolledBack, TypeOK, SnapshotInv, SnapshotOf
  <1>4. tx' \in [Session -> SUBSET Database] /\ SnapshotInv'
    BY <1>1, <1>2, <1>3 DEF vars, TypeOK, SnapshotInv, SnapshotOf
  <1>5. OneAtATime
    BY <1>1 DEF OneAtATime, Untouched
  <1> QED BY <1>1, <1>4, <1>5 DEF StepFacts, TypeOK, ItemStep, RequestStep

(* action_responsible_apply for an existing item.                          *)
LEMMA ApplyChangeStep ==
  ASSUME TypeOK, SnapshotInv, NEW s \in Session, ApplyChange(s)
  PROVE  StepFacts
  <1>1. PICK d \in tx[s], r \in Request, u \in User :
          LET q == d.reqs[r]
              i == q.item
              after == Patched(d.items[i], q.proposed) IN
          /\ i # NoItem
          /\ Appliable(d, q, u)
          /\ Exists(d, i)
          /\ Committed(s, {<<"req", r>>, <<"item", i>>}, {<<"req", r>>, <<"item", i>>})
          /\ db' = [db EXCEPT !.items[i] = after, !.reqs[r] = Applied(q, i)]
          /\ Logged(i, d.items[i], after)
          /\ UNCHANGED <<unlogged, edits>>
    BY DEF ApplyChange
  <1> DEFINE q == d.reqs[r]
             i == q.item
             after == Patched(d.items[i], q.proposed)
             n == Applied(q, i)
  <1>2. d \in Database /\ q \in RequestRecord /\ db \in Database
    BY DEF TypeOK, Database
  <1>3. i \in Item /\ q.proposed \in Partial
    BY <1>1, <1>2 DEF RequestRecord
  <1>4. q = db.reqs[r] /\ d.items[i] = db.items[i]
    <2>1. Committed(s, {<<"req", r>>, <<"item", i>>}, {<<"req", r>>, <<"item", i>>})
      BY <1>1
    <2> DEFINE rows == {<<"req", r>>, <<"item", i>>}
    <2>2. Committed(s, rows, rows) /\ <<"req", r>> \in rows
      BY <2>1
    <2> HIDE DEF rows
    <2>a. /\ \A m \in Request : <<"req", m>> \in rows => d.reqs[m] = db.reqs[m]
          /\ \A j \in Item : <<"item", j>> \in rows => d.items[j] = db.items[j]
      BY Zenon, <2>2, RowIsCurrent
    <2>b. q = db.reqs[r]
      BY <2>2, <2>a
    <2> USE DEF rows
    <2> HIDE DEF i
    <2>3. d.items[i] = db.items[i]
      BY <1>3, <2>a
    <2> QED BY <2>b, <2>3
  <1>5. d.items[i] \in Content /\ after \in Content
    BY <1>1, <1>2, <1>3, ExistsType, PatchedType
  <1>6. n \in RequestRecord
    BY <1>2, <1>3, StateType DEF Applied, States
  <1>7. n.target = i
    BY <1>2 DEF Applied, RequestRecord
  <1>8. q.base = db.items[i] /\ q.state = "approved"
    BY <1>1, <1>4 DEF Appliable, CandidateStands, CurrentValues
  <1>9. CurrentValues(db, q) = db.items[i]
    BY <1>1 DEF CurrentValues
  <1> HIDE DEF n, after, i, q
  <1>10. /\ db'.items[i] = after /\ db'.reqs[r] = n /\ db' \in Database
         /\ \A j \in Item \ {i} : db'.items[j] = db.items[j]
         /\ \A m \in Request \ {r} : db'.reqs[m] = db.reqs[m]
    BY <1>1, <1>2, <1>3, <1>5, <1>6 DEF Database, n, after, i, q
  <1>11. Realised(db.reqs[r], db'.reqs[r])
    BY <1>1, <1>3, <1>4, <1>5, <1>7, <1>8, <1>9, <1>10 DEF Realised, n, after, i, q
  <1>12. SnapshotInv'
    <2>1. Committed(s, {<<"req", r>>, <<"item", i>>}, {<<"req", r>>, <<"item", i>>})
      BY <1>1 DEF i, q
    <2>2. \A m \in Request : <<"req", m>> \notin {<<"req", r>>, <<"item", i>>} => m # r
      OBVIOUS
    <2>3. \A j \in Item : <<"item", j>> \notin {<<"req", r>>, <<"item", i>>} => j # i
      OBVIOUS
    <2> QED BY <1>4, <1>8, <1>10, <2>1, <2>2, <2>3, CommitKeepsSnapshots
  <1>13. tx' \in [Session -> SUBSET Database] /\ edits' \in Nat
    BY <1>1 DEF Committed, TypeOK
  <1>14. book' = [book EXCEPT ![i] = [before |-> db.items[i], after |-> after]]
    BY <1>1, <1>4 DEF Logged, i, after, q
  <1>15. \A m \in Request : RequestStep(db.reqs[m], db'.reqs[m])
    BY <1>10, <1>11 DEF RequestStep
  <1>16. \A j \in Item : ItemStep(j)
    BY <1>10, <1>14 DEF ItemStep, TypeOK
  <1>17. unlogged' = unlogged
    BY <1>1
  <1>18. TypeOK'
    BY <1>3, <1>4, <1>5, <1>10, <1>13, <1>14, <1>17 DEF TypeOK
  <1>19. OneAtATime
    BY <1>7, <1>10, <1>11 DEF OneAtATime, Untouched
  <1> QED BY <1>12, <1>15, <1>16, <1>17, <1>18, <1>19 DEF StepFacts


(* action_responsible_apply for a new item.                                *)
LEMMA ApplyCreationStep ==
  ASSUME TypeOK, SnapshotInv, OutsetInv, NEW s \in Session, ApplyCreation(s)
  PROVE  StepFacts
  <1>1. PICK d \in tx[s], r \in Request, u \in User, i \in Item :
          LET q == d.reqs[r] IN
          /\ q.item = NoItem
          /\ Appliable(d, q, u)
          /\ ~Exists(db, i)
          /\ Committed(s, {<<"req", r>>}, {<<"req", r>>, <<"item", i>>})
          /\ db' = [db EXCEPT !.items[i] = q.proposed, !.reqs[r] = Applied(q, i)]
          /\ Logged(i, NoValues, q.proposed)
          /\ UNCHANGED <<unlogged, edits>>
    BY DEF ApplyCreation
  <1> DEFINE q == d.reqs[r]
             n == Applied(q, i)
  <1>2. d \in Database /\ q \in RequestRecord /\ db \in Database
    BY DEF TypeOK, Database
  <1>3. q = db.reqs[r]
    BY <1>1, RowIsCurrent
  <1>4. q.state = "approved" /\ q.item = NoItem /\ q.base = CurrentValues(db, q)
    BY <1>1 DEF Appliable, CandidateStands, CurrentValues
  <1>8. db.items[i] = q.base
    BY <1>1, <1>4 DEF Exists, CurrentValues
  <1>5. q.proposed \in Content
    BY <1>3, <1>4, MenuAssumption DEF OutsetInv, Outset
  <1>6. n \in RequestRecord
    BY <1>2, StateType DEF Applied, States
  <1>7. n.target = i
    BY <1>2 DEF Applied, RequestRecord
  <1> HIDE DEF n, q
  <1>10. /\ db'.items[i] = q.proposed /\ db'.reqs[r] = n /\ db' \in Database
         /\ \A j \in Item \ {i} : db'.items[j] = db.items[j]
         /\ \A m \in Request \ {r} : db'.reqs[m] = db.reqs[m]
    BY <1>1, <1>2, <1>5, <1>6 DEF Database, n, q
  <1>11. Realised(db.reqs[r], db'.reqs[r])
    BY <1>1, <1>3, <1>4, <1>7, <1>8, <1>10 DEF Realised, n
  <1>12. SnapshotInv'
    <2>1. Committed(s, {<<"req", r>>}, {<<"req", r>>, <<"item", i>>})
      BY <1>1
    <2>2. \A m \in Request : <<"req", m>> \notin {<<"req", r>>, <<"item", i>>} => m # r
      OBVIOUS
    <2>3. \A j \in Item : <<"item", j>> \notin {<<"req", r>>, <<"item", i>>} => j # i
      OBVIOUS
    <2> QED BY <1>3, <1>4, <1>10, <2>1, <2>2, <2>3, CommitKeepsSnapshots
  <1>13. tx' \in [Session -> SUBSET Database] /\ edits' \in Nat
    BY <1>1 DEF Committed, TypeOK
  <1>14. book' = [book EXCEPT ![i] = [before |-> NoValues, after |-> q.proposed]]
    BY <1>1 DEF Logged, q
  <1>15. \A m \in Request : RequestStep(db.reqs[m], db'.reqs[m])
    BY <1>10, <1>11 DEF RequestStep
  <1>16. \A j \in Item : ItemStep(j)
    BY <1>1, <1>10, <1>14 DEF ItemStep, TypeOK, Exists
  <1>17. unlogged' = unlogged
    BY <1>1
  <1>18. TypeOK'
    BY <1>5, <1>10, <1>13, <1>14, <1>17 DEF TypeOK
  <1>19. OneAtATime
    BY <1>7, <1>10, <1>11 DEF OneAtATime, Untouched
  <1> QED BY <1>12, <1>15, <1>16, <1>17, <1>18, <1>19 DEF StepFacts
-----------------------------------------------------------------------------
(* A change that was applied replaced an item it had the base of.          *)
AppliedInv ==
  \A r \in Request :
    db.reqs[r].state = "applied" /\ db.reqs[r].item # NoItem
      => db.reqs[r].base \in Content

(* A reversal proposes the base of an applied change, and stands on what   *)
(* that change made of the item.                                           *)
ReversalOf(q) ==
  LET o == db.reqs[q.reverses] IN
  /\ q.reverses \in Request
  /\ q.state \notin {"none", "draft"} /\ q.item # NoItem
  /\ o.state = "applied" /\ o.item = q.item /\ o.base \in Content
  /\ q.proposed = [f \in DOMAIN o.proposed |-> o.base[f]]
  /\ q.base = Patched(o.base, o.proposed)

ReversalInv ==
  \A r \in Request : db.reqs[r].reverses # 0 => ReversalOf(db.reqs[r])

(* The last event of an item written by the menu surface alone ends at it. *)
AuditInv == \A i \in Item \ unlogged : book[i].after = db.items[i]

IInv ==
  /\ TypeOK /\ SnapshotInv /\ OutsetInv /\ AppliedInv /\ ReversalInv /\ AuditInv
  /\ ConfirmedBySubmitter

(* Every step is one of those of RequestStep and ItemStep.                 *)
LEMMA EveryStep == IInv /\ [Next]_vars => StepFacts
  <1> SUFFICES ASSUME IInv, [Next]_vars PROVE StepFacts
    OBVIOUS
  <1> USE DEF IInv
  <1>1. CASE UNCHANGED vars
    BY <1>1, IdleStep
  <1>2. ASSUME NEW s \in Session, Open(s) \/ Abort(s) PROVE StepFacts
    BY <1>2, IdleStep
  <1>3. ASSUME NEW s \in Session,
               CreateDraft(s) \/ EditDraft(s) \/ WriteNote(s) \/ Submit(s)
        PROVE  StepFacts
    BY <1>3, CreateDraftStep, EditDraftStep, WriteNoteStep, SubmitStep
  <1>4. ASSUME NEW s \in Session, Approve(s) \/ ApplyChange(s) \/ ApplyCreation(s)
        PROVE  StepFacts
    BY <1>4, ApproveStep, ApplyChangeStep, ApplyCreationStep
  <1>5. ASSUME NEW s \in Session, PrepareReversal(s) \/ Reject(s) \/ DeadLetter(s)
        PROVE  StepFacts
    BY <1>5, PrepareReversalStep, EndStep DEF AppliedInv
  <1>6. ASSUME NEW s \in Session,
               DirectEdit(s) \/ DirectCreate(s) \/ OtherWrite(s) \/ Rebind(s)
        PROVE  StepFacts
    BY <1>6, DirectEditStep, DirectCreateStep, OtherWriteStep, RebindStep
  <1> QED BY <1>1, <1>2, <1>3, <1>4, <1>5, <1>6 DEF Next

(* A submitted request keeps its evidence, an applied one everything.      *)
LEMMA FrozenStep ==
  ASSUME NEW old \in RequestRecord, NEW new \in RequestRecord, RequestStep(old, new)
  PROVE  /\ old.state \notin {"none", "draft"} => Evidence(new) = Evidence(old)
         /\ old.state = "applied" => new = old
  <1>1. CASE Born(old, new) \/ Reversal(old, new)
    BY <1>1 DEF Born, Reversal, NoRequest
  <1>2. CASE Edited(old, new) \/ Sent(old, new)
    BY <1>2 DEF Edited, Sent
  <1>3. CASE Noted(old, new)
    <2>1. old.state # "applied"
      BY <1>3 DEF Noted
    <2>2. new = [old EXCEPT !.noted = TRUE]
      BY <1>3 DEF Noted
    <2>3. Evidence(new) = Evidence(old)
      BY <2>2 DEF Evidence, RequestRecord
    <2> QED BY <2>1, <2>3
  <1>4. CASE Approved(old, new)
    BY <1>4 DEF Approved, Evidence, RequestRecord
  <1>5. CASE Realised(old, new)
    <2>1. PICK i : new = [old EXCEPT !.state = "applied", !.target = i]
      BY <1>5 DEF Realised, Applied
    <2>2. old.state # "applied"
      BY <1>5 DEF Realised
    <2> QED BY <2>1, <2>2 DEF Evidence, RequestRecord
  <1>6. CASE Ended(old, new)
    <2>1. \/ new = [old EXCEPT !.state = "dead_letter"]
          \/ \E u \in User : new = [old EXCEPT !.state = "rejected", !.approver = u]
      BY <1>6 DEF Ended
    <2>2. old.state # "applied"
      BY <1>6 DEF Ended
    <2> QED BY <2>1, <2>2 DEF Evidence, RequestRecord
  <1> QED BY <1>1, <1>2, <1>3, <1>4, <1>5, <1>6 DEF RequestStep

(* The requests and the items of a step are well typed.                    *)
LEMMA RecordsAreTyped ==
  ASSUME TypeOK, NEW r \in Request
  PROVE  db.reqs[r] \in RequestRecord
  BY DEF TypeOK, Database

(* OutsetInv is preserved.                                                 *)
LEMMA OutsetStep == IInv /\ StepFacts => OutsetInv'
  <1> SUFFICES ASSUME IInv, StepFacts, NEW r \in Request, db'.reqs[r].state # "none"
               PROVE  Outset(db'.reqs[r])
    BY DEF OutsetInv
  <1> DEFINE old == db.reqs[r]
             new == db'.reqs[r]
  <1>1. old \in RequestRecord /\ RequestStep(old, new)
    BY RecordsAreTyped DEF IInv, StepFacts
  <1>2. old.state # "none" => Outset(old)
    BY DEF IInv, OutsetInv
  <1> HIDE DEF old, new
  <1>3. CASE Born(old, new) \/ Reversal(old, new) \/ Edited(old, new)
    BY <1>3 DEF Born, Reversal, Edited, Outset, new
  <1>4. CASE \/ new = old \/ Noted(old, new) \/ Sent(old, new) \/ Approved(old, new)
             \/ Realised(old, new) \/ Ended(old, new)
    <2>1. new.item = old.item /\ new.proposed = old.proposed /\ old.state # "none"
      BY <1>1, <1>4 DEF Noted, Sent, Approved, Realised, Ended, Applied, RequestRecord, new
    <2> QED BY <1>2, <2>1 DEF Outset, new
  <1> QED BY <1>1, <1>3, <1>4 DEF RequestStep

(* ConfirmedBySubmitter is preserved.                                      *)
LEMMA ConfirmedStep == IInv /\ StepFacts => ConfirmedBySubmitter'
  <1> SUFFICES ASSUME IInv, StepFacts, NEW r \in Request,
                      db'.reqs[r].state \in {"approved", "applied"}
               PROVE  LET q == db'.reqs[r] IN
                      /\ q.approver = q.requester /\ q.reviewer = q.requester
                      /\ q.seal = {[person |-> q.person, dual |-> TRUE]}
    BY DEF ConfirmedBySubmitter
  <1> DEFINE old == db.reqs[r]
             new == db'.reqs[r]
  <1>1. old \in RequestRecord /\ RequestStep(old, new)
    BY RecordsAreTyped DEF IInv, StepFacts
  <1>2. old.state \in {"approved", "applied"} =>
          /\ old.approver = old.requester /\ old.reviewer = old.requester
          /\ old.seal = {[person |-> old.person, dual |-> TRUE]}
    BY DEF IInv, ConfirmedBySubmitter
  <1>3. new.state \in {"approved", "applied"}
    OBVIOUS
  <1> HIDE DEF old, new
  <1>4. CASE new = old
    BY <1>2, <1>3, <1>4 DEF new
  <1>5. CASE Approved(old, new)
    BY <1>1, <1>5 DEF Approved, Seal, RequestRecord, new
  <1>6. CASE Realised(old, new)
    BY <1>1, <1>2, <1>6 DEF Realised, Applied, RequestRecord, new
  <1>7. ~Born(old, new) /\ ~Reversal(old, new) /\ ~Edited(old, new) /\ ~Noted(old, new)
        /\ ~Sent(old, new) /\ ~Ended(old, new)
    BY <1>1, <1>3 DEF Born, Reversal, Edited, Noted, Sent, Ended, RequestRecord
  <1> QED BY <1>1, <1>4, <1>5, <1>6, <1>7 DEF RequestStep

(* AppliedInv is preserved.                                                *)
LEMMA AppliedStep == IInv /\ StepFacts => AppliedInv'
  <1> SUFFICES ASSUME IInv, StepFacts, NEW r \in Request,
                      db'.reqs[r].state = "applied", db'.reqs[r].item # NoItem
               PROVE  db'.reqs[r].base \in Content
    BY DEF AppliedInv
  <1> DEFINE old == db.reqs[r]
             new == db'.reqs[r]
  <1>1. old \in RequestRecord /\ RequestStep(old, new)
    BY RecordsAreTyped DEF IInv, StepFacts
  <1>2. old.state = "applied" /\ old.item # NoItem => old.base \in Content
    BY DEF IInv, AppliedInv
  <1>3. new.state = "applied" /\ new.item # NoItem
    OBVIOUS
  <1> HIDE DEF old, new
  <1>4. CASE new = old
    BY <1>2, <1>3, <1>4 DEF new
  <1>5. CASE Realised(old, new)
    BY <1>1, <1>3, <1>5 DEF Realised, Applied, RequestRecord, new
  <1>6. ~Born(old, new) /\ ~Reversal(old, new) /\ ~Edited(old, new) /\ ~Noted(old, new)
        /\ ~Sent(old, new) /\ ~Approved(old, new) /\ ~Ended(old, new)
    BY <1>1, <1>3 DEF Born, Reversal, Edited, Noted, Sent, Approved, Ended, RequestRecord
  <1> QED BY <1>1, <1>4, <1>5, <1>6 DEF RequestStep

(* ReversalInv is preserved.                                               *)
LEMMA ReversalStep == IInv /\ StepFacts => ReversalInv'
  <1> SUFFICES ASSUME IInv, StepFacts, NEW r \in Request, db'.reqs[r].reverses # 0
               PROVE  ReversalOf(db.reqs[r])'
    BY DEF ReversalInv
  <1> DEFINE old == db.reqs[r]
             new == db'.reqs[r]
  <1>1. /\ old \in RequestRecord /\ new \in RequestRecord
        /\ RequestStep(old, new)
    BY RecordsAreTyped DEF IInv, StepFacts, TypeOK, Database
  <1>2. \A m \in Request : db.reqs[m].state = "applied" => db'.reqs[m] = db.reqs[m]
    BY FrozenStep, RecordsAreTyped DEF IInv, StepFacts, TypeOK, Database
  <1>3. old.reverses # 0 => ReversalOf(old)
    BY DEF IInv, ReversalInv
  <1>4. new.reverses # 0
    OBVIOUS
  <1>5. AppliedInv
    BY DEF IInv
  <1> HIDE DEF old, new
  <1>6. CASE Reversal(old, new)
    <2>1. PICK m \in Request :
            LET q == db.reqs[m] IN
            /\ new.reverses = m
            /\ q.state = "applied" /\ q.item = new.item
            /\ new.proposed = [f \in DOMAIN q.proposed |-> q.base[f]]
            /\ new.base = Patched(q.base, q.proposed)
      BY <1>6 DEF Reversal
    <2>2. new.item # NoItem /\ new.state = "pending_responsible_review"
      BY <1>6 DEF Reversal
    <2> QED BY <1>2, <1>5, <2>1, <2>2 DEF ReversalOf, AppliedInv, new
  <1>7. CASE ~Reversal(old, new)
    <2>1. ~Born(old, new)
      BY <1>4 DEF Born
    <2>2. new.reverses = old.reverses
      <3>1. CASE new = old
        BY <3>1
      <3>2. CASE Edited(old, new) \/ Sent(old, new)
        BY <3>2 DEF Edited, Sent
      <3>3. CASE Noted(old, new)
        BY <1>1, <3>3 DEF Noted, RequestRecord
      <3>4. CASE Approved(old, new)
        BY <1>1, <3>4 DEF Approved, RequestRecord
      <3>5. CASE Realised(old, new)
        <4>1. new = Applied(old, new.target)
          BY <3>5 DEF Realised
        <4> QED BY <1>1, <4>1 DEF Applied, RequestRecord
      <3>6. CASE Ended(old, new)
        BY <1>1, <3>6 DEF Ended, RequestRecord
      <3> QED BY <1>1, <1>7, <2>1, <3>1, <3>2, <3>3, <3>4, <3>5, <3>6 DEF RequestStep
    <2>3. ReversalOf(old) /\ old.state \notin {"none", "draft"}
      BY <1>3, <1>4, <2>2 DEF ReversalOf
    <2>4. Evidence(new) = Evidence(old)
      BY <1>1, <2>3, FrozenStep
    <2>5. /\ new.item = old.item /\ new.proposed = old.proposed /\ new.base = old.base
      BY <2>4 DEF Evidence
    <2>6. new.state \notin {"none", "draft"}
      <3>1. CASE new = old
        BY <2>3, <3>1
      <3>2. ~Edited(old, new) /\ ~Sent(old, new)
        BY <2>3 DEF Edited, Sent
      <3>3. CASE Noted(old, new)
        BY <1>1, <2>3, <3>3 DEF Noted, RequestRecord
      <3>4. CASE Approved(old, new)
        BY <1>1, <3>4 DEF Approved, RequestRecord
      <3>5. CASE Realised(old, new)
        <4>1. new = Applied(old, new.target)
          BY <3>5 DEF Realised
        <4> QED BY <1>1, <4>1 DEF Applied, RequestRecord
      <3>6. CASE Ended(old, new)
        BY <1>1, <3>6 DEF Ended, RequestRecord
      <3> QED BY <1>1, <1>7, <2>1, <3>1, <3>2, <3>3, <3>4, <3>5, <3>6 DEF RequestStep
    <2> QED BY <1>2, <2>2, <2>3, <2>5, <2>6 DEF ReversalOf, new
  <1> QED BY <1>6, <1>7

(* AuditInv is preserved.                                                  *)
LEMMA AuditStep == IInv /\ StepFacts => AuditInv'
  BY DEF IInv, StepFacts, ItemStep, AuditInv, TypeOK

(* The initial states satisfy the invariant.                               *)
LEMMA InitIInv == Init => IInv
  <1> SUFFICES ASSUME Init PROVE IInv
    OBVIOUS
  <1>1. PICK present \in SUBSET Item, c \in NewItem, b \in Binding :
          db = [items   |-> [i \in Item |-> IF i \in present THEN c ELSE NoValues],
                reqs    |-> [r \in Request |-> NoRequest],
                binding |-> b]
    BY DEF Init
  <1>2. db \in Database
    BY <1>1, NoRequestType, MenuAssumption DEF Database
  <1>3. TypeOK
    BY <1>2 DEF Init, NoTransaction, TypeOK, Database
  <1>4. SnapshotInv
    BY DEF Init, NoTransaction, SnapshotInv
  <1>5. \A r \in Request : db.reqs[r] = NoRequest
    BY <1>1
  <1>6. OutsetInv /\ AppliedInv /\ ReversalInv /\ ConfirmedBySubmitter
    BY <1>5 DEF OutsetInv, AppliedInv, ReversalInv, ConfirmedBySubmitter, NoRequest
  <1>7. AuditInv
    BY DEF Init, AuditInv
  <1> QED BY <1>3, <1>4, <1>6, <1>7 DEF IInv

(* Every step preserves the invariant.                                     *)
LEMMA StepIInv == IInv /\ [Next]_vars => IInv'
  BY EveryStep, OutsetStep, ConfirmedStep, AppliedStep, ReversalStep, AuditStep
  DEF IInv, StepFacts

(* The invariant holds in every reachable state.                           *)
LEMMA Inductive == Spec => []IInv
  BY InitIInv, StepIInv, PTL DEF Spec

-----------------------------------------------------------------------------
(* The database and every open snapshot of it keep their types.            *)
THEOREM TypeCorrect == Spec => []TypeOK
  <1>1. IInv => TypeOK
    BY DEF IInv
  <1> QED BY <1>1, Inductive, PTL

(* An approved or applied change was drafted, reviewed and approved by the *)
(* account its sealed candidate names.                                     *)
THEOREM SubmitterConfirms == Spec => []ConfirmedBySubmitter
  <1>1. IInv => ConfirmedBySubmitter
    BY DEF IInv
  <1> QED BY <1>1, Inductive, PTL

(* Revalidating under the lock applies a change to the reviewed item only. *)
THEOREM AppliesWhatWasReviewed == Spec => AppliedOnReviewedBase
  <1>1. IInv /\ [Next]_vars =>
          [\A r \in Request :
             LET q == db.reqs[r] IN
             BecomesApplied(r) =>
               /\ q.base = CurrentValues(db, q)
               /\ db'.items[db'.reqs[r].target] = Patched(q.base, q.proposed)]_vars
    <2> SUFFICES ASSUME IInv, [Next]_vars, NEW r \in Request, BecomesApplied(r)
                 PROVE  LET q == db.reqs[r] IN
                        /\ q.base = CurrentValues(db, q)
                        /\ db'.items[db'.reqs[r].target] = Patched(q.base, q.proposed)
      OBVIOUS
    <2> DEFINE q == db.reqs[r]
    <2>1. q \in RequestRecord /\ RequestStep(q, db'.reqs[r])
      BY EveryStep, RecordsAreTyped DEF IInv, StepFacts
    <2>2. Realised(q, db'.reqs[r])
      BY <2>1 DEF BecomesApplied, RequestStep, Born, Reversal, Edited, Noted, Sent,
                  Approved, Ended, RequestRecord
    <2>3. CASE q.item # NoItem
      BY <2>2, <2>3 DEF Realised
    <2>4. CASE q.item = NoItem
      <3>1. q.state = "approved" /\ q.base = NoValues
        BY <2>2, <2>4 DEF Realised, CurrentValues
      <3>2. q.proposed \in Content
        BY <2>4, <3>1, MenuAssumption DEF IInv, OutsetInv, Outset
      <3>3. Patched(NoValues, q.proposed) = q.proposed
        BY <3>2 DEF Patched, Content
      <3> QED BY <2>2, <2>4, <3>1, <3>3 DEF Realised
    <2> QED BY <2>3, <2>4
  <1> QED BY <1>1, Inductive, PTL DEF Spec, AppliedOnReviewedBase

(* Applying a reversal restores the item, because both changes it spans    *)
(* are frozen and its base is checked again.                               *)
THEOREM ReversalsRestore == Spec => ReversalRestores
  <1>1. IInv /\ [Next]_vars =>
          [\A r \in Request :
             LET q == db.reqs[r] IN
             BecomesApplied(r) /\ q.reverses # 0 =>
               db'.items[q.item] = db.reqs[q.reverses].base]_vars
    <2> SUFFICES ASSUME IInv, [Next]_vars, NEW r \in Request,
                        BecomesApplied(r), db.reqs[r].reverses # 0
                 PROVE  db'.items[db.reqs[r].item] = db.reqs[db.reqs[r].reverses].base
      OBVIOUS
    <2> DEFINE q == db.reqs[r]
               o == db.reqs[q.reverses]
    <2>1. q \in RequestRecord /\ RequestStep(q, db'.reqs[r])
      BY EveryStep, RecordsAreTyped DEF IInv, StepFacts
    <2>2. Realised(q, db'.reqs[r])
      BY <2>1 DEF BecomesApplied, RequestStep, Born, Reversal, Edited, Noted, Sent,
                  Approved, Ended, RequestRecord
    <2>3. ReversalOf(q)
      BY DEF IInv, ReversalInv
    <2>4. o \in RequestRecord /\ o.base \in Content /\ o.proposed \in Partial
      BY <2>3, RecordsAreTyped DEF ReversalOf, IInv, RequestRecord
    <2>5. db'.items[q.item] = Patched(Patched(o.base, o.proposed),
                                      [f \in DOMAIN o.proposed |-> o.base[f]])
      BY <2>2, <2>3 DEF Realised, ReversalOf
    <2>6. ASSUME NEW b \in Content, NEW p \in Partial
          PROVE  Patched(Patched(b, p), [f \in DOMAIN p |-> b[f]]) = b
      BY <2>6 DEF Patched, Content
    <2> QED BY <2>4, <2>5, <2>6
  <1> QED BY <1>1, Inductive, PTL DEF Spec, ReversalRestores

(* A call in flight cannot alter a submitted request: it would write a row *)
(* that was written since its snapshot.                                    *)
THEOREM EvidenceStaysFrozen == Spec => EvidenceFrozen
  <1>1. IInv /\ [Next]_vars =>
          [\A r \in Request :
             /\ db.reqs[r].state \notin {"none", "draft"}
                  => Evidence(db'.reqs[r]) = Evidence(db.reqs[r])
             /\ db.reqs[r].state = "applied" => db'.reqs[r] = db.reqs[r]]_vars
    BY EveryStep, FrozenStep, RecordsAreTyped DEF IInv, StepFacts, TypeOK, Database
  <1> QED BY <1>1, Inductive, PTL DEF Spec, EvidenceFrozen

(* Every event of the menu surface starts where the last one ended.        *)
THEOREM EventbookReplays == Spec => AuditReplays
  <1>1. IInv /\ [Next]_vars =>
          [\A i \in Item \ unlogged' :
             /\ book'[i] # book[i] => book'[i].before = book[i].after
             /\ book'[i].after = db'.items[i]]_vars
    <2> SUFFICES ASSUME IInv, [Next]_vars, NEW i \in Item \ unlogged'
                 PROVE  /\ book'[i] # book[i] => book'[i].before = book[i].after
                        /\ book'[i].after = db'.items[i]
      OBVIOUS
    <2>1. StepFacts
      BY EveryStep
    <2>2. i \notin unlogged /\ book[i].after = db.items[i]
      BY <2>1 DEF StepFacts, IInv, AuditInv
    <2>3. ItemStep(i)
      BY <2>1 DEF StepFacts
    <2>4. CASE db'.items[i] = db.items[i] /\ book'[i] = book[i]
      BY <2>2, <2>4
    <2>5. CASE book'[i] = [before |-> db.items[i], after |-> db'.items[i]]
      BY <2>2, <2>5
    <2> QED BY <2>3, <2>4, <2>5 DEF ItemStep
  <1> QED BY <1>1, Inductive, PTL DEF Spec, AuditReplays

-----------------------------------------------------------------------------
(* The workflow implements MenuSpec.                                       *)

Submission(state) == state \notin {"none", "draft"}

(* What a case shows of a request.                                         *)
LEMMA CaseFields ==
  ASSUME NEW q, Submission(q.state)
  PROVE  /\ CaseOf(q) = [phase |-> PhaseOf(q.state), origin |-> q.origin,
                         requester |-> q.requester, item |-> q.item,
                         proposed |-> q.proposed, base |-> q.base, seal |-> q.seal,
                         reviewer |-> q.reviewer, person |-> q.person,
                         reverses |-> q.reverses]
         /\ CaseOf(q).phase = PhaseOf(q.state)
  BY DEF CaseOf, Submission

(* A step that leaves the evidence shows in the phase of the case only.    *)
LEMMA CaseMoves ==
  ASSUME NEW old, NEW new, Submission(old.state), Submission(new.state),
         Evidence(new) = Evidence(old)
  PROVE  CaseOf(new) = [CaseOf(old) EXCEPT !.phase = PhaseOf(new.state)]
  <1>1. /\ new.origin = old.origin /\ new.requester = old.requester
        /\ new.item = old.item /\ new.proposed = old.proposed /\ new.base = old.base
        /\ new.seal = old.seal /\ new.reviewer = old.reviewer
        /\ new.person = old.person /\ new.reverses = old.reverses
    BY DEF Evidence
  <1> QED
    BY <1>1, CaseFields

(* The phases a request goes through.                                      *)
LEMMA Phases ==
  /\ PhaseOf("pending_responsible_review") = "submitted"
  /\ PhaseOf("approved") = "approved" /\ PhaseOf("applied") = "applied"
  /\ PhaseOf("rejected") = "closed" /\ PhaseOf("dead_letter") = "closed"
  BY DEF PhaseOf

(* The cases after a step that writes request r alone.                     *)
LEMMA OneCase ==
  ASSUME NEW r \in Request, NEW I, Untouched({r}, I)
  PROVE  /\ Cases' = [Cases EXCEPT ![r] = CaseOf(db'.reqs[r])]
         /\ Cases[r] = CaseOf(db.reqs[r]) /\ Cases'[r] = CaseOf(db'.reqs[r])
  BY DEF Untouched, Cases

(* The items after a step that writes item i alone.                        *)
LEMMA OneItem ==
  ASSUME TypeOK, TypeOK', NEW R, NEW i \in Item, Untouched(R, {i})
  PROVE  db'.items = [db.items EXCEPT ![i] = db'.items[i]]
  BY DEF TypeOK, Database, Untouched

LEMMA SameItems ==
  ASSUME TypeOK, TypeOK', NEW R, Untouched(R, {})
  PROVE  db'.items = db.items
  BY DEF TypeOK, Database, Untouched

LEMMA InitIsPromised == Init => Promise!Init
  <1> SUFFICES ASSUME Init PROVE Promise!Init
    OBVIOUS
  <1>1. PICK present \in SUBSET Item, c \in NewItem, b \in Binding :
          db = [items   |-> [i \in Item |-> IF i \in present THEN c ELSE NoValues],
                reqs    |-> [r \in Request |-> NoRequest],
                binding |-> b]
    BY DEF Init
  <1>2. db.items = [i \in Item |-> db.items[i]]
    BY <1>1
  <1>3. Cases = [r \in Request |-> [phase |-> "none"]]
    BY <1>1 DEF Cases, CaseOf, NoRequest
  <1> QED
    BY <1>2, <1>3 DEF Promise!Init, Promise!NoCase

(* A draft becomes a case by a submission, a prepared reversal, or the     *)
(* dead letter.                                                            *)
LEMMA EntersAsCase ==
  ASSUME IInv, NEW old \in RequestRecord, NEW new \in RequestRecord,
         old.reverses # 0 => Submission(old.state), RequestStep(old, new),
         ~Submission(old.state), Submission(new.state)
  PROVE  /\ CaseOf(old) = [phase |-> "none"]
         /\ CaseOf(new).phase \in {"submitted", "closed"}
         /\ CaseOf(new).reverses # 0 =>
              \E o \in Request : /\ o = CaseOf(new).reverses
                                 /\ Promise!Reverses(CaseOf(new), CaseOf(db.reqs[o]))
  <1>1. CaseOf(old) = [phase |-> "none"]
    BY DEF CaseOf, Submission
  <1>2. /\ CaseOf(new).phase = PhaseOf(new.state) /\ CaseOf(new).reverses = new.reverses
        /\ CaseOf(new).item = new.item /\ CaseOf(new).base = new.base
        /\ CaseOf(new).proposed = new.proposed
    BY CaseFields
  <1>3. CASE Reversal(old, new)
    <2>1. PICK o \in Request :
            LET q == db.reqs[o] IN
            /\ new.reverses = o
            /\ q.state = "applied" /\ q.item = new.item
            /\ new.proposed = [f \in DOMAIN q.proposed |-> q.base[f]]
            /\ new.base = Patched(q.base, q.proposed)
      BY <1>3 DEF Reversal
    <2>2. new.item # NoItem /\ new.state = "pending_responsible_review"
      BY <1>3 DEF Reversal
    <2> DEFINE q == db.reqs[o]
    <2>3. /\ CaseOf(q).phase = "applied" /\ CaseOf(q).item = q.item
          /\ CaseOf(q).base = q.base /\ CaseOf(q).proposed = q.proposed
      BY <2>1, CaseFields, Phases DEF Submission
    <2>4. Promise!Reverses(CaseOf(new), CaseOf(q))
      BY <1>2, <2>1, <2>2, <2>3 DEF Promise!Reverses, Promise!Patched, Patched
    <2> QED
      BY <1>1, <1>2, <2>1, <2>2, <2>4, Phases
  <1>4. CASE Sent(old, new)
    <2>1. new.state = "pending_responsible_review" /\ new.reverses = 0
      BY <1>4 DEF Sent
    <2> QED
      BY <1>1, <1>2, <2>1, Phases
  <1>5. CASE Ended(old, new)
    <2>1. new.state \in {"dead_letter", "rejected"} /\ new.reverses = old.reverses
      BY <1>5 DEF Ended, RequestRecord
    <2> QED
      BY <1>1, <1>2, <2>1, Phases
  <1> QED
    BY <1>3, <1>4, <1>5 DEF RequestStep, Born, Edited, Noted, Approved, Realised,
      Submission, RequestRecord

(* A step of one request, other than its realisation.                      *)
LEMMA RequestIsPromised ==
  ASSUME IInv, TypeOK', NEW r \in Request, Untouched({r}, {}),
         RequestStep(db.reqs[r], db'.reqs[r]), ~Realised(db.reqs[r], db'.reqs[r])
  PROVE  [Promise!Next]_(Promise!specVars)
  <1> DEFINE old == db.reqs[r]
             new == db'.reqs[r]
  <1>1. /\ old \in RequestRecord /\ new \in RequestRecord /\ RequestStep(old, new)
        /\ ~Realised(old, new)
    BY RecordsAreTyped DEF IInv, TypeOK, Database
  <1>2. db'.items = db.items
    BY SameItems DEF IInv
  <1>3. /\ Cases' = [Cases EXCEPT ![r] = CaseOf(new)]
        /\ Cases[r] = CaseOf(old) /\ Cases'[r] = CaseOf(new)
    BY OneCase
  <1>4. old.reverses # 0 => Submission(old.state)
    BY DEF IInv, ReversalInv, ReversalOf, Submission
  <1>5. \A o \in Request : Cases[o] = CaseOf(db.reqs[o])
    BY DEF Cases
  <1>6. CASE CaseOf(new) = CaseOf(old)
    <2>1. Cases' = Cases
      BY <1>3, <1>6 DEF Cases
    <2> QED
      BY <1>2, <2>1 DEF Promise!specVars
  <1> HIDE DEF old, new
  <1>7. CASE ~Submission(old.state) /\ ~Submission(new.state)
    BY <1>6, <1>7 DEF CaseOf, Submission
  <1>8. CASE ~Submission(old.state) /\ Submission(new.state)
    <2>1. Promise!Enter(r)
      BY <1>1, <1>2, <1>3, <1>4, <1>5, <1>8, EntersAsCase
        DEF Promise!Enter, Promise!NoCase
    <2> QED
      BY <2>1 DEF Promise!Next
  <1>9. CASE Submission(old.state)
    <2>1. Evidence(new) = Evidence(old)
      BY <1>1, <1>9, FrozenStep DEF Submission
    <2>2. CASE Approved(old, new)
      <3>1. new.state = "approved" /\ old.state = "pending_responsible_review"
            /\ old.reviewer = old.requester
        BY <1>1, <2>2 DEF Approved, RequestRecord
      <3>2. CaseOf(new) = [CaseOf(old) EXCEPT !.phase = "approved"]
        BY <2>1, <3>1, CaseMoves, Phases DEF Submission
      <3>3. /\ CaseOf(old).phase = "submitted"
            /\ CaseOf(old).reviewer = CaseOf(old).requester
        BY <1>9, <3>1, CaseFields, Phases
      <3>4. Promise!Approve(r)
        BY <1>2, <1>3, <3>2, <3>3 DEF Promise!Approve
      <3> QED
        BY <3>4 DEF Promise!Next
    <2>3. CASE Ended(old, new)
      <3>1. /\ new.state \in {"rejected", "dead_letter"}
            /\ old.state \in {"pending_responsible_review", "approved", "rejected",
                              "dead_letter"}
        BY <1>1, <1>9, <2>3 DEF Ended, RequestRecord, States, Submission
      <3>2. CaseOf(new) = [CaseOf(old) EXCEPT !.phase = "closed"]
        BY <1>9, <2>1, <3>1, CaseMoves, Phases DEF Submission
      <3>3. CASE old.state \in {"pending_responsible_review", "approved"}
        <4>1. CaseOf(old).phase \in {"submitted", "approved"}
          BY <1>9, <3>3, CaseFields, Phases
        <4>2. Promise!Close(r)
          BY <1>2, <1>3, <3>2, <4>1 DEF Promise!Close
        <4> QED
          BY <4>2 DEF Promise!Next
      <3>4. CASE old.state \in {"rejected", "dead_letter"}
        <4>1. CaseOf(new) = CaseOf(old)
          BY <1>9, <2>1, <3>1, <3>4, CaseMoves, CaseFields, Phases DEF Submission
        <4> QED
          BY <1>6, <4>1
      <3> QED
        BY <3>1, <3>3, <3>4
    <2>4. CASE new = old
      BY <1>6, <2>4
    <2>5. CASE Noted(old, new)
      <3>1. new.state = old.state
        BY <1>1, <2>5 DEF Noted, RequestRecord
      <3>2. CaseOf(new) = CaseOf(old)
        BY <1>9, <2>1, <3>1, CaseMoves, CaseFields
      <3> QED
        BY <1>6, <3>2
    <2> QED
      BY <1>1, <1>9, <2>2, <2>3, <2>4, <2>5
        DEF RequestStep, Born, Reversal, Edited, Sent, Submission, NoRequest
  <1> QED
    BY <1>7, <1>8, <1>9

(* An approved change is made on the item it was reviewed against.         *)
LEMMA RealisedIsPromised ==
  ASSUME IInv, TypeOK', NEW r \in Request, Realised(db.reqs[r], db'.reqs[r]),
         Untouched({r}, {db'.reqs[r].target})
  PROVE  Promise!Next
  <1> DEFINE old == db.reqs[r]
             new == db'.reqs[r]
             i == new.target
  <1>1. old \in RequestRecord /\ new \in RequestRecord /\ Realised(old, new)
    BY RecordsAreTyped DEF IInv, TypeOK, Database
  <1>2. i \in Item /\ db.items[i] = old.base /\ old.item \in {i, NoItem}
    BY <1>1 DEF Realised, RequestRecord
  <1>3. db'.items = [db.items EXCEPT ![i] = db'.items[i]]
    BY <1>2, OneItem DEF IInv
  <1>4. /\ Cases' = [Cases EXCEPT ![r] = CaseOf(new)]
        /\ Cases[r] = CaseOf(old)
    BY OneCase
  <1>5. old.state = "approved" /\ new = Applied(old, i)
    BY <1>1 DEF Realised
  <1>6. new.state = "applied" /\ Evidence(new) = Evidence(old)
    <2>1. RequestStep(old, new)
      BY <1>1 DEF RequestStep
    <2>2. Evidence(new) = Evidence(old)
      BY <1>1, <1>5, <2>1, FrozenStep
    <2> QED
      BY <1>1, <1>5, <2>2 DEF Applied, RequestRecord
  <1>7. old.item = NoItem => old.base = NoValues
    BY <1>1 DEF Realised, CurrentValues
  <1>8. db'.items[i] = Promise!Patched(old.base, old.proposed)
    <2>1. CASE old.item # NoItem
      BY <1>1, <2>1 DEF Realised, Promise!Patched, Patched
    <2>2. CASE old.item = NoItem
      <3>1. old.proposed \in Content
        BY <1>5, <2>2, MenuAssumption DEF IInv, OutsetInv, Outset
      <3>2. Promise!Patched(NoValues, old.proposed) = old.proposed
        BY <3>1 DEF Promise!Patched, Content
      <3> QED
        BY <1>1, <1>7, <2>2, <3>2 DEF Realised
    <2> QED
      BY <2>1, <2>2
  <1> HIDE DEF old, new, i
  <1>9. CaseOf(new) = [CaseOf(old) EXCEPT !.phase = "applied"]
    BY <1>5, <1>6, CaseMoves, Phases DEF Submission
  <1>10. /\ CaseOf(old).phase = "approved" /\ CaseOf(old).item = old.item
         /\ CaseOf(old).base = old.base /\ CaseOf(old).proposed = old.proposed
    BY <1>5, CaseFields, Phases DEF Submission
  <1>11. Promise!Apply(r, i)
    BY <1>2, <1>3, <1>4, <1>7, <1>8, <1>9, <1>10 DEF Promise!Apply
  <1> QED
    BY <1>2, <1>11 DEF Promise!Next

(* Every step of the workflow is a step of MenuSpec or changes nothing     *)
(* there.                                                                  *)
LEMMA StepIsPromised == IInv /\ [Next]_vars => [Promise!Next]_(Promise!specVars)
  <1> SUFFICES ASSUME IInv, [Next]_vars PROVE [Promise!Next]_(Promise!specVars)
    OBVIOUS
  <1>1. /\ TypeOK /\ TypeOK' /\ OneAtATime
        /\ \A r \in Request : RequestStep(db.reqs[r], db'.reqs[r])
    BY EveryStep DEF IInv, StepFacts
  <1>2. CASE Untouched({}, {})
    <2>1. db'.items = db.items
      BY <1>1, <1>2, SameItems
    <2>2. Cases' = Cases
      BY <1>2 DEF Untouched, Cases
    <2> QED
      BY <2>1, <2>2 DEF Promise!specVars
  <1>3. ASSUME NEW i \in Item, Untouched({}, {i})
        PROVE  [Promise!Next]_(Promise!specVars)
    <2>1. db'.items = [db.items EXCEPT ![i] = db'.items[i]]
      BY <1>1, <1>3, OneItem
    <2>2. Cases' = Cases
      BY <1>3 DEF Untouched, Cases
    <2>3. Promise!Write(i)
      BY <2>1, <2>2 DEF Promise!Write
    <2> QED
      BY <2>3 DEF Promise!Next
  <1>4. ASSUME NEW r \in Request, Untouched({r}, {})
        PROVE  [Promise!Next]_(Promise!specVars)
    <2>1. CASE Realised(db.reqs[r], db'.reqs[r])
      <3>1. Untouched({r}, {db'.reqs[r].target})
        BY <1>4 DEF Untouched
      <3> QED
        BY <1>1, <2>1, <3>1, RealisedIsPromised
    <2>2. CASE ~Realised(db.reqs[r], db'.reqs[r])
      BY <1>1, <1>4, <2>2, RequestIsPromised
    <2> QED
      BY <2>1, <2>2
  <1>5. ASSUME NEW r \in Request, Realised(db.reqs[r], db'.reqs[r]),
               Untouched({r}, {db'.reqs[r].target})
        PROVE  Promise!Next
    BY <1>1, <1>5, RealisedIsPromised
  <1> QED
    BY <1>1, <1>2, <1>3, <1>4, <1>5 DEF OneAtATime

(* However its calls interleave, the workflow keeps the promise of         *)
(* MenuSpec: what was submitted is what is approved, and what was approved *)
(* is what is applied, once, to the item it was reviewed against.          *)
THEOREM ImplementsPromise == Spec => KeepsPromise
  <1>1. Init => Promise!Init
    BY InitIsPromised
  <1>2. IInv /\ [Next]_vars => [Promise!Next]_(Promise!specVars)
    BY StepIsPromised
  <1> QED
    BY <1>1, <1>2, Inductive, PTL DEF Spec, KeepsPromise, Promise!Spec
==============================================================================
