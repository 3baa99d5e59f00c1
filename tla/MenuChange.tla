----------------------------- MODULE MenuChange ------------------------------
(***************************************************************************)
(* The reviewed change of one cafe menu item:                              *)
(* wuchang_cafe_menu_options/models/menu_change_request.py, with the       *)
(* governed product surface of menu_manager.py and build_reversal_values   *)
(* of services/menu_batch_governance.py.                                   *)
(*                                                                         *)
(* A request is drafted, submitted with a sealed candidate, approved and   *)
(* applied in transactions of their own, by one account, while the item is *)
(* edited directly, the rest of the ERP writes products without the menu   *)
(* rules, and an administrator rebinds the merchant group to another       *)
(* account.  Every call is Open followed by one of the actions, which      *)
(* reads the snapshot d and commits, or by Abort.  A call handles one      *)
(* record; images, prices and names are members of Value; archive and      *)
(* reactivate are proposals of two fields.  The rejected attempts logged   *)
(* after a rollback are left out: they change nothing else.                *)
(***************************************************************************)
EXTENDS Transactions, Naturals

CONSTANTS
  User,           (* Odoo accounts                                         *)
  Responsible,    (* those in RESPONSIBLE_GROUP                            *)
  RemoteSupport,  (* those in REMOTE_SUPPORT_GROUP                         *)
  Binding,        (* [user, person]: what the merchant group is bound to   *)
  NoUser,
  Item,           (* product.template ids                                  *)
  NoItem,
  Field, Value,   (* what wuchang_menu_snapshot shows of an item           *)
  Image,          (* the field whose preimage is not kept                  *)
  Proposal,       (* what requests propose: values of some of the fields   *)
  Edit,           (* what is written outside the requests                  *)
  NewItem,        (* what a create request proposes                        *)
  MaxRequests,    (* bound on the requests                                 *)
  MaxEdits        (* bound on edits outside the workflow and rebindings    *)

Content == [Field -> Value]
Partial == UNION {[F -> Value] : F \in SUBSET Field}

ASSUME MenuAssumption ==
  /\ Responsible \subseteq User /\ RemoteSupport \subseteq User
  /\ NoUser \notin User /\ NoItem \notin Item
  /\ \A b \in Binding : b.user \in User
  /\ Image \subseteq Field
  /\ Proposal \cup Edit \subseteq Partial /\ NewItem \subseteq Content
  /\ MaxRequests \in Nat /\ MaxEdits \in Nat

VARIABLES
  db,             (* items, reqs, binding                                  *)
  book,           (* the last eventbook entry of a write to each item      *)
  unlogged,       (* history: items written outside the menu surface       *)
  edits           (* number of edits and rebindings, for the bound         *)

vars == <<tx, stale, db, book, unlogged, edits>>

Request == 1..MaxRequests
NoValues == <<>>      (* the {} that _current_values and the log start from *)
Patched(c, p) == [f \in Field |-> IF f \in DOMAIN p THEN p[f] ELSE c[f]]
Exists(d, i) == d.items[i] # NoValues

NoRequest ==
  [state |-> "none", origin |-> "none", requester |-> NoUser, item |-> NoItem,
   proposed |-> NoValues, reviewer |-> NoUser, person |-> NoUser,
   base |-> NoValues, seal |-> {}, noted |-> FALSE, approver |-> NoUser,
   target |-> NoItem, reverses |-> 0]

Init ==
  /\ NoTransaction
  /\ \E present \in SUBSET Item, c \in NewItem, b \in Binding :
       db = [items   |-> [i \in Item |-> IF i \in present THEN c ELSE NoValues],
             reqs    |-> [r \in Request |-> NoRequest],
             binding |-> b]
  /\ book = [i \in Item |-> [before |-> NoValues, after |-> db.items[i]]]
  /\ unlogged = {}
  /\ edits = 0

-----------------------------------------------------------------------------
Open(s) ==
  /\ Opened(s, db)
  /\ UNCHANGED <<db, book, unlogged, edits>>

Abort(s) ==
  /\ RolledBack(s)
  /\ UNCHANGED <<db, book, unlogged, edits>>

(* A call that writes request r and nothing else.                          *)
SaveRequest(s, r, q) ==
  /\ Committed(s, {}, {<<"req", r>>})
  /\ db' = [db EXCEPT !.reqs[r] = q]
  /\ UNCHANGED <<book, unlogged, edits>>

(* The id the sequence gives the next request.                             *)
Fresh(r) ==
  /\ r \in Request
  /\ db.reqs[r] = NoRequest
  /\ \A q \in 1..(r - 1) : db.reqs[q] # NoRequest

(* What a product write leaves in the eventbook.                           *)
Logged(i, before, after) ==
  book' = [book EXCEPT ![i] = [before |-> before, after |-> after]]

-----------------------------------------------------------------------------
(* The requests.                                                           *)
MayOriginate(u, origin) ==
  CASE origin = "merchant_manager" -> u \in Responsible
    [] origin = "remote_support"   -> u \in RemoteSupport

Drafted(d, u, origin, i, p) ==
  [NoRequest EXCEPT !.state = "draft", !.origin = origin, !.requester = u,
                    !.item = i, !.proposed = p,
                    !.reviewer = d.binding.user, !.person = d.binding.person]

(* What a draft may propose, of an item or of a new one.                   *)
Proposable(d, i, p) == IF i = NoItem THEN p \in NewItem
                                     ELSE Exists(d, i) /\ p \in Proposal

CreateDraft(s) ==
  \E d \in tx[s], u \in User, origin \in {"merchant_manager", "remote_support"},
     i \in Item \cup {NoItem}, p \in Proposal \cup NewItem, r \in Request :
    /\ MayOriginate(u, origin)
    /\ Proposable(d, i, p)
    /\ Fresh(r)
    /\ SaveRequest(s, r, Drafted(d, u, origin, i, p))

(* Faulty variant: a submitted request can still be edited.                *)
Editable_Pending(q, u) ==
  q.state \in {"draft", "pending_responsible_review"} /\ q.requester = u

Editable(q, u) == q.state = "draft" /\ q.requester = u

(* write() on a draft: the origin, the proposal, and the binding when the  *)
(* merchant group is written again.  A draft that turns to another item is *)
(* left to be a new draft.                                                 *)
EditDraft(s) ==
  \E d \in tx[s], r \in Request, u \in User, p \in Proposal \cup NewItem,
     origin \in {"merchant_manager", "remote_support"}, group \in BOOLEAN :
    LET q == d.reqs[r] IN
    /\ Editable(q, u)
    /\ origin = q.origin \/ MayOriginate(u, origin)
    /\ Proposable(d, q.item, p)
    /\ SaveRequest(s, r,
         [q EXCEPT !.origin = origin, !.proposed = p,
                   !.reviewer = IF group THEN d.binding.user ELSE @,
                   !.person = IF group THEN d.binding.person ELSE @])

(* Faulty variant: anyone bound to the group may review.                   *)
MayReview_NotRequester(d, q, u) ==
  /\ u \in Responsible
  /\ q.reviewer = u /\ d.binding.user = u

(* _assert_responsible_reviewer.                                           *)
MayReview(d, q, u) ==
  /\ u \in Responsible
  /\ q.reviewer = u /\ d.binding.user = u
  /\ q.requester = u

(* write() of the review note.                                             *)
WriteNote(s) ==
  \E d \in tx[s], r \in Request, u \in User :
    LET q == d.reqs[r] IN
    /\ ~q.noted
    /\ \/ q.state = "draft" /\ q.requester = u
       \/ q.state = "pending_responsible_review" /\ MayReview(d, q, u)
    /\ SaveRequest(s, r, [q EXCEPT !.noted = TRUE])

CurrentValues(d, q) == IF q.item = NoItem THEN NoValues ELSE d.items[q.item]

(* D4 and D7 of the candidate packet.                                      *)
Seal(q) == {[person |-> q.person, dual |-> q.requester = q.reviewer]}

(* build_menu_change_candidate seals the reviewer the record had; the same *)
(* write then gives it the reviewer bound now.                             *)
Submitted(d, q) ==
  [q EXCEPT !.state = "pending_responsible_review",
            !.base = CurrentValues(d, q), !.seal = Seal(q),
            !.reviewer = d.binding.user, !.person = d.binding.person]

Submit(s) ==
  \E d \in tx[s], r \in Request :
    LET q == d.reqs[r] IN
    /\ q.state = "draft"
    /\ q.proposed # NoValues
    /\ SaveRequest(s, r, Submitted(d, q))

(* _revalidate_candidate_or_reject: BASE_STATE_CHANGED,                    *)
(* CANDIDATE_EVIDENCE_CHANGED.                                             *)
CandidateStands(d, q) == q.base = CurrentValues(d, q) /\ q.seal = Seal(q)

Approve(s) ==
  \E d \in tx[s], r \in Request, u \in User :
    LET q == d.reqs[r] IN
    /\ q.state = "pending_responsible_review"
    /\ MayReview(d, q, u)
    /\ q.origin = "remote_support" => q.noted
    /\ CandidateStands(d, q)
    /\ SaveRequest(s, r, [q EXCEPT !.state = "approved", !.approver = u])

(* Faulty variant: the approval's revalidation is taken to be enough.      *)
Appliable_Unchecked(d, q, u) ==
  /\ q.state = "approved"
  /\ MayReview(d, q, u)
  /\ q.approver = u

Appliable(d, q, u) ==
  /\ q.state = "approved"
  /\ MayReview(d, q, u)
  /\ q.approver = u
  /\ CandidateStands(d, q)

Applied(q, i) == [q EXCEPT !.state = "applied", !.target = i]

(* Locks the request, then its item.                                       *)
ApplyChange(s) ==
  \E d \in tx[s], r \in Request, u \in User :
    LET q == d.reqs[r]
        i == q.item
        after == Patched(d.items[i], q.proposed) IN
    /\ i # NoItem
    /\ Appliable(d, q, u)
    /\ Exists(d, i)
    /\ Committed(s, {<<"req", r>>, <<"item", i>>}, {<<"req", r>>, <<"item", i>>})
    /\ db' = [db EXCEPT !.items[i] = after, !.reqs[r] = Applied(q, i)]
    /\ Logged(i, d.items[i], after)
    /\ UNCHANGED <<unlogged, edits>>

ApplyCreation(s) ==
  \E d \in tx[s], r \in Request, u \in User, i \in Item :
    LET q == d.reqs[r] IN
    /\ q.item = NoItem
    /\ Appliable(d, q, u)
    /\ ~Exists(db, i)
    /\ Committed(s, {<<"req", r>>}, {<<"req", r>>, <<"item", i>>})
    /\ db' = [db EXCEPT !.items[i] = q.proposed, !.reqs[r] = Applied(q, i)]
    /\ Logged(i, NoValues, q.proposed)
    /\ UNCHANGED <<unlogged, edits>>

(* Faulty variant: the item may have changed since the request was         *)
(* applied.                                                                *)
Reversible_AnyBase(d, q) ==
  /\ q.state = "applied" /\ q.item # NoItem
  /\ DOMAIN q.proposed \cap Image = {}

(* build_reversal_values.                                                  *)
Reversible(d, q) ==
  /\ q.state = "applied" /\ q.item # NoItem
  /\ CurrentValues(d, q) = Patched(q.base, q.proposed)
  /\ DOMAIN q.proposed \cap Image = {}

(* Drafts and submits the correction in one call.                          *)
PrepareReversal(s) ==
  \E d \in tx[s], r \in Request, n \in Request, u \in User :
    LET q == d.reqs[r]
        back == [f \in DOMAIN q.proposed |-> q.base[f]]
        draft == [Drafted(d, u, "merchant_manager", q.item, back)
                    EXCEPT !.reverses = r] IN
    /\ MayReview(d, q, u)
    /\ Reversible(d, q)
    /\ Fresh(n)
    /\ SaveRequest(s, n, Submitted(d, draft))

Reject(s) ==
  \E d \in tx[s], r \in Request, u \in User :
    LET q == d.reqs[r] IN
    /\ q.state \in {"pending_responsible_review", "approved"}
    /\ MayReview(d, q, u)
    /\ q.noted
    /\ SaveRequest(s, r, [q EXCEPT !.state = "rejected", !.approver = u])

(* By an administrator, whatever the state is, unless it is applied.       *)
DeadLetter(s) ==
  \E d \in tx[s], r \in Request :
    LET q == d.reqs[r] IN
    /\ q.state \notin {"none", "applied", "dead_letter"}
    /\ SaveRequest(s, r, [q EXCEPT !.state = "dead_letter"])

-----------------------------------------------------------------------------
(* What happens to items and the binding outside the requests.             *)
WriteItem(s, i, c) ==
  /\ edits < MaxEdits
  /\ Committed(s, {}, {<<"item", i>>})
  /\ db' = [db EXCEPT !.items[i] = c]
  /\ edits' = edits + 1

(* Faulty variant: the event quotes the last one instead of the item.      *)
DirectEdit_NoBefore(s) ==
  \E d \in tx[s], i \in Item, p \in Edit :
    LET after == Patched(d.items[i], p) IN
    /\ d.binding.user \in Responsible
    /\ Exists(d, i)
    /\ WriteItem(s, i, after)
    /\ UNCHANGED <<book, unlogged>>

(* product.template.write by the account bound to the group.               *)
DirectEdit(s) ==
  \E d \in tx[s], i \in Item, p \in Edit :
    LET after == Patched(d.items[i], p) IN
    /\ d.binding.user \in Responsible
    /\ Exists(d, i)
    /\ WriteItem(s, i, after)
    /\ Logged(i, d.items[i], after)
    /\ UNCHANGED unlogged

DirectCreate(s) ==
  \E d \in tx[s], i \in Item, c \in NewItem :
    /\ d.binding.user \in Responsible
    /\ ~Exists(db, i)
    /\ WriteItem(s, i, c)
    /\ Logged(i, NoValues, c)
    /\ UNCHANGED unlogged

(* An account in neither group writes the product: no event.               *)
OtherWrite(s) ==
  \E d \in tx[s], i \in Item, p \in Edit :
    /\ Exists(d, i)
    /\ WriteItem(s, i, Patched(d.items[i], p))
    /\ unlogged' = unlogged \cup {i}
    /\ UNCHANGED book

Rebind(s) ==
  \E d \in tx[s], b \in Binding :
    /\ edits < MaxEdits
    /\ b # d.binding
    /\ Committed(s, {}, {<<"binding">>})
    /\ db' = [db EXCEPT !.binding = b]
    /\ edits' = edits + 1
    /\ UNCHANGED <<book, unlogged>>

-----------------------------------------------------------------------------
Next ==
  \E s \in Session :
    \/ Open(s) \/ Abort(s)
    \/ CreateDraft(s) \/ EditDraft(s) \/ WriteNote(s) \/ Submit(s)
    \/ Approve(s) \/ ApplyChange(s) \/ ApplyCreation(s)
    \/ PrepareReversal(s) \/ Reject(s) \/ DeadLetter(s)
    \/ DirectEdit(s) \/ DirectCreate(s) \/ OtherWrite(s) \/ Rebind(s)

Spec == Init /\ [][Next]_vars

-----------------------------------------------------------------------------
States == {"none", "draft", "pending_responsible_review", "approved", "applied",
           "rejected", "dead_letter"}

RequestRecord ==
  [state : States, origin : {"none", "merchant_manager", "remote_support"},
   requester : User \cup {NoUser}, item : Item \cup {NoItem},
   proposed : Partial, reviewer : User \cup {NoUser},
   person : {b.person : b \in Binding} \cup {NoUser},
   base : Content \cup {NoValues},
   seal : SUBSET [person : {b.person : b \in Binding} \cup {NoUser}, dual : BOOLEAN],
   noted : BOOLEAN, approver : User \cup {NoUser},
   target : Item \cup {NoItem}, reverses : Nat]

Database ==
  [items : [Item -> Content \cup {NoValues}], reqs : [Request -> RequestRecord],
   binding : Binding]

TypeOK ==
  /\ db \in Database
  /\ tx \in [Session -> SUBSET Database]
  /\ book \in [Item -> [before : Content \cup {NoValues},
                        after : Content \cup {NoValues}]]
  /\ unlogged \subseteq Item
  /\ edits \in Nat

(* Only the account that drafted, submitted and approved a change stands   *)
(* behind it, and it is the one the sealed candidate names.                *)
ConfirmedBySubmitter ==
  \A r \in Request :
    LET q == db.reqs[r] IN
    q.state \in {"approved", "applied"} =>
      /\ q.approver = q.requester /\ q.reviewer = q.requester
      /\ q.seal = {[person |-> q.person, dual |-> TRUE]}

BecomesApplied(r) ==
  db.reqs[r].state # "applied" /\ db'.reqs[r].state = "applied"

(* "The formal menu item changed after submission. No candidate values     *)
(* were applied": a change is applied to exactly the item that was         *)
(* reviewed, and to nothing else of it than was proposed, whoever edits    *)
(* the item between submission, approval and application.                  *)
AppliedOnReviewedBase ==
  [][\A r \in Request :
       LET q == db.reqs[r] IN
       BecomesApplied(r) =>
         /\ q.base = CurrentValues(db, q)
         /\ db'.items[db'.reqs[r].target] = Patched(q.base, q.proposed)]_vars

(* Applying a reversal brings back the item as it was before the change it *)
(* reverses, or is refused.                                                *)
ReversalRestores ==
  [][\A r \in Request :
       LET q == db.reqs[r] IN
       BecomesApplied(r) /\ q.reverses # 0 =>
         db'.items[q.item] = db.reqs[q.reverses].base]_vars

Evidence(q) ==
  <<q.origin, q.requester, q.item, q.proposed, q.base, q.seal, q.reviewer,
    q.person, q.reverses>>

(* "Submitted menu changes are immutable": no call in flight when the      *)
(* request was submitted can alter what was sealed, and none changes an    *)
(* applied request, so that nothing is applied twice.                      *)
EvidenceFrozen ==
  [][\A r \in Request :
       /\ db.reqs[r].state \notin {"none", "draft"}
            => Evidence(db'.reqs[r]) = Evidence(db.reqs[r])
       /\ db.reqs[r].state = "applied" => db'.reqs[r] = db.reqs[r]]_vars

(* The eventbook replays: as long as an item is written through the menu   *)
(* surface only, every entry starts where the last one ended, and the last *)
(* one ends at the item.                                                   *)
AuditReplays ==
  [][\A i \in Item \ unlogged' :
       /\ book'[i] # book[i] => book'[i].before = book[i].after
       /\ book'[i].after = db'.items[i]]_vars

(* The phase a request is in for everybody but its author.                 *)
PhaseOf(state) ==
  CASE state = "pending_responsible_review" -> "submitted"
    [] state \in {"rejected", "dead_letter"} -> "closed"
    [] OTHER -> state

CaseOf(q) ==
  IF q.state \in {"none", "draft"} THEN [phase |-> "none"]
  ELSE [phase |-> PhaseOf(q.state), origin |-> q.origin,
        requester |-> q.requester, item |-> q.item, proposed |-> q.proposed,
        base |-> q.base, seal |-> q.seal, reviewer |-> q.reviewer,
        person |-> q.person, reverses |-> q.reverses]

Cases == [r \in Request |-> CaseOf(db.reqs[r])]

(* However its calls interleave with each other, with direct edits and     *)
(* with rebindings, the workflow is MenuSpec's: what was submitted is what *)
(* is approved, and what was approved is what is applied, in that order.   *)
Promise == INSTANCE MenuSpec WITH items <- db.items, cases <- Cases
KeepsPromise == Promise!Spec
==============================================================================
