# A TLA+ model of the wuchang.life control core

The repository is a Python workspace (5112 files) around one idea: work is asked for in natural language,
is done by candidates in a shadow of the source, and becomes real only through ledgers that say what was
claimed, what was done and what may be resumed. This directory models that core: the ledgers, the lock they
share, the runner that lands a candidate on live files, the conversation checkpoint, the offline edge queue
and the evidence ledger. It also models the three workflows in which a person's consent makes something real:
the reviewed change of a cafe menu, the redemption of a member's voucher at the counter, and the approval
signed on a phone. Website assets, deliverables, the point-of-sale prototypes under `runtime/sandbox`,
generated reports and vendored code are outside it.

## 1. Inventory

### Components that are modelled

**Action ledger and continuity lock** (`core/execution_continuity.py`).
*State:* `state/ACTION_LEDGER.json`, a list of actions with a STATE, an IDEMPOTENCY_KEY and a RESUME_FROM; an
flock on a lock file, re-entrant within a thread; a copy of the ledger in every `ActionLedger` instance.
*Operations:* the constructor, `begin_action`, `update_action` and its wrappers (`mark_waiting`,
`mark_interrupted`, `resume_action`, `complete_action`, `fail_action`), `find_all_by_idempotency_key`,
`continuity_effect_scope`.
*Hard:* instances hold stale copies, any process may save between a read and a mutation, a save fails after the
copy was changed, a process dies inside the (possibly nested) scope.
*Correct when:* an effect is claimed once, no update is lost, a terminal record is frozen, the file always loads,
and the whole behaves as one atomic register.

**Work ledger** (`core/work_ledger.py`).
*State:* `state/WORK_LEDGER.json`, tasks with STATE, EVIDENCE, BLOCKERS, a closure seal and REOPEN_HISTORY; in
every instance the data, and the hash of the file it came from.
*Operations:* construction, `create_task`, `update_task`, `complete_task`, `reopen_task`, `block_task`,
`append_evidence`, `_save` with its drift check.
*Hard:* the data and the hash are read in two unlocked steps, callers work inside or outside the scope, a failed save
leaves the change in the instance, and `create_task` and `update_task` take any field, the seal included.
*Correct when:* a save replaces exactly the file it checked, undoes nobody's update, a closed task changes
only by an explicit reopening, and what `complete_task` sealed stays as its seal says.

**Natural-language goal runner** (`tools/w7tp_nl_goal_runner.py`) and its launch by the **gateway**
(`services/gateway/natural_language_control.py`).
*State:* per run a shadow before and after, a preimage directory and `state.json`; of the system the live files,
both ledgers.
*Operations:* launch over a FIFO, claim or resume an action, build a candidate, adjudicate, land, validate, restore,
record, append evidence, append the final state as evidence and write it; a failure handler around it all.
*Hard:* several runs, outside edits, death at every step, failures while copying and while recording, three files
written one after the other.
*Correct when:* the landing overwrites only what the candidate was built from, is announced before it begins, is
undone completely when it fails, and nothing is claimed that the ledger does not back.

**Conversation checkpoint** (`core/intent_continuity.py`).
*State:* `state/CURRENT_CONVERSATION_CHECKPOINT.json`.
*Operations:* `checkpoint_conversation`, `refresh_checkpoint_from_ledger`, `sync_checkpoint_evidence`.
*Hard:* they read two ledgers that others save, and overwrite each other.
*Correct when:* a sync keeps the decision in force and shows hashes of the very ledgers it summarises.

**Edge candidate queue** (`tools/total_field/w7tp_intent_field_suite/edge_queue.py`, with the commands of `cli.py`).
*State:* a JSON file with hash-chained entries; the route table and the capability registry they are sealed to.
*Operations:* seal, generate, `enqueue_packet`, `revalidate_queue_file`.
*Hard:* the sources are read three times by two machines, the file is rewritten without a lock.
*Correct when:* the file is one chain, and nothing stale is accepted.

**ADI evidence ledger** (`core/adi_native/evidence_ledger.py`).
*State:* an append-only JSONL file of hash-chained events.
*Operations:* `append_event` under flock, `verify_chain` without.
*Hard:* torn lines, a flush that fails with none, some or nearly all of a line out and whose rest `close()` writes after
the lock is released, text the reader splits.
*Correct when:* acknowledged events form one chain, a ledger that verifies has them all, and it only ever grows.

**Menu change workflow** (`Taiji_Odoo/addons/wuchang_cafe_menu_options/`: `models/menu_change_request.py`,
`models/menu_manager.py`, `services/menu_change_governance.py`, `services/menu_batch_governance.py`).
*State:* in the database the menu items, the requests with their sealed candidates, the account the merchant group
is bound to, and the eventbook of product writes.
*Operations:* draft, edit, note, submit, approve, apply (a change or a new item), prepare a reversal, reject,
dead-letter; product writes outside the requests; rebinding.
*Hard:* each operation is a transaction of its own over a snapshot; days and other writers lie between submission,
approval and application; only some rows are locked.
*Correct when:* what is applied is what was reviewed, on the item it was reviewed against, by the one account that
stands behind it; submitted evidence is frozen; a reversal restores; the eventbook replays.

**Voucher checkout** (`Taiji_Odoo/addons/wuchang_cafe_ai_gateway/models/sovereign_voucher_checkout.py`, with the
vouchers, the consent events and the feature gate of
`Taiji_Odoo/addons/wuchang_member_registration/models/member_registration.py`).
*State:* in the database checkouts, vouchers, the member's consent events, and the gate.
*Operations:* look up from a seat, request, consent (which redeems), deny; issue, create and rewrite vouchers; switch
the feature.
*Hard:* staff retry, from one seat or another, the member answers twice, managers and expiry change vouchers between the
request and the answer, and the ten vouchers are counted without a lock.
*Correct when:* a voucher is redeemed once, with the consent of its owner to this very voucher in the state it was
shown in, unless a manager created it redeemed; at one seat an order has one checkout for it; the recorded effect is the
effect.

**Mobile approval** (`tools/gst_mobile_approval_first.py`, `tools/gst_mobile_approval_server.py`,
`tools/w7tp_founder_sign.py`).
*State:* pending ceremonies, the one signed proof, the receipt and its history, as files; in each operator process the
flags `closing` and `stop`, two locks and its handler threads.
*Operations:* open or reuse a ceremony, complete it, publish the receipt, end the server, read back a saved proof.
*Hard:* handler threads are daemons that outlive the flock of the run they belong to; answers are lost and the page
submits again; a proof may be saved after its window is over; the receipt is kept and replaced in two steps.
*Correct when:* the proof is saved once and verifies for good, the receipt follows it, what a page and a report say is
true, and a run ends whatever its handlers do.

### How they interact

    gateway --FIFO, Popen--> goal runner --continuity_effect_scope--+
                                 |                                  v
                                 +--begin/update/complete--> action ledger
                                 +--append evidence-------> work ledger
                                 +--copy, unlink----------> live files
    intent_continuity --reads both ledgers, writes--> checkpoint
    edge worker --edge-queue--> queue file <--edge-revalidate-- taiji01
    UI bridge, context adapter --append_event--> evidence ledger

    accounts, wizards --Odoo RPC--> menu requests --apply--> product.template --write--> eventbook
    counter staff, member --Odoo RPC--> checkouts --consent--> vouchers, consent events

    phone page --HTTP--> handler threads --link--> signed proof --> receipt
    founder --run_once--> operator process --starts, ends--> handler threads

The lock of the first group is one flock, taken by every save of either ledger and held by a goal run from its
claim to its report. The queue and the evidence ledger share nothing with it. The two Odoo workflows share no rows; what
they have in common is the way PostgreSQL runs their transactions, which is a module of its own. The approval tool has
an flock of its own, which orders its runs but not the threads they leave behind.

### Components that are not modelled

`PROJECT.json` lists each with its reason. The ones with state worth modelling are the context pull broker, the
conversation events and the adaptive network (section 7). The rest are pure functions (external effect gate, resource
arbitration, minimum packet, ADI core), one-shot operator tools (promotion, installer, verification of passkeys) or HTTP
front ends. The largest files of the repository (the Odoo website controllers, the generated candidates under
`artifacts/`, the field context builder) render, copy or score; they keep no state that two actors dispute.

## 2. The modules

| module | models | notes |
|---|---|---|
| `ActionRecords` | the records and the conditions of the action ledger's operations | operators only |
| `ActionLedgerSpec` | what the ledger promises: one register | abstract specification |
| `ActionLedger` | file, flock, nesting, copies, calls in steps | implements `ActionLedgerSpec` |
| `ActionLedger_proofs` | theorems about `ActionLedger` | TLAPS |
| `TaskRecords` | the task records and operations of the work ledger | operators only |
| `WorkLedger`, `WorkLedger_proofs` | file, hash, instances, drift check, scope | extends `TaskRecords` |
| `GoalRunner`, `GoalRunner_proofs` | the runs, the ledger they share, the live files | also implements `ActionLedgerSpec` |
| `Checkpoint`, `Checkpoint_proofs` | the checkpoint and its three writers | |
| `EdgeQueue` | two producers and a reviewer of the queue file | |
| `EvidenceLedger` | writers of the evidence ledger | |
| `HashChains_proofs` | theorems about `EdgeQueue` and `EvidenceLedger` | TLAPS |
| `Transactions` | what a database transaction sees and when it commits | operators and two variables |
| `MenuSpec` | what the review of changes promises: submission, approval and application, each at once | abstract specification |
| `MenuChange`, `MenuChange_proofs` | requests, items, binding and eventbook | extends `Transactions`, implements `MenuSpec` |
| `VoucherSpec` | what redemption promises: a question, an answer and a spending, each at once | abstract specification |
| `VoucherCheckout`, `VoucherCheckout_proofs` | checkouts, vouchers, consent events, gate, clock | extends `Transactions`, implements `VoucherSpec` |
| `ApprovalSpec` | what the approval promises: signing, saving, publishing and telling, each at once | abstract specification |
| `MobileApproval`, `MobileApproval_proofs` | operator processes, handler threads, pages, files | implements `ApprovalSpec` |
| `MC...` | symmetries and argument sets for TLC | |

**ActionLedger.** A call is a sequence of steps `Start`, `Enter` (flock), `Reload` (`_exclusive_mutation` reads the
file again), `ApplyBegin` or `ApplyUpdate` (conditions, then the change of the copy, then validation), `Save` or
`SaveFails`, `Leave`. `resume_action` tests the copy before it takes the lock and so does the model. `OpenScope` and
`CloseScope` are a caller that holds the scope around several calls; `depth` is the re-entrance count. `Crash` drops
the flock, as the kernel does. A record keeps STATE, IDEMPOTENCY_KEY and RESUME_FROM, the fields the code branches
on; the descriptive ones are left out. `Changes` are the arguments of the wrappers and of bare `update_action` calls.

**WorkLedger.** A task's seal is none, one that `complete_task` made, with the evidence its hash covers, or one that a
caller gave to `create_task` or `update_task`, which take any dict: such a seal may be on a task in any state. A hash is a version number. `ReadTasks` and `ReadHash` are the two reads of `__init__`. `Scoped`
threads construct their instance inside `continuity_effect_scope`, the others anywhere. A failed save leaves `data`
changed, and the next operation on that instance persists it. `base` is history: the version the tasks came from; `own` is too: the tasks that the operations
of a thread changed since it read or saved them.

**GoalRunner.** A run is a process; an action id is a run's id too, since run r uses A-NL-r. One step is one call
that changes shared state. Ledger calls are atomic here, which `ActionLedger` justifies for a caller that holds the
lock. The content of a file is who wrote it ("base", an outside edit, a run), which is all the properties need.
Everything between the snapshot and the verified candidate (model prompts, the Gemini hint, retries, tests in the
shadow, intermediate ledger updates that nothing reads back) is one step `BuildCandidate` with every outcome, or a
failure. RESUME_FROM keeps three values: rework, landing announced, check the actual effect. The files of one group
(created, modified, deleted) are copied in any order, which includes the sorted one of the code; the order of the
groups is kept. What a run tells is what it has in hand: `FinalState`
is put together from the run's own snapshots and goal, as the code's `final` is from local variables, and never read from the ledger.
`AppendFinalState` is `write_state` appending RUN_FINAL_STATE to the task, before `Finish`, or `ReportFailure` after a refusal or an
error, replaces `state.json`. `EditLive` is an editor or another tool; `touched` marks the files edited since they were last
compared, for which no program could promise anything. `Die` may follow any step.

**Checkpoint.** Ledgers are version numbers; the summaries and hashes in a checkpoint are the versions they were read
from; goal, state, decision and D8 are one value. The three writers can be given to different threads.

**EdgeQueue.** Sources are a version; a hash is what it covers (the sequence of packets and snapshots up to an entry).
A producer seals, generates from the sources as they are by then, reads the queue, and replaces the file.

**EvidenceLedger.** A file is its lines, each an event or garbage, and whether the last one has its newline. A failed
or interrupted write leaves nothing, a part of the event, or all of it but the newline; the next event then shares a
line with it. After a failed flush `close()` writes what the buffer still holds, all or some of it, when the lock is
free: the whole line (`closing`), the rest of one (`closing_rest`) or its newline (`closing_newline`). `half` says whose half line is
still the last thing in the file, so that its rest makes it whole. Text is "plain" or has a character that `str.splitlines()` cuts at (U+2028, U+0085), which
`json.dumps(ensure_ascii=False)` leaves as it is; an `actor_ref` is "named" or "empty". All instances have one anchor; the frozen legacy chain is outside.

**Transactions.** Odoo runs each RPC call in one PostgreSQL transaction at REPEATABLE READ. `Opened` takes the snapshot
(`tx[s]`); `Committed` is possible only if no row the call writes, or locks with SELECT ... FOR UPDATE, was written by
another transaction that committed since (`stale[s]`); otherwise the call ends in `RolledBack`. A row that is only read may
have changed. Every guard of the two workflows is evaluated on the snapshot and every write is done to the database as it
is at the commit, so write skew, lost answers and failed retries are behaviours of the model.

**MenuChange.** Each button or RPC of the request model is an action. A request is the record with the fields the code
branches on; its seal is what D4 and D7 of the candidate packet say (the person, and whether requester and reviewer are
one), its base the item as `wuchang_menu_snapshot` showed it when it was submitted. `Submit` seals the reviewer the draft
had and then stores the one bound now, as `action_submit` does. `ApplyChange` locks the request and its item;
`PrepareReversal` is `build_reversal_values` with the draft and the submission in one call. `DirectEdit`, `DirectCreate`
and `OtherWrite` write items outside the requests: the first two log an event, the last, by an account outside the menu
groups, does not. `MenuSpec` has no accounts, sessions or snapshots: a case appears when a request is submitted (or a draft given up),
is never altered, is approved by whoever requested it, and is applied once, to an item that is at that instant as the case says;
a reversal is a case that brings back what an applied one replaced; anybody else may write items at any time. It is implemented with
`Cases` for the cases (a request that is still a draft is none) and the items as they are.

**VoucherCheckout.** `Preview`, `Request`, `Consent` and `Deny` are the four calls of a checkout; `Consent` is the whole of
`confirm_for_current_member` with approval, `_execute_authorized` and the redemption, which share a transaction. Hashes are
the records they are hashes of. The exact number of vouchers, ten in the code, is the parameter `Exact`. A key
is of a seat, an order and a voucher's record. `Issue` is `issue_from_authority`; `ManagerCreate` is a manager's `create()`, in any state;
`ManagerWrite` is a manager's `write()`, which may leave any state but "redeemed", or that one where it is. Two variables are history: `reissued`,
how often a manager set a redeemed voucher back, and `granted`, the vouchers that are as a manager created them, redeemed.
`VoucherSpec` has no sessions, snapshots,
counts or gate: a question names a seat, an order and a voucher in the state it was shown in, no question is asked twice from one seat, the one
consent to it spends the voucher, and nothing else makes a redeemed voucher of one that exists and is not. It is implemented with `Asked(db.checkouts)` for the questions
(the key of each requested checkout), the consent events for the answers, and the rows of the vouchers for the vouchers.

**MobileApproval.** `op[q]` is a process of the tool, `thread[t]` a handler thread that belongs to one. The locks are
derived from where the threads are. A request is cut where another thread or process can come between: the first look at
`closing`, the entry into `completion_lock`, the verified proof, the link of the file, the kept receipt, the published one.
`Exit` is the end of a process or its death, with its threads. A page signs once, and submits the same again until it is
told that it was saved. `ApprovalSpec` has neither processes nor threads: pages sign ceremonies, one signature made within its
window becomes the proof for good, the receipt becomes that of the proof (an old one is replaced only once it is kept), and a
page is told of nothing but its own proof, with the receipt in place. Its pages are those of the model without the answers
that may still reach them (`Signed`, `Told`); everything else of it is on disk.

A definition whose name ends in a suffix after an underscore and whose comment begins "Faulty variant" is not part of
any specification: it is a plausible bug which the property named for it in `PROJECT.json` must detect.

## 3. The runs

| run | instance | shows |
|---|---|---|
| `action_ledger` | 2 threads, 2 actions, 2 keys, nesting 2, 4 calls | `ClaimedOnce`, `FileLoadable`, `NoLostUpdate`; it implements `ActionLedgerSpec` (`KeepsPromise`) |
| `work_ledger` | 1 scoped and 1 unscoped thread, 2 tasks, created open, DONE, or on HOLD with a given seal, 3 calls | `ScopedLosesNothing`, `SealCoversEvidence`, `ScopedNeedsReopen` |
| `work_ledger_race` | the same | **violates** `ClosedNeedsReopen` |
| `goal_runner` | 2 runs, 2 effectful goals and a read-only one, 2 files, 1 outside edit | `LandsOnSnapshot`, `LandingIsAnnounced`, `RollbackIsComplete`, `DoneIsLive`, `ClaimsFollowLedger`, `MissingProcessNeverMeansRerun`, `KeepsPromise` |
| `goal_runner_live` | 2 runs, an effectful and a read-only goal, 2 files | `RunEnds` under fairness |
| `goal_runner_rollback` | 2 runs, 1 goal, 2 files | **violates** `FailedLandingRollsBack` |
| `checkpoint` | a syncer-refresher, a refresher, a talker, 2 saves of each ledger | `EvidenceIsConsistent`, `SyncKeepsDecision`, `SyncFollowsLedger` |
| `edge_queue` | 2 producers, 2 intents, 1 change of the sources, 1 death | `OneChain`, `AcceptedIsCurrent` |
| `evidence_ledger` | 3 writers, every text and actor, 3 events, 3 tears | `AckedFormOneChain`, `ValidMeansComplete`, `CalmLedgerVerifies`, `ValidIsAppendOnly` |
| `menu_change` | 2 sessions, 2 accounts, 1 item, 2 requests, 1 outside edit or rebinding | `ConfirmedBySubmitter`, `AppliedOnReviewedBase`, `ReversalRestores`, `AuditReplays`; it implements `MenuSpec` (`KeepsPromise`) |
| `voucher_checkout` | 2 sessions, 2 seats, 2 checkouts, 1 order, 2 vouchers and room for a third in any state, `Exact` = 2, 1 manager's write | `RedeemedOnce`, `RedeemedByConsent`, `OneCheckoutPerKey`, `EffectIsExact`; it implements `VoucherSpec` (`KeepsPromise`) |
| `mobile_approval` | 2 processes, 2 threads, 2 pages, 1 ceremony, 1 tick, 2 runs of the tool | `ToldIsSaved`, `ProofVerifies`, `ReportIsTrue`, `ReceiptFollowsProof`; it implements `ApprovalSpec` (`KeepsPromise`); `RunEnds` under fairness |

The type invariants are theorems for every value of the constants (section 5), so that no run repeats them. Nor does a run
repeat `RedeemsWhatWasRequested`, `EvidenceFrozen` and `ProofFrozen`, which the `KeepsPromise` of their modules imply and theorems state for themselves.

**Bounds.** Two threads are what a race over one file needs: each property about interference names one thread that
is disturbed and one that disturbs. Two actions and two keys tell the same key from another one; four calls are enough
for begin, interrupt, resume and complete by two threads in turn. Two tasks let a save for one carry an old value of
the other. A caller's seal comes with a new task or with an update; TLC has both, on tasks that
are not DONE, and a task that is created DONE without a seal.
Two files are the least for which a landing, or its undoing, can be half done; two effectful goals let runs compete
for a goal or for the files alone, and the read-only one adds the reports without a landing. Two saves of each ledger let one fall before and one after a read. A third edge
version adds no new relation between a chain and its parts; three writers of the evidence ledger let one be torn, one close late and one append. Two requests for one item are what a conflict over
it needs, and a change with its reversal; one outside edit, of another field than the requests propose, or one rebinding,
may fall between any two steps. Two vouchers with `Exact` = 2 play the ten: one less or one more breaks the count, and a
third may be issued or created while a checkout is under way. One order at two seats has all the keys that matter: two from one seat
are one key, two from different seats two keys that name one voucher. "expired" and "void" are alike to every guard, so TLC takes one of them. One tick separates a ceremony's window from what comes after; the
second run of the approval tool is the one that meets the threads and the files of the first. `MaxCalls`, `MaxDepth`,
`MaxEdits`, `MaxSaves`, `MaxVersion`, `MaxDeaths`, `MaxEvents`, `MaxTears`, `MaxRequests`, `MaxCheckouts`, `MaxVouchers`,
`MaxWrites`, `MaxTime`, `MaxCeremonies` and `MaxRuns` bound counters and pools only; the theorems hold for all of their
values. The largest runs have 3.4 million (`goal_runner`) and 1.7 million (`menu_change`, `voucher_checkout`) distinct states and take
about two minutes.

At these bounds the remote-support origin of a menu request is exercised up to its submission; its approval, which would need one
account in both groups, is not reached, and only the proofs speak of it.

To repeat a run: `tlc -workers 2 -config GoalRunner_live.cfg MCGoalRunner`; to check the proofs:
`tlapm ActionLedger_proofs.tla`, and so on for the other modules with that suffix.

**Symmetry** is used on threads, tasks, actions, keys, intents, runs, files, sessions and seats in runs without liveness, where
the specification treats them alike. `goal_runner` does not permute goals, since only one of them allows deletions, and
`mobile_approval` permutes nothing, since it checks a liveness property.

**Deadlock** is checked except in `GoalRunner`, where a run ends for good, in `EvidenceLedger`, where a poisoned ledger
refuses everything and the bound ends the rest, and in `MobileApproval`, where the runs of the tool are over when the bound
says so.

**Fairness** is used in `goal_runner_live` and `mobile_approval`. In the first, `WF(Work(r))`: a run in its
scope goes on, because every subprocess, model call and test it waits for has a timeout. `SF(EnterScope(r))`: a process blocked in flock gets the lock if it is
freed again and again. Nothing is assumed of death, of editors, of the operator who asks for a run, or of the hand-over
through the FIFO, so `RunEnds` begins with a run that has received its intent and waits for the lock: such a run ends,
even when the one before it dies holding the flock. In the second, `WF(Operate(q))`: the main thread of the tool goes on, since
its wait for the page, for `completion_lock` (five seconds) and for the proxy all have timeouts. Nothing is assumed of the
handler threads, of the pages or of the clock, so `RunEnds` holds however long a handler hangs.

## 4. What the failing runs show

* `work_ledger_race`: `WorkLedger.__init__` reads the tasks and then the bytes for the hash, unlocked. A save between
  the two pairs old tasks with the new hash; the next save passes the drift check and silently undoes a completion. The
  scoped threads of `work_ledger` are safe from it.
* `goal_runner_rollback`: the loop that copies the candidate over the live files stands before the `try` whose handler
  restores the preimage. A failure in the second of two copies leaves the first file live, and the run says HOLD.
  `RollbackIsComplete` holds: a restore that does run is complete.

Both quote what the repository says and does not do; `PROJECT.json` has the lines. The following were met while modelling.
They are limits of the code that no document of the repository contradicts, so no property is stated against them; the
models contain each of them:

* A goal runner that resumes an interrupted landing starts over from the half-landed tree and forgets that effects are live.
* A run whose runner does not open the FIFO within five seconds waits for ever, and its `state.json` says STARTING.
* Two edge producers that read the queue before either writes are both told QUEUED, and the second replacement drops the
  first entry; the chain that is left verifies. One entry of an older snapshot makes every later revalidation raise.
* `append_event` accepts text that `_load_v2_records` cannot read back (U+2028 and the like), and an empty `actor_ref`; after
  either, the evidence ledger refuses every append. `CalmLedgerVerifies` names both conditions.
* An append that raised may still enter the evidence ledger: `close()` writes what its flush left in the buffer, and so completes
  a half line, after which a ledger that did not verify does. `ValidIsAppendOnly` names this one way to heal. If another
  append came in between, both lines are garbage.
* `update_task` and `create_task` accept a COMPLETION_SEAL. A task sealed so without being DONE can be neither updated,
  blocked, completed nor reopened any more; `SealCoversEvidence` speaks of the seals of `complete_task`.
* A menu request that was approved without a note can no longer get one, and so cannot be rejected, only dead-lettered.
* The approval and the application of a menu change read the group binding without locking it: a rebinding that commits
  meanwhile is not seen.
* A voucher's confirmation does not look at the feature gate, and its counts are wrong if another voucher is issued or voided
  while it runs. `write` lets a manager set a redeemed voucher back to issued; `RedeemedOnce` counts those. `create` asks
  for no token, so a manager may create a voucher that is redeemed already, without checkout or consent; `RedeemedByConsent` excepts those.
* The idempotency key of a checkout contains the seat. A request repeated from another seat opens a second pending checkout for the same
  order; if the member consents to both, the second fails, since its voucher is redeemed by then.
* A page whose answer is lost after the server has closed never learns that its proof was saved; the next run of the tool
  publishes the receipt without it. `completion_finished: false` in a report may hide a proof that is saved a moment later.

## 5. What is proved

Eight modules hold proofs, one for each component; the two files of hash-chained records share one. Each theorem holds for
every set of threads, accounts, keys, files and so on, and for every value of the bounds. Each module has an inductive invariant
`IInv` (`HashChains_proofs` two, `EdgeInv` and `LedgerInv`); its parts are named after what they say, and each action has its
own step or lemma.

*Assumptions:* only the named ones in the modules. Markers such as `NoProc`, `None` or `Keep` are not members of the
sets they mark; subsets are subsets; bounds are naturals; arguments are well typed; and `RunnerAssumption` fixes the three values of
RESUME_FROM and says that no run is called "base", "edit" or "none".

| module | theorems (property) |
|---|---|
| `ActionLedger_proofs` | `TypeCorrect`, `EffectClaimedOnce` (`ClaimedOnce`), `AlwaysLoadable` (`FileLoadable`), `NothingLost` (`NoLostUpdate`), `TerminalStaysTerminal` (`TerminalImmutable`), `ImplementsPromise` (`KeepsPromise`) |
| `WorkLedger_proofs` | `TypeCorrect`, `CheckedIsReplaced` (`ReplacesCheckedFile`), `ScopedSavesOwnTasks` (`ScopedLosesNothing`), `SealsCover` (`SealCoversEvidence`), `ScopedReopensExplicitly` (`ScopedNeedsReopen`) |
| `GoalRunner_proofs` | `TypeCorrect`, `LandsOnlyOnSnapshot` (`LandsOnSnapshot`), `RollbackCompletes` (`RollbackIsComplete`), `LandingAnnounced` (`LandingIsAnnounced`), `ClaimsFollow` (`ClaimsFollowLedger`), `DoneMeansLive` (`DoneIsLive`), `NeverRerun` (`MissingProcessNeverMeansRerun`), `ImplementsPromise` (`KeepsPromise`) |
| `Checkpoint_proofs` | `TypeCorrect`, `HashesMatch` (`EvidenceIsConsistent`), `DecisionKept` (`SyncKeepsDecision`), `SyncMovesForward` (`SyncFollowsLedger`) |
| `HashChains_proofs` | of the queue: `QueueTypeCorrect`, `FileIsOneChain` (`OneChain`), `NothingStaleAccepted` (`AcceptedIsCurrent`); of the ledger: `LedgerTypeCorrect`, `ReturnedEventsAreAChain` (`AckedFormOneChain`), `ValidLedgersAreComplete` (`ValidMeansComplete`), `CalmLedgersVerify` (`CalmLedgerVerifies`), `ValidLedgersOnlyGrow` (`ValidIsAppendOnly`) |
| `MenuChange_proofs` | `TypeCorrect`, `SubmitterConfirms` (`ConfirmedBySubmitter`), `AppliesWhatWasReviewed` (`AppliedOnReviewedBase`), `ReversalsRestore` (`ReversalRestores`), `EvidenceStaysFrozen` (`EvidenceFrozen`), `EventbookReplays` (`AuditReplays`), `ImplementsPromise` (`KeepsPromise`) |
| `VoucherCheckout_proofs` | `TypeCorrect`, `RedeemsOnce` (`RedeemedOnce`), `RedeemsByConsent` (`RedeemedByConsent`), `KeysAreUnique` (`OneCheckoutPerKey`), `ConsentIsToTheVoucher` (`RedeemsWhatWasRequested`), `CountsAreExact` (`EffectIsExact`), `ImplementsPromise` (`KeepsPromise`) |
| `MobileApproval_proofs` | `TypeCorrect`, `PageIsToldTheTruth` (`ToldIsSaved`), `SavedProofVerifies` (`ProofVerifies`), `RunReportsTheTruth` (`ReportIsTrue`), `ProofIsFrozen` (`ProofFrozen`), `ReceiptIsOfProof` (`ReceiptFollowsProof`), `ImplementsPromise` (`KeepsPromise`) |

None of the properties about interference is inductive; why the arguments need more, module by module:

**ActionLedger.** That a save loses nothing needs that the copy about to be saved was read under the lock that is still
held, which needs that whoever is past `Enter` holds the lock. So

    IInv == TypeOK /\ LockInv /\ CopyInv /\ KeyInv /\ FileLoadable /\ ClaimedOnce

where `LockInv` says that only the holder has a positive depth and is past `Enter`, `CopyInv` that the copy of a thread
about to apply is the file, and that of a thread about to save is the file with one legal change, and `KeyInv` that
every action present has a key. `SaveIsPromised` is the heart: under `IInv` a `Save` is a `Born` or `Moved` step of
`ActionLedgerSpec`; every other action leaves the file alone. So each step of the ledger is a step of the register or a
stutter (`StepIsPromised`), and `PromisedStep` shows that a step of the register preserves what is said of the file alone.

**WorkLedger.** A scoped thread constructs its instance inside the scope, so nobody saves between its two reads nor
afterwards: its tasks are the file's, except for those its own operations changed, failed saves included.
Of those all that matters is that a closed task was kept or reopened (`ScopeInv`). That a seal of `complete_task` covers the evidence
has to hold of every instance's copy too (`SealInv`), unscoped, stale and unsaved ones included, since any of them may become the
file; no operation breaks it, because each refuses a sealed task or removes the seal.

**GoalRunner.** A run in its scope holds the lock (`LockInv`), so nobody else moves its action or writes live files
(`ClaimInv`, `LandInv`). What outlives the scope is a run's mark on a file and its action in the ledger: `TraceInv` says that
a run's mark is nowhere but in its own candidate, or its landing is announced in the ledger. That is what `LandingIsAnnounced`
needs after a death, when a later run snapshots, lands on or restores the files of the dead one. `ClaimsFollowLedger` is not true by how
`FinalState` is defined, since that looks at the run's snapshots and goal alone: `BackInv` says what the ledger holds at each
place from which a run can get there, and that it is still so when the final state is appended and written. `LedgerCases` says of every
step that it leaves the ledger alone, takes a free or resumable action, or writes an action of its own; the ledger's
promise and `MissingProcessNeverMeansRerun` are read off it.

**Checkpoint.** Neither ledger nor checkpoint changes while a sync holds the lock, so that at each place of the sync its draft
agrees with them as they still are (`DraftInv`).

**EdgeQueue.** No lock orders the producers, but whatever order they write in, the file is a chain one of them has read with
one entry more. So it is enough that every copy is a chain whose entries match their snapshots (`QueuesInv`) and that appending
keeps a chain one (`AppendKeepsChain`).

**EvidenceLedger.** The difficulty is that lines are written by threads that no longer hold the lock, and that torn ones are
completed by strangers. `FileInv` does not ask who wrote what: a file that verifies is in order, each event covering all before
it. All of it is said of the `Settled` file, without the half line whose rest may follow, which `HalfInv` keeps the last line, cut, with its writer
still to close. A step adds a line to the settled file, or leaves it, or leaves a file that never verifies again
(`FileStep`); `ValidIsAppendOnly` is read off it. An event is built, under the lock, on a file that verifies, which by
`ValidMeansComplete` has every event returned so far; so the new event covers them, and since nobody else returns while the lock
is held it still does when it is returned itself (`MadeInv`), whatever the file looks like by then. That is `AckedFormOneChain`.
`CalmInv` follows the file between the two while nothing has been torn.

**MenuChange** and **VoucherCheckout.** What a call reads of a row that it writes or locks is the row as it is when the
call commits (`SnapshotInv`, `RowIsCurrent`); of any other row it may be out of date, and no step of the proofs uses it.
`MenuChange` reduces the actions to the few things a step may do to a request and to an item (`EveryStep`), and proves each
property from those alone; `ReversalInv` ties a reversal to the change it reverses, which is frozen. Those facts, and that a step writes one request, one item,
or a request with the item it is realised on (`OneAtATime`), are also what shows each step to be one of `MenuSpec` or a stutter. In `VoucherCheckout`,
`RedeemInv` counts the checkouts that consumed a voucher against the times a manager reopened it, beside `GrantedInv`,
that what a manager created redeemed is so still. That each of its steps is a
step of `VoucherSpec` or a stutter (`StepIsPromised`) needs what makes a decision taken on a snapshot one on the database: a
request's key is new because the unique constraint looks at the rows that are there (`KeyIsFree`), the voucher a consent
spends is locked, so that its row is current (`RowIsCurrent`), and the answer is the first because a checkout with consent events is decided
and a decided one is never pending again.

**MobileApproval.** Threads outlive their run, so no lock orders the steps of two runs. What does is `Kept`: the proof is linked
once, a ceremony on disk and what a page holds never change, and a receipt of the proof is never replaced. What a thread or
an operator has found out (`ThreadInv`, `OperatorInv`) therefore stays true while any other takes its steps. With
that each step is one of `ApprovalSpec` or a stutter: what a thread publishes is a receipt of the saved proof over one that was kept
when the thread prepared it, and whom it answers signed that proof.

*Only model-checked:* both `RunEnds`, since liveness under fairness is out of the prover's reach. Every other property of a
passing run is a theorem.

## 6. What is left out

* Windows: the `msvcrt` branches of the locks.
* Loss of a directory entry after `os.replace` in a power failure: the code syncs the file, and the model takes a
  replacement for durable.
* A damaged ledger file, or one edited by hand; the code refuses it, or a hash tells.
* Fields no condition reads (descriptions, timestamps, process data), wording and formats, except where the reading back
  of a text is the point (`EvidenceLedger`).
* Whether deleted files are gone after a landing: `validate_landed` does not check it, and `DoneIsLive` does not claim it.
* A changed test that the runner validates while it holds the flock, and which takes the same flock in a child process: it
  blocks until its timeout, which is one of the failures `ReobserveFails` stands for.
* The content of a verdict: the adjudicator of the goal runner is a choice.
* Of the menu workflow: the batch wizard, which submits many requests in one call, product copies, the candidate posted to
  the point of sale, a draft that is turned to another item, and the log of rejected attempts.
* Of the vouchers: registration, the sovereign roots, staff accounts and channels and the capabilities of seats, which are taken to be in order;
  more than one member or product, as the sandbox parameters name one each; a manager's writes of a voucher's product or member, and of several vouchers at once
  (managers may not delete any); the `reserved` state is set by managers only, as in the code.
* Of the mobile approval: the checks of the signature, the host and the body, the status and health pages, and the temporary
  proxy, whose failures are the "error" of a report. A page is one load of it, which signs at most once.

## 7. Plan

1. **ContextPull** (`tools/total_field_dynamic_context_pull.py`): single-use coordinates, consumed before the packet is
   built; no context is handed out twice; abstract specification: a one-shot permit. Its store is outside `src/`.
2. **ConversationEvents** (`core/intent_continuity.py` 266-391): project and apply with copies of evidence and blocker
   lists that are written back whole; composed with `WorkLedger`; no evidence is lost, an event is applied once.
3. **AdaptiveNetwork**: failover and rollback guard over observations of routes.
4. **ResourceArbitration**: its ranking as operators, checked against a reference order over bounded profiles.
5. An abstract specification of a landing (all or nothing, as far as the restore goes) implemented by `GoalRunner`.
