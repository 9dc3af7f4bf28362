------------------------------ MODULE PinImport ------------------------------
(***************************************************************************)
(* How one account's pins are imported and deleted by request handlers     *)
(* that run at the same time (core/services/idempotency.py, pin_import.py, *)
(* batch_import.py, the deletion half of core/models.py), and how the      *)
(* files of a deleted or abandoned image are removed                       *)
(* (django_images/services/media_deletion.py and media_cleanup.py).        *)
(*                                                                         *)
(* A batch item has a row with a lease; a single pin (URL or upload) has   *)
(* none.  Images with the same content are stored once for an account.     *)
(* The database is the weaker of the two that are supported: transactions  *)
(* read what others have committed and wait for locked rows.               *)
(***************************************************************************)
EXTENDS Naturals, FiniteSets

CONSTANTS
    Handlers,              \* processes: request handlers and commands
    Items,                 \* client_item_id of the items of batches
    Singles,               \* imports without a row, each asked for once
    Digests,               \* content_sha256 of the images
    Digest,                \* the content each import fetches
    CasReevaluationLimit,  \* _CAS_REEVALUATION_LIMIT
    Commands,              \* which maintenance commands an operator runs
    Faults,                \* which faults may happen
    MaxEvents,             \* bound on faults and on leases that run out
    None

Imports == Items \cup Singles

ASSUME NoneAssumption == None \notin Imports \cup Digests
ASSUME ImportAssumption == Items \cap Singles = {}
ASSUME DigestAssumption == Digest \in [Imports -> Digests]
ASSUME LimitAssumption ==
    CasReevaluationLimit \in Nat \ {0} /\ MaxEvents \in Nat
ASSUME FaultAssumption ==
    Faults \subseteq {"crash", "retry", "final", "busy", "unlink", "slow"}

ASSUME CommandAssumption == Commands \subseteq {"retry", "sweep"}

VARIABLES
    item,       \* BatchImportItem rows
    begun,      \* the single imports asked for so far
    images,     \* assets with rows (Image, Thumbnail, MediaAsset)
    pins,       \* Pin rows: the asset of each
    pending,    \* assets with PendingMediaDeletion rows
    disk,       \* staging directories and published files
    proc,       \* what each handler is doing
    made,       \* history: the pins each item ever made
    abandoned,  \* history: assets whose files a dead or failing step left
    events      \* faults so far

vars == <<item, begun, images, pins, pending, disk, proc, made, abandoned,
          events>>
rows == <<item, begun, images, pins, pending, made>>

-----------------------------------------------------------------------------
(* An import prepares a new asset_uuid and makes one pin under each lease  *)
(* generation, so the pair names the asset and the pin.                    *)

Ids == Imports \X Nat
ContentOf(a) == Digest[a[1]]

Staging(a) == <<"staging", a>>
Final(a) == <<"final", a>>

Absent ==
    [state |-> "absent", gen |-> 0, expired |-> FALSE, retryable |-> FALSE,
     pin |-> None]

Idle ==
    [pc |-> "idle", job |-> None, gen |-> 0, seen |-> "none", tries |-> 0,
     image |-> None, pin |-> None, dedup |-> None, media |-> "free",
     error |-> "none"]

Init ==
    /\ item = [i \in Items |-> Absent]
    /\ begun = {}
    /\ images = {}
    /\ pins = [p \in {} |-> None]
    /\ pending = {}
    /\ disk = {}
    /\ proc = [h \in Handlers |-> Idle]
    /\ made = [i \in Items |-> {}]
    /\ abandoned = {}
    /\ events = 0

Fault(f) ==
    /\ f \in Faults
    /\ events < MaxEvents
    /\ events' = events + 1

-----------------------------------------------------------------------------
(* Locks.  The dedup lock of a content and the exclusive lifecycle lock    *)
(* exclude everyone; imports share the lifecycle lock.  All are flocks: a  *)
(* process that dies gives them up.                                        *)

\* Mutant: imports of the same content do not wait for each other.
DedupFree_Unlocked(d) == d \in Digests

DedupFree(d) == \A h \in Handlers : proc[h].dedup # d

NoExclusive == \A h \in Handlers : proc[h].media # "exclusive"

LifecycleFree == \A h \in Handlers : proc[h].media = "free"

\* The row of an item is locked from fence() to the end of the transaction,
\* a reused MediaAsset from its SELECT FOR UPDATE on.
RowLocked(i) ==
    \E h \in Handlers : proc[h].job = i /\ proc[h].pc \in {"fenced", "ready"}

AssetLocked(a) ==
    \E h \in Handlers : proc[h].pc = "ready" /\ proc[h].image = a

Own(h) == <<proc[h].job, proc[h].gen>>

\* Mutant: the lease is compared by its time only, not by its generation.
Owned_AnyLease(h) ==
    item[proc[h].job].state = "pending" /\ ~item[proc[h].job].expired

\* The lease filters of _owned_pending.
Owned(h) ==
    LET row == item[proc[h].job]
    IN  row.state = "pending" /\ row.gen = proc[h].gen /\ ~row.expired

\* An import without a claim has nothing to fence.
Fenced(h) == proc[h].job \in Items => Owned(h)

-----------------------------------------------------------------------------
(* Claiming an item.  An answer that changes nothing (replayed,            *)
(* in_progress, a failure for good) is no step.                            *)

Leased(g) ==
    [state |-> "pending", gen |-> g, expired |-> FALSE, retryable |-> FALSE,
     pin |-> None]

Reclaimable(row) ==
    \/ row.state = "pending" /\ row.expired
    \/ row.state = "failed" /\ row.retryable

Fetching(m, g) == [Idle EXCEPT !.pc = "fetch", !.job = m, !.gen = g]

Reclaiming(i, tries) ==
    [Idle EXCEPT !.pc = "reclaim", !.job = i, !.gen = item[i].gen,
                 !.seen = item[i].state, !.tries = tries]

\* The insert succeeds, or the row is there and is read.
Ask(h, i) ==
    /\ proc[h].pc = "idle"
    /\ \/ /\ item[i].state = "absent"
          /\ item' = [item EXCEPT ![i] = Leased(1)]
          /\ proc' = [proc EXCEPT ![h] = Fetching(i, 1)]
       \/ /\ Reclaimable(item[i])
          /\ proc' = [proc EXCEPT ![h] = Reclaiming(i, 1)]
          /\ UNCHANGED item
    /\ UNCHANGED <<begun, images, pins, pending, disk, made, abandoned, events>>

\* Mutant: the row that was read is saved instead of compared and swapped.
AsSeen_Saved(h) == proc[h].seen # "none"

\* The filters of the update in _reclaim.
AsSeen(h) ==
    LET row == item[proc[h].job]
    IN  /\ row.state = proc[h].seen
        /\ row.gen = proc[h].gen
        /\ Reclaimable(row)

MayTryAgain(h) == proc[h].tries < CasReevaluationLimit

Reclaim(h) ==
    LET i == proc[h].job
        g == proc[h].gen + 1
    IN  /\ proc[h].pc = "reclaim"
        /\ ~RowLocked(i)
        /\ \/ /\ AsSeen(h)
              /\ item' = [item EXCEPT ![i] = Leased(g)]
              /\ proc' = [proc EXCEPT ![h] = Fetching(i, g)]
           \/ /\ ~AsSeen(h)
              /\ MayTryAgain(h) /\ Reclaimable(item[i])
              /\ proc' = [proc EXCEPT ![h] = Reclaiming(i, proc[h].tries + 1)]
              /\ UNCHANGED item
           \/ /\ ~AsSeen(h)
              /\ ~(MayTryAgain(h) /\ Reclaimable(item[i]))
              /\ proc' = [proc EXCEPT ![h] = Idle]
              /\ UNCHANGED item
        /\ UNCHANGED <<begun, images, pins, pending, disk, made, abandoned,
                       events>>

\* The database stays busy: the claim is answered with an error.
ClaimBusy(h) ==
    /\ Fault("busy")
    /\ proc[h].pc = "reclaim"
    /\ proc' = [proc EXCEPT ![h] = Idle]
    /\ UNCHANGED <<rows, disk, abandoned>>

BeginSingle(h, s) ==
    /\ proc[h].pc = "idle"
    /\ s \notin begun
    /\ begun' = begun \cup {s}
    /\ proc' = [proc EXCEPT ![h] = Fetching(s, 1)]
    /\ UNCHANGED <<item, images, pins, pending, disk, made, abandoned, events>>

-----------------------------------------------------------------------------
(* Preparing the files and committing the pin.                             *)

Goto(h, pc) == [proc EXCEPT ![h].pc = pc]

Prepare(h) ==
    /\ proc[h].pc = "fetch"
    /\ disk' = disk \cup {Staging(Own(h))}
    /\ proc' = Goto(h, "prepared")
    /\ UNCHANGED <<rows, abandoned, events>>

\* process_item records the failure of an item; a single import only answers.
FailWith(h, e) ==
    \/ /\ proc[h].job \in Items
       /\ proc' = [proc EXCEPT ![h].pc = "failing", ![h].image = None,
                               ![h].error = e]
    \/ /\ proc[h].job \in Singles
       /\ proc' = [proc EXCEPT ![h] = Idle]

\* prepare_url removes what it staged before it raises.
FetchFails(h, e) ==
    /\ Fault(e)
    /\ proc[h].pc = "fetch"
    /\ FailWith(h, e)
    /\ UNCHANGED <<rows, disk, abandoned>>

TakeDedup(h) ==
    /\ proc[h].pc = "prepared"
    /\ DedupFree(Digest[proc[h].job])
    /\ proc' = [proc EXCEPT ![h].pc = "deduped",
                            ![h].dedup = Digest[proc[h].job]]
    /\ UNCHANGED <<rows, disk, abandoned, events>>

TakeLifecycle(h) ==
    /\ proc[h].pc = "deduped"
    /\ NoExclusive
    /\ proc' = [proc EXCEPT ![h].pc = "locked", ![h].media = "shared"]
    /\ UNCHANGED <<rows, disk, abandoned, events>>

\* An exception leaves the transaction and both locks before the receipts
\* are rolled back.
Rollback(h, e) ==
    proc' = [proc EXCEPT ![h].pc = "rollback", ![h].dedup = None,
                         ![h].media = "free", ![h].error = e]

\* A deadline, a lock that stays busy, the loss of a board, an error of the
\* database or of the storage.
ImportError(h, e) ==
    /\ Fault(e)
    /\ proc[h].pc \in {"prepared", "deduped", "locked", "fenced", "ready"}
    /\ Rollback(h, e)
    /\ UNCHANGED <<rows, disk, abandoned>>

Fence(h) ==
    /\ proc[h].pc = "locked"
    /\ \/ Fenced(h) /\ proc' = Goto(h, "fenced")
       \/ ~Fenced(h) /\ Rollback(h, "lost")
    /\ UNCHANGED <<rows, disk, abandoned, events>>

\* The MediaAsset rows with this content.
Stored(h) == {a \in images : ContentOf(a) = Digest[proc[h].job]}

\* An image of this content is there and its files are verified.
Reuse(h) ==
    /\ proc[h].pc = "fenced"
    /\ \E a \in Stored(h) :
          \/ /\ Final(a) \in disk
             /\ proc' = [proc EXCEPT ![h].pc = "ready", ![h].image = a]
          \/ Final(a) \notin disk /\ Rollback(h, "conflict")
    /\ UNCHANGED <<rows, disk, abandoned, events>>

Publish(h) ==
    /\ proc[h].pc = "fenced"
    /\ Stored(h) = {}
    /\ disk' = disk \cup {Final(Own(h))}
    /\ proc' = [proc EXCEPT ![h].pc = "ready", ![h].image = Own(h)]
    /\ UNCHANGED <<rows, abandoned, events>>

\* The unique constraint of MediaAsset.
Duplicate(h) == proc[h].image = Own(h) /\ Stored(h) # {}

\* verify_current, the last step of the transaction.
Verified(h) == Final(proc[h].image) \in disk

Succeeded(row, p) ==
    [row EXCEPT !.state = "succeeded", !.expired = FALSE, !.pin = p]

AddPin(p, a) == [q \in DOMAIN pins \cup {p} |-> IF q = p THEN a ELSE pins[q]]

\* The rows of a new image, the pin and record_success, in one transaction.
Commit(h) ==
    LET m == proc[h].job
    IN  /\ proc[h].pc = "ready"
        /\ ~Duplicate(h)
        /\ Fenced(h)
        /\ Verified(h)
        /\ images' = images \cup {proc[h].image}
        /\ pins' = AddPin(Own(h), proc[h].image)
        /\ \/ /\ m \in Items
              /\ item' = [item EXCEPT ![m] = Succeeded(item[m], Own(h))]
              /\ made' = [made EXCEPT ![m] = made[m] \cup {Own(h)}]
           \/ m \in Singles /\ UNCHANGED <<item, made>>
        /\ proc' = [proc EXCEPT ![h].pc = "finish", ![h].dedup = None,
                                ![h].media = "free"]
        /\ UNCHANGED <<begun, pending, disk, abandoned, events>>

CommitFails(h) ==
    /\ proc[h].pc = "ready"
    /\ \/ Duplicate(h) /\ Rollback(h, "conflict")
       \/ ~Duplicate(h) /\ ~Fenced(h) /\ Rollback(h, "lost")
       \/ ~Duplicate(h) /\ Fenced(h) /\ ~Verified(h) /\ Rollback(h, "conflict")
    /\ UNCHANGED <<rows, disk, abandoned, events>>

\* The receipts of a committed import are released and the pin is answered.
Finish(h) ==
    /\ proc[h].pc = "finish"
    /\ disk' = disk \ {Staging(Own(h))}
    /\ proc' = [proc EXCEPT ![h] = Idle]
    /\ UNCHANGED <<rows, abandoned, events>>

-----------------------------------------------------------------------------
(* After a rollback: the files this import published and staged go, then   *)
(* the failure is recorded unless the lease was lost.                      *)

\* Mutant: only the staging directory is cleaned.
Created_Forgotten(h) == {proc[h].image} \cap {None}

Created(h) == {proc[h].image} \cap {Own(h)}

Compensate(h) ==
    /\ proc[h].pc = "rollback"
    /\ disk' = disk \ ({Staging(Own(h))} \cup {Final(a) : a \in Created(h)})
    /\ FailWith(h, proc[h].error)
    /\ UNCHANGED <<rows, abandoned, events>>

\* An unlink fails: compensate logs it and goes on.
CompensateFails(h) ==
    /\ Fault("unlink")
    /\ proc[h].pc = "rollback"
    /\ Created(h) # {}
    /\ disk' = disk \ {Staging(Own(h))}
    /\ abandoned' = abandoned \cup {Own(h)}
    /\ FailWith(h, proc[h].error)
    /\ UNCHANGED rows

\* Mutant: the error is saved as the state.
Failed_ErrorAsState(row, e) ==
    [row EXCEPT !.state = e, !.expired = FALSE, !.retryable = (e = "retry")]

Failed(row, e) ==
    [row EXCEPT !.state = "failed", !.expired = FALSE,
                !.retryable = (e = "retry")]

RecordFailure(h) ==
    LET i == proc[h].job
    IN  /\ proc[h].pc = "failing"
        /\ \/ /\ proc[h].error # "lost" /\ Owned(h)
              /\ item' = [item EXCEPT ![i] = Failed(item[i], proc[h].error)]
           \/ /\ proc[h].error = "lost" \/ ~Owned(h)
              /\ UNCHANGED item
        /\ proc' = [proc EXCEPT ![h] = Idle]
        /\ UNCHANGED <<begun, images, pins, pending, disk, made, abandoned,
                       events>>

\* The database stays busy: the row is left to its lease.
RecordBusy(h) ==
    /\ Fault("busy")
    /\ proc[h].pc = "failing"
    /\ proc' = [proc EXCEPT ![h] = Idle]
    /\ UNCHANGED <<rows, disk, abandoned>>

-----------------------------------------------------------------------------
(* Deleting a pin.  The registry is read before the dedup lock is taken    *)
(* and compared inside the transaction.                                    *)

BeginDelete(h, p) ==
    /\ proc[h].pc = "idle"
    /\ p \in DOMAIN pins
    /\ proc' = [proc EXCEPT ![h] = [Idle EXCEPT !.pc = "delete", !.pin = p,
                                                !.image = pins[p]]]
    /\ UNCHANGED <<rows, disk, abandoned, events>>

\* media_dedup_lock waits until a deadline (PINRY_FETCH_TOTAL_TIMEOUT), which may
\* be over at any moment that another handler has the lock.
DeleteDedup(h) ==
    /\ proc[h].pc = "delete"
    /\ \/ /\ DedupFree(ContentOf(proc[h].image))
          /\ proc' = [proc EXCEPT ![h].pc = "deleting",
                                  ![h].dedup = ContentOf(proc[h].image)]
       \/ /\ ~DedupFree(ContentOf(proc[h].image))
          /\ proc' = [proc EXCEPT ![h] = Idle]
    /\ UNCHANGED <<rows, disk, abandoned, events>>

PinsOf(a) == {q \in DOMAIN pins : pins[q] = a}

Known(h) == proc[h].pin \in DOMAIN pins /\ proc[h].image \in images

\* BatchImportItem.pin is set to NULL; the state stays.
Forget(p) ==
    [i \in Items |-> [item[i] EXCEPT !.pin = IF @ = p THEN None ELSE @]]

\* registered_media_identity_changed
DeletePinFails(h) ==
    /\ proc[h].pc = "deleting"
    /\ ~Known(h)
    /\ proc' = [proc EXCEPT ![h] = Idle]
    /\ UNCHANGED <<rows, disk, abandoned, events>>

\* Mutant: the image goes with the pin it was stored for.
LastPin_Creator(h) == proc[h].image = proc[h].pin

LastPin(h) == PinsOf(proc[h].image) = {proc[h].pin}

\* The last pin takes the image with it, whose file names are journalled;
\* the files are removed after the commit, still under the dedup lock.
DeletePin(h) ==
    LET p == proc[h].pin
        a == proc[h].image
    IN  /\ proc[h].pc = "deleting"
        /\ Known(h)
        /\ ~AssetLocked(a)
        /\ pins' = [q \in DOMAIN pins \ {p} |-> pins[q]]
        /\ item' = Forget(p)
        /\ \/ /\ LastPin(h)
              /\ images' = images \ {a}
              /\ pending' = pending \cup {a}
              /\ proc' = Goto(h, "remove")
           \/ /\ ~LastPin(h)
              /\ proc' = [proc EXCEPT ![h] = Idle]
              /\ UNCHANGED <<images, pending>>
        /\ UNCHANGED <<begun, disk, made, abandoned, events>>

-----------------------------------------------------------------------------
(* Removing the files of a journalled deletion: right after the commit, or *)
(* by the command retry_media_deletions.                                   *)

Retry(h, a) ==
    /\ "retry" \in Commands
    /\ proc[h].pc = "idle"
    /\ a \in pending
    /\ proc' = [proc EXCEPT ![h] = [Idle EXCEPT !.pc = "remove", !.image = a]]
    /\ UNCHANGED <<rows, disk, abandoned, events>>

\* The exclusive lock has no deadline: when anyone holds it, the attempt has
\* failed and the row stays.
Remove(h) ==
    /\ proc[h].pc = "remove"
    /\ \/ /\ proc[h].image \in images
          /\ proc' = Goto(h, "removed")
       \/ /\ proc[h].image \notin images /\ LifecycleFree
          /\ proc' = [proc EXCEPT ![h].pc = "removing",
                                  ![h].media = "exclusive"]
       \/ /\ proc[h].image \notin images /\ ~LifecycleFree
          /\ proc' = [proc EXCEPT ![h] = Idle]
    /\ UNCHANGED <<rows, disk, abandoned, events>>

\* Mutant: the removal of a file that is missing already fails.
RemoveFile_MissingFails(h) ==
    /\ proc[h].pc = "removing"
    /\ \/ /\ Final(proc[h].image) \in disk
          /\ disk' = disk \ {Final(proc[h].image)}
          /\ proc' = [proc EXCEPT ![h].pc = "removed", ![h].media = "free"]
       \/ /\ Final(proc[h].image) \notin disk
          /\ proc' = [proc EXCEPT ![h] = Idle]
          /\ UNCHANGED disk
    /\ UNCHANGED <<rows, abandoned, events>>

\* A file that is missing already counts as removed.
RemoveFile(h) ==
    /\ proc[h].pc = "removing"
    /\ \/ proc[h].image \in images /\ UNCHANGED disk
       \/ /\ proc[h].image \notin images
          /\ disk' = disk \ {Final(proc[h].image)}
    /\ proc' = [proc EXCEPT ![h].pc = "removed", ![h].media = "free"]
    /\ UNCHANGED <<rows, abandoned, events>>

RemoveFails(h) ==
    /\ Fault("unlink")
    /\ proc[h].pc = "removing"
    /\ proc' = [proc EXCEPT ![h] = Idle]
    /\ UNCHANGED <<rows, disk, abandoned>>

ForgetPending(h) ==
    /\ proc[h].pc = "removed"
    /\ pending' = pending \ {proc[h].image}
    /\ proc' = [proc EXCEPT ![h] = Idle]
    /\ UNCHANGED <<item, begun, images, pins, disk, made, abandoned, events>>

-----------------------------------------------------------------------------
(* The command cleanup_orphan_media.  Its minimum age is left out, so that *)
(* the lock alone has to protect the files an import has published;        *)
(* staging directories have only their age, which no request reaches.      *)

InHand(a) ==
    \E h \in Handlers :
        /\ proc[h].job # None /\ Own(h) = a
        /\ proc[h].pc \notin {"reclaim", "failing"}

BeginSweep(h, a) ==
    /\ "sweep" \in Commands
    /\ proc[h].pc = "idle"
    /\ Final(a) \in disk
    /\ a \notin images
    /\ proc' = [proc EXCEPT ![h] = [Idle EXCEPT !.pc = "sweep", !.image = a]]
    /\ UNCHANGED <<rows, disk, abandoned, events>>

\* Mutant: the candidate is not looked at again under the lock.
StillOrphan_AsScanned(h) == proc[h].image # None

StillOrphan(h) == proc[h].image \notin images

\* _execute_closure: the candidate is looked at again under the lock.
Sweep(h) ==
    /\ proc[h].pc = "sweep"
    /\ \/ /\ LifecycleFree /\ StillOrphan(h)
          /\ disk' = disk \ {Final(proc[h].image)}
       \/ /\ ~(LifecycleFree /\ StillOrphan(h))
          /\ UNCHANGED disk
    /\ proc' = [proc EXCEPT ![h] = Idle]
    /\ UNCHANGED <<rows, abandoned, events>>

SweepStaging(h, a) ==
    /\ "sweep" \in Commands
    /\ proc[h].pc = "idle"
    /\ Staging(a) \in disk
    /\ ~InHand(a)
    /\ LifecycleFree
    /\ disk' = disk \ {Staging(a)}
    /\ UNCHANGED <<rows, proc, abandoned, events>>

-----------------------------------------------------------------------------
(* Time and crashes.                                                       *)

\* The handler that holds the lease of the item's row.
Holder(i, h) ==
    /\ proc[h].job = i /\ proc[h].gen = item[i].gen
    /\ proc[h].pc \notin {"reclaim", "finish"}

\* The lease runs out: at once when its handler is gone, and as a fault when
\* the handler is slow or was suspended.
Expire(i) ==
    /\ item[i].state = "pending" /\ ~item[i].expired
    /\ \/ /\ \A h \in Handlers : ~Holder(i, h)
          /\ UNCHANGED events
       \/ /\ \E h \in Handlers : Holder(i, h)
          /\ Fault("slow")
    /\ item' = [item EXCEPT ![i].expired = TRUE]
    /\ UNCHANGED <<begun, images, pins, pending, disk, proc, made, abandoned>>

\* The transaction is rolled back and the locks are free; files stay.
Crash(h) ==
    /\ Fault("crash")
    /\ proc[h].pc # "idle"
    /\ abandoned' = abandoned \cup {a \in {Own(h)} : InHand(a)}
    /\ proc' = [proc EXCEPT ![h] = Idle]
    /\ UNCHANGED <<rows, disk>>

-----------------------------------------------------------------------------

ImportStep(h) ==
    \/ Reclaim(h) \/ Prepare(h) \/ TakeDedup(h) \/ TakeLifecycle(h)
    \/ Fence(h) \/ Reuse(h) \/ Publish(h) \/ Commit(h) \/ CommitFails(h)
    \/ Finish(h) \/ Compensate(h) \/ RecordFailure(h)

DeleteStep(h) ==
    \/ DeleteDedup(h) \/ DeletePinFails(h) \/ DeletePin(h)
    \/ Remove(h) \/ RemoveFile(h) \/ ForgetPending(h) \/ Sweep(h)

Failure(h) ==
    \/ ClaimBusy(h)
    \/ \E e \in {"retry", "final"} : FetchFails(h, e) \/ ImportError(h, e)
    \/ CompensateFails(h) \/ RecordBusy(h) \/ RemoveFails(h) \/ Crash(h)

Request(h) ==
    \/ \E i \in Items : Ask(h, i)
    \/ \E s \in Singles : BeginSingle(h, s)
    \/ \E p \in DOMAIN pins : BeginDelete(h, p)

Assets == images \cup pending \cup {f[2] : f \in disk}

Maintenance(h) ==
    \E a \in Assets : Retry(h, a) \/ BeginSweep(h, a) \/ SweepStaging(h, a)

Next ==
    \/ \E h \in Handlers :
          \/ ImportStep(h) \/ DeleteStep(h) \/ Failure(h)
          \/ Request(h) \/ Maintenance(h)
    \/ \E i \in Items : Expire(i)

Spec == Init /\ [][Next]_vars

\* A handler goes on; clients ask again until they are answered for good;
\* time passes; an operator runs retry_media_deletions now and then.
FairSpec ==
    /\ Spec
    /\ \A h \in Handlers : WF_vars(ImportStep(h) \/ DeleteStep(h))
    /\ \A i \in Items : SF_vars(\E h \in Handlers : Ask(h, i))
    /\ \A i \in Items :
          WF_vars(Expire(i) /\ \A h \in Handlers : ~Holder(i, h))
    /\ SF_vars(\E h \in Handlers : \E a \in pending : Retry(h, a))

-----------------------------------------------------------------------------
(* Properties.                                                             *)

ItemStates == {"absent", "pending", "succeeded", "failed"}
Steps == {"idle", "reclaim", "fetch", "prepared", "deduped", "locked",
          "fenced", "ready", "finish", "rollback", "failing", "delete",
          "deleting", "remove", "removing", "removed", "sweep"}
Rows == [state : ItemStates, gen : Nat, expired : BOOLEAN,
         retryable : BOOLEAN, pin : Ids \cup {None}]
Processes ==
    [pc : Steps, job : Imports \cup {None}, gen : Nat,
     seen : ItemStates \cup {"none"}, tries : 0 .. CasReevaluationLimit,
     image : Ids \cup {None}, pin : Ids \cup {None},
     dedup : Digests \cup {None}, media : {"free", "shared", "exclusive"},
     error : {"none", "retry", "final", "lost", "conflict"}]

\* The shape of rows, files and processes; in particular a claim looks at the
\* row at most CasReevaluationLimit times (claim, idempotency.py).
TypeOK ==
    /\ item \in [Items -> Rows]
    /\ begun \subseteq Singles
    /\ images \subseteq Ids
    /\ DOMAIN pins \subseteq Ids
    /\ \A p \in DOMAIN pins : pins[p] \in Ids
    /\ pending \subseteq Ids
    /\ disk \subseteq {"staging", "final"} \X Ids
    /\ proc \in [Handlers -> Processes]
    /\ made \in [Items -> SUBSET Ids]
    /\ abandoned \subseteq Ids
    /\ events \in 0 .. MaxEvents

\* However often a client asks, whichever handlers work on the item at the
\* same time and whatever happens to them or to the pin afterwards, an item
\* makes at most one pin, and its row says so from then on.
AtMostOncePerItem ==
    \A i \in Items :
        /\ Cardinality(made[i]) <= 1
        /\ made[i] # {} => item[i].state = "succeeded"

\* A handler whose lease has run out or was given to another never settles
\* the item: fence, record_success and record_failure compare the lease.
SettledByLeaseHolder ==
    [][\A i \in Items :
          item[i].state = "pending" /\ item'[i].state \in {"succeeded", "failed"}
          => /\ ~item[i].expired
             /\ \E h \in Handlers :
                   /\ Holder(i, h) /\ proc[h].pc \in {"ready", "failing"}
                   /\ proc'[h] # proc[h]]_vars

\* No import fails for good because of what others do at the same time: it
\* never finds the image of its content without files, its own files removed,
\* or the image stored by another import since it looked.
OnlyOwnFailures == \A h \in Handlers : proc[h].error # "conflict"

\* The files of every committed image are on the disk, through reuse,
\* deletion, compensation, sweeps and crashes.
ReferencedFilesPresent == \A a \in images : Final(a) \in disk

\* Every pin has its image, every image has a pin: an import that reuses an
\* image and the deletion of its last pin do not miss each other.
ImagesMatchPins == images = {pins[p] : p \in DOMAIN pins}

\* Every file on the disk is accounted for: by a row, by the journal, by the
\* import that works on it, or by a crash or a failed unlink (which leave it
\* to cleanup_orphan_media).
NothingForgotten ==
    \A f \in disk :
        \/ f[2] \in abandoned
        \/ InHand(f[2])
        \/ f[1] = "final" /\ f[2] \in images \cup pending

Settled(i) ==
    \/ item[i].state = "succeeded"
    \/ item[i].state = "failed" /\ ~item[i].retryable

\* An item that was asked for is imported or refused for good, even when the
\* handler that claimed it dies or the database stays busy.
ItemSettles == \A i \in Items : item[i].state # "absent" ~> Settled(i)

\* What was journalled for deletion is removed sooner or later, although an
\* attempt gives up as soon as any import holds the lifecycle lock: the journal
\* is empty again and again, and by NothingForgotten nothing it held is on disk.
PendingDrains == []<>(pending = {})

\* Neither a dead handler nor a busy lock leaves work undone for good.
ImportsSettle == ItemSettles /\ PendingDrains

=============================================================================
