------------------------------- MODULE Drafts -------------------------------
(***************************************************************************)
(* The draft of a shift: claim, heartbeat and the four revision-fenced     *)
(* writes.  A lease is counted in units of time that are left: it is       *)
(* unexpired while positive, and LeaseTick lets one unit pass.             *)
(*                                                                         *)
(* Claim tokens are random UUIDs, so only a device that received the       *)
(* answer to a claim can send its token.  `known` is what each device of   *)
(* a user has been told; an answer may be lost.                            *)
(***************************************************************************)
EXTENDS Shifts

CONSTANTS
    Devices,        \* pairs <<user, n>>: a browser of that user
    Nozzles,        \* keys of draft_readings
    Dispensers,     \* keys of draft_sales
    LossIds,        \* keys of draft_losses
    LeaseDuration,  \* draftLeaseDuration in units of LeaseTick
    MaxClaims,      \* bound: claims per station
    MaxRevision     \* bound: revision of a draft

ASSUME DevicesAssumption == Devices \subseteq Users \X Nat
ASSUME LeaseAssumption == LeaseDuration \in Nat \ {0}
ASSUME DraftBoundsAssumption == MaxClaims \in Nat /\ MaxRevision \in Nat

VARIABLES
    issued,      \* number of claim tokens handed out
    known        \* what each device knows: shift, claim token, revision

draftVars == <<issued, known>>

UserOf(d) == d[1]

Item == ({"reading"} \X Nozzles) \cup ({"sale"} \X Dispensers)
            \cup ({"loss", "evidence"} \X LossIds)

Nothing == [shift |-> NoId, token |-> NoId, rev |-> 0]

DraftsInit ==
    /\ issued = 0
    /\ known = [d \in Devices |-> Nothing]

Unexpired(s) == drafts[s].lease > 0

Written(s) == {x.item : x \in drafts[s].rows}

(***************************************************************************)
(* An answer carries knowledge to the device, or is lost on the way.       *)
(***************************************************************************)
Answer(d, fact) == known' \in {known, [known EXCEPT ![d] = fact]}

(***************************************************************************)
(* Refused only while another user holds an unexpired lease.  Neither the  *)
(* status of the draft nor that of the shift is read, and the revision is  *)
(* kept.                                                                   *)
(***************************************************************************)
Claim(d, s) ==
    /\ issued < MaxClaims
    /\ s \in DOMAIN drafts
    /\ ~(Unexpired(s) /\ drafts[s].owner # UserOf(d))
    /\ issued' = issued + 1
    /\ drafts' = [drafts EXCEPT ![s].owner = UserOf(d),
                                ![s].token = issued + 1,
                                ![s].lease = LeaseDuration,
                                ![s].status = "editing"]
    /\ Answer(d, [shift |-> s, token |-> issued + 1, rev |-> drafts[s].revision])
    /\ UNCHANGED <<shifts, audit>>

HoldsLeaseAnyToken(d, s) ==
    /\ drafts[s].owner = UserOf(d)
    /\ drafts[s].token # NoId
    /\ Unexpired(s)

\* The draft's own lease test: owner, token and time.
HoldsLease(d, s) ==
    /\ drafts[s].owner = UserOf(d)
    /\ drafts[s].token # NoId
    /\ drafts[s].token = known[d].token
    /\ Unexpired(s)

Heartbeat(d) ==
    LET s == known[d].shift
    IN  /\ s \in DOMAIN drafts
        /\ HoldsLease(d, s)
        /\ drafts[s].status = "editing"
        /\ drafts' = [drafts EXCEPT ![s].lease = LeaseDuration]
        /\ UNCHANGED <<shifts, audit, issued, known>>

(***************************************************************************)
(* lockDraftForMutation, the insert of one child row and advanceDraft.     *)
(* The row keeps the revision it made and the claim token it was written   *)
(* under as history fields.                                                *)
(***************************************************************************)
Write(d, item) ==
    LET s == known[d].shift
        next == drafts[s].revision + 1
    IN  /\ s \in DOMAIN drafts
        /\ HoldsLease(d, s)
        /\ drafts[s].revision = known[d].rev
        /\ next <= MaxRevision
        /\ drafts' = [drafts EXCEPT
                        ![s].rows = @ \cup {[rev   |-> next,
                                             item  |-> item,
                                             by    |-> UserOf(d),
                                             token |-> known[d].token]},
                        ![s].revision = next]
        /\ Answer(d, [known[d] EXCEPT !.rev = next])
        /\ UNCHANGED <<shifts, audit, issued>>

\* UNIQUE (draft_id, nozzle_id)
WriteReading(d, n) ==
    /\ <<"reading", n>> \notin Written(known[d].shift)
    /\ Write(d, <<"reading", n>>)

WriteSalesAgain(d, p) == Write(d, <<"sale", p>>)

\* UNIQUE (draft_id, dispenser_id)
WriteSales(d, p) ==
    /\ <<"sale", p>> \notin Written(known[d].shift)
    /\ Write(d, <<"sale", p>>)

\* UNIQUE (draft_id, loss_id)
WriteLoss(d, l) ==
    /\ <<"loss", l>> \notin Written(known[d].shift)
    /\ Write(d, <<"loss", l>>)

\* FOREIGN KEY to the loss row; a second object for the same loss is allowed.
StageEvidence(d, l) ==
    /\ <<"loss", l>> \in Written(known[d].shift)
    /\ Write(d, <<"evidence", l>>)

\* GET of the shift: the only read that tells a device the current revision.
ReadDetail(d) ==
    LET s == known[d].shift
    IN  /\ s \in DOMAIN drafts
        /\ known[d].rev # drafts[s].revision
        /\ known' = [known EXCEPT ![d].rev = drafts[s].revision]
        /\ UNCHANGED <<shifts, drafts, audit, issued>>

LeaseTick ==
    /\ \E s \in DOMAIN drafts : Unexpired(s)
    /\ drafts' = [s \in DOMAIN drafts |->
                    [drafts[s] EXCEPT !.lease = IF @ > 0 THEN @ - 1 ELSE 0]]
    /\ UNCHANGED <<shifts, audit, issued, known>>

DraftStep ==
    \/ \E d \in Devices :
         \/ \E s \in DOMAIN drafts : Claim(d, s)
         \/ /\ known[d].shift \in DOMAIN drafts
            /\ \/ Heartbeat(d)
               \/ \E n \in Nozzles : WriteReading(d, n)
               \/ \E p \in Dispensers : WriteSales(d, p)
               \/ \E l \in LossIds : WriteLoss(d, l) \/ StageEvidence(d, l)
               \/ ReadDetail(d)
    \/ LeaseTick

=============================================================================
