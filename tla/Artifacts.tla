------------------------------ MODULE Artifacts ------------------------------
(***************************************************************************)
(* Artifacts: how the bytes of a build's outputs get into the content      *)
(* store, how PostgreSQL says which of them may be listed, and how they    *)
(* are deleted once nobody protects them.                                  *)
(*                                                                         *)
(* There are two ways in.  A member of an artifact set is received by the  *)
(* controller's agent service, registered, and becomes available together  *)
(* with the whole set.  A plain artifact is staged and committed through   *)
(* the public API.  Both go through the staging directory of the object    *)
(* store, where a claimed file is kept from the reaper.  Content is shared *)
(* by digest over all organizations.                                       *)
(*                                                                         *)
(* A store call is one transaction, a file operation happens under the     *)
(* store's quota lock, and everything between two of them may stop: a call *)
(* is dropped, a controller crashes, an answer is lost and the call made   *)
(* again.  The deletion worker is not part of the repository; it follows   *)
(* the contract of the deletion claims.  Of an attempt only what the calls *)
(* check is kept; ControllerTruth has the rest.                            *)
(*                                                                         *)
(* Not kept: quotas, which refuse and leave nothing behind, and the gap    *)
(* statuses a download records.                                            *)
(***************************************************************************)
EXTENDS Naturals, FiniteSets

CONSTANTS
    Members,        \* objects of artifact sets
    Plains,         \* objects published through the API
    Producers,      \* attempts at one fence; each has at most one set
    ProducerOf,     \* the attempt of an object
    OrgOf,          \* the organization of an object
    DigestOf,       \* the content of an object
    MaxUploads,     \* bound: uploads of each object
    Callers,        \* commit calls of the API in progress
    Deleters,       \* deletion workers
    MaxClaims,      \* bound: deletion claims of a digest
    Fleeting,       \* retentions that may end, by organization and digest
    Unsteady,       \* attempts whose lease may expire, revive or be lost
    Cancellable,    \* attempts that may be cancelled
    Holds,          \* legal holds that may be asked for
    Plays,          \* the sets of objects uploaded in one behaviour
    NoHandle        \* no token, no deletion claim

Objects == Members \cup Plains
Digests == {DigestOf[x] : x \in Objects}
Organizations == {OrgOf[x] : x \in Objects}

ASSUME ArtifactsAssumption ==
    /\ Members \cap Plains = {}
    /\ ProducerOf \in [Objects -> Producers]
    /\ MaxUploads \in [Objects -> Nat] /\ MaxClaims \in Nat

VARIABLES
    ownership,      \* attempts: the lease is live or expired, the attempt ended or lost
    stopping,       \* attempts being cancelled
    artifactSet,    \* artifact_sets.state
    objectRow,      \* attempt_objects.status
    pendingToken,   \* artifact_set_members.pending_token, 0 for null
    uploads,        \* staging files ever made for an object
    staging,        \* the staging directory: the name each file has
    aged,           \* files older than the staged upload ttl
    content,        \* digests in the content store
    retention,      \* object_retention by organization and digest
    held,           \* active legal holds
    deletion,       \* object_deletion_claims
    stager,         \* the call that holds a member's row lock
    committer,      \* the call that commits a set
    aborting,       \* sets whose abort still has files to remove
    caller,         \* commit calls of the API
    reaper,         \* the claim the reaper is looking at
    deleter         \* what each deletion worker holds

rowVars == <<artifactSet, objectRow, pendingToken>>
fileVars == <<uploads, staging, aged, content>>
protectionVars == <<retention, held, deletion>>
callVars == <<stager, committer, aborting, caller, reaper, deleter>>
artifactVars == <<ownership, stopping, rowVars, fileVars, protectionVars, callVars>>

Tokens == UNION {{x} \X (1 .. MaxUploads[x]) : x \in Objects}
MembersOf(a) == {m \in Members : ProducerOf[m] = a}
NoClaim == [status |-> "none", serial |-> 0]
NoCall == [at |-> "idle", token |-> 0]

ArtifactsInit ==
    /\ \E play \in Plays :
          /\ ownership = [a \in Producers |->
                            IF \E x \in play : ProducerOf[x] = a THEN "live" ELSE "lost"]
          /\ uploads = [x \in Objects |-> IF x \in play THEN 0 ELSE MaxUploads[x]]
    /\ stopping = {}
    /\ artifactSet = [a \in Producers |-> "none"]
    /\ objectRow = [x \in Objects |-> "none"]
    /\ pendingToken = [m \in Members |-> 0]
    /\ staging = [t \in Tokens |-> "none"]
    /\ aged = {}
    /\ content = {}
    /\ retention = [od \in Organizations \X Digests |-> "none"]
    /\ held = {}
    /\ deletion = [d \in Digests |-> NoClaim]
    /\ stager = [m \in Members |-> NoCall]
    /\ committer = [a \in Producers |-> [at |-> "idle", todo |-> {}, whole |-> FALSE]]
    /\ aborting = {}
    /\ caller = [c \in Callers |-> [at |-> "idle", token |-> NoHandle]]
    /\ reaper = [at |-> "idle", token |-> NoHandle]
    /\ deleter = [w \in Deleters |-> NoHandle]

----------------------------------------------------------------------------
(* What several operations share *)

(* authorize of artifact_sets.rs. *)
MayPublish(a) == ownership[a] = "live" /\ a \notin stopping
MayAbort(a) == ownership[a] = "live"

(* mcloving_guard_object_deletion_write: no row may come to refer to, retain *)
(* or hold a digest that has a deletion claim.                               *)
Unclaimed(d) == deletion[d].status = "none"

Extended(x) == [retention EXCEPT ![<<OrgOf[x], DigestOf[x]>>] = "live"]

(* claim_pending: the bytes are there under either name, or in the store;    *)
(* the file gets its claimed name and a new age.                             *)
Claimable(t) == staging[t] # "none" \/ DigestOf[t[1]] \in content
ClaimFile(t) ==
    /\ staging' = [staging EXCEPT ![t] = IF @ = "none" THEN @ ELSE "claimed"]
    /\ aged' = aged \ {t}

RemoveFiles(files) ==
    /\ staging' = [t \in Tokens |-> IF t \in files THEN "none" ELSE staging[t]]
    /\ aged' = aged \ files

(* commit: the link into the content store, then the staging name goes; a    *)
(* crash in between leaves both.                                             *)
LinkAndRemove(t) == content' = content \cup {DigestOf[t[1]]} /\ RemoveFiles({t})
LinkOnly(t) == content' = content \cup {DigestOf[t[1]]} /\ UNCHANGED <<staging, aged>>

(* Rows that were reserved under a set go with it. *)
SetsAborted(sets) ==
    /\ artifactSet' = [a \in Producers |-> IF a \in sets THEN "aborted" ELSE artifactSet[a]]
    /\ objectRow' = [x \in Objects |->
                       IF x \in Members /\ ProducerOf[x] \in sets /\ objectRow[x] = "pending"
                       THEN "missing" ELSE objectRow[x]]
    /\ UNCHANGED pendingToken

----------------------------------------------------------------------------
(* The attempt, as its other handlers change it *)

(* A lease expires, is revived by recover_agent_finalization, or is over: an *)
(* ended or parked attempt keeps its owner, a requeued or restored one does  *)
(* not.                                                                      *)
LeaseChanges(a) ==
    /\ a \in Unsteady /\ ownership[a] \in {"live", "expired"}
    /\ \E s \in {"live", "expired", "ended", "lost"} \ {ownership[a]} :
          ownership' = [ownership EXCEPT ![a] = s]
    /\ UNCHANGED <<stopping, rowVars, fileVars, protectionVars, callVars>>

Cancel(a) ==
    /\ a \notin stopping /\ a \in Cancellable /\ ownership[a] \in {"live", "expired"}
    /\ stopping' = stopping \cup {a}
    /\ UNCHANGED <<ownership, rowVars, fileVars, protectionVars, callVars>>

----------------------------------------------------------------------------
(* Artifact sets *)

begin_artifact_set(a) ==
    /\ MayPublish(a) /\ artifactSet[a] = "none" /\ MembersOf(a) # {}
    /\ artifactSet' = [artifactSet EXCEPT ![a] = "staging"]
    /\ UNCHANGED <<ownership, stopping, objectRow, pendingToken, fileVars, protectionVars, callVars>>

(* stage: the member's row lock is held from here to the registration.  The *)
(* bytes are received, persisted and claimed under a name nobody else knows. *)
stage(m) == LET a == ProducerOf[m]  n == uploads[m] + 1 IN
    /\ stager[m].at = "idle" /\ MayPublish(a)
    /\ artifactSet[a] \in {"staging", "available"}
    /\ \/ /\ pendingToken[m] = 0 /\ n <= MaxUploads[m]
          /\ uploads' = [uploads EXCEPT ![m] = n]
          /\ staging' = [staging EXCEPT ![<<m, n>>] = "claimed"]
          /\ stager' = [stager EXCEPT ![m] = [at |-> "received", token |-> n]]
       \/ /\ pendingToken[m] # 0
          /\ stager' = [stager EXCEPT ![m].at = "retrying"]
          /\ UNCHANGED <<uploads, staging>>
    /\ UNCHANGED <<ownership, stopping, rowVars, aged, content, protectionVars,
                   committer, aborting, caller, reaper, deleter>>

(* A registered member's retry claims the file it registered and changes no  *)
(* row.                                                                      *)
RetryMember(m) == LET t == <<m, pendingToken[m]>> IN
    /\ stager[m].at = "retrying" /\ Claimable(t)
    /\ ClaimFile(t)
    /\ stager' = [stager EXCEPT ![m] = NoCall]
    /\ UNCHANGED <<ownership, stopping, rowVars, uploads, content, protectionVars,
                   committer, aborting, caller, reaper, deleter>>

(* ArtifactMemberClaim::register. *)
register(m) == LET a == ProducerOf[m] IN
    /\ stager[m].at = "received" /\ MayPublish(a)
    /\ artifactSet[a] \in {"staging", "available"} /\ Unclaimed(DigestOf[m])
    /\ objectRow' = [objectRow EXCEPT ![m] = "pending"]
    /\ pendingToken' = [pendingToken EXCEPT ![m] = stager[m].token]
    /\ retention' = Extended(m)
    /\ stager' = [stager EXCEPT ![m] = NoCall]
    /\ UNCHANGED <<ownership, stopping, artifactSet, fileVars, held, deletion,
                   committer, aborting, caller, reaper, deleter>>

(* The call ends without a registration.  Dropped before it could register,  *)
(* it removes its file; refused or cut off later, or in a crash, it leaves    *)
(* the file to the reaper.                                                    *)
LeaveStage(m) ==
    /\ stager[m].at # "idle"
    /\ stager' = [stager EXCEPT ![m] = NoCall]
    /\ \/ stager[m].at = "received" /\ RemoveFiles({<<m, stager[m].token>>})
       \/ UNCHANGED <<staging, aged>>
    /\ UNCHANGED <<ownership, stopping, rowVars, uploads, content, protectionVars,
                   committer, aborting, caller, reaper, deleter>>

(* control, commit: the members are read, their bytes published one by one,  *)
(* then the rows.  A member without a token ends the call.                   *)
artifact_set_members(a) ==
    /\ committer[a].at = "idle" /\ MayPublish(a)
    /\ artifactSet[a] \in {"staging", "available"}
    /\ committer' = [committer EXCEPT ![a] =
                       [at |-> "publishing",
                        todo |-> {m \in MembersOf(a) : pendingToken[m] # 0},
                        whole |-> \A m \in MembersOf(a) : pendingToken[m] # 0]]
    /\ UNCHANGED <<ownership, stopping, rowVars, fileVars, protectionVars,
                   stager, aborting, caller, reaper, deleter>>

PublishMember(a, m) == LET t == <<m, pendingToken[m]>> IN
    /\ committer[a].at = "publishing" /\ m \in committer[a].todo /\ Claimable(t)
    /\ LinkAndRemove(t)
    /\ committer' = [committer EXCEPT ![a].todo = @ \ {m}]
    /\ UNCHANGED <<ownership, stopping, rowVars, uploads, protectionVars,
                   stager, aborting, caller, reaper, deleter>>

commit_artifact_set(a) ==
    /\ committer[a].at = "publishing" /\ committer[a].whole /\ committer[a].todo = {}
    /\ \A m \in MembersOf(a) : stager[m].at = "idle"
    /\ artifactSet[a] \in {"staging", "available"} /\ MayPublish(a)
    /\ \A m \in MembersOf(a) : pendingToken[m] # 0 /\ objectRow[m] \in {"pending", "available"}
    /\ artifactSet' = [artifactSet EXCEPT ![a] = "available"]
    /\ objectRow' = [x \in Objects |-> IF x \in MembersOf(a) THEN "available" ELSE objectRow[x]]
    /\ committer' = [committer EXCEPT ![a] = [at |-> "idle", todo |-> {}, whole |-> FALSE]]
    /\ UNCHANGED <<ownership, stopping, pendingToken, fileVars, protectionVars,
                   stager, aborting, caller, reaper, deleter>>

(* The call fails or the controller crashes, possibly inside a publication. *)
LeaveCommit(a) ==
    /\ committer[a].at = "publishing"
    /\ committer' = [committer EXCEPT ![a] = [at |-> "idle", todo |-> {}, whole |-> FALSE]]
    /\ \/ \E m \in committer[a].todo :
             LET t == <<m, pendingToken[m]>> IN staging[t] = "claimed" /\ LinkOnly(t)
       \/ UNCHANGED <<staging, aged, content>>
    /\ UNCHANGED <<ownership, stopping, rowVars, uploads, protectionVars,
                   stager, aborting, caller, reaper, deleter>>

(* control, abort: the rows first, then the files the rows named; a crash    *)
(* leaves some of them.                                                      *)
abort_artifact_set(a) ==
    /\ MayAbort(a) /\ artifactSet[a] \in {"staging", "aborted"}
    /\ \A m \in MembersOf(a) : stager[m].at = "idle"
    /\ SetsAborted({a})
    /\ aborting' = aborting \cup {a}
    /\ UNCHANGED <<ownership, stopping, fileVars, protectionVars,
                   stager, committer, caller, reaper, deleter>>

RemoveAborted(a) ==
    /\ a \in aborting
    /\ aborting' = aborting \ {a}
    /\ \E gone \in SUBSET {m \in MembersOf(a) : pendingToken[m] # 0} :
          RemoveFiles({<<m, pendingToken[m]>> : m \in gone})
    /\ UNCHANGED <<ownership, stopping, rowVars, uploads, content, protectionVars,
                   stager, committer, caller, reaper, deleter>>

----------------------------------------------------------------------------
(* Plain artifacts, through the API *)

stage_artifact(x) == LET n == uploads[x] + 1 IN
    /\ x \in Plains /\ n <= MaxUploads[x]
    /\ uploads' = [uploads EXCEPT ![x] = n]
    /\ staging' = [staging EXCEPT ![<<x, n>>] = "staged"]
    /\ UNCHANGED <<ownership, stopping, rowVars, aged, content, protectionVars, callVars>>

CallerAt(c, place) == caller' = [caller EXCEPT ![c].at = place]
CallerDone(c) == caller' = [caller EXCEPT ![c] = [at |-> "idle", token |-> NoHandle]]

claim_pending(c, t) ==
    /\ caller[c].at = "idle" /\ t[1] \in Plains /\ t[2] <= uploads[t[1]] /\ Claimable(t)
    /\ ClaimFile(t)
    /\ caller' = [caller EXCEPT ![c] = [at |-> "claimed", token |-> t]]
    /\ UNCHANGED <<ownership, stopping, rowVars, uploads, content, protectionVars,
                   stager, committer, aborting, reaper, deleter>>

(* register_artifact: an exact repetition extends the retention, a new       *)
(* reservation asks for a live lease, and anything else is refused.          *)
register_artifact(c) ==
    LET x == caller[c].token[1]
        a == ProducerOf[x]
        again == objectRow[x] \in {"pending", "available"} /\ ownership[a] # "lost"
        new == objectRow[x] = "none" /\ ownership[a] = "live" /\ Unclaimed(DigestOf[x]) IN
    /\ caller[c].at = "claimed"
    /\ \/ /\ again /\ Unclaimed(DigestOf[x])
          /\ retention' = Extended(x)
          /\ CallerAt(c, "registered")
          /\ UNCHANGED objectRow
       \/ /\ new
          /\ objectRow' = [objectRow EXCEPT ![x] = "pending"]
          /\ retention' = Extended(x)
          /\ CallerAt(c, "registered")
       \/ /\ ~again /\ ~new
          /\ CallerAt(c, "refused")
          /\ UNCHANGED <<objectRow, retention>>
    /\ UNCHANGED <<ownership, stopping, artifactSet, pendingToken, fileVars, held, deletion,
                   stager, committer, aborting, reaper, deleter>>

abort_pending(c) == LET t == caller[c].token IN
    /\ caller[c].at = "refused"
    /\ RemoveFiles(IF staging[t] = "claimed" THEN {t} ELSE {})
    /\ CallerDone(c)
    /\ UNCHANGED <<ownership, stopping, rowVars, uploads, content, protectionVars,
                   stager, committer, aborting, reaper, deleter>>

(* commit_pending: the claimed file is published, or the content is there. *)
commit_pending(c) == LET t == caller[c].token IN
    /\ caller[c].at = "registered"
    /\ \/ staging[t] = "claimed" /\ LinkAndRemove(t)
       \/ staging[t] # "claimed" /\ DigestOf[t[1]] \in content /\ UNCHANGED <<staging, aged, content>>
    /\ CallerAt(c, "published")
    /\ UNCHANGED <<ownership, stopping, rowVars, uploads, protectionVars,
                   stager, committer, aborting, reaper, deleter>>

mark_artifact_available(c) == LET x == caller[c].token[1] IN
    /\ caller[c].at = "published"
    /\ objectRow[x] \in {"pending", "available"} /\ Unclaimed(DigestOf[x])
    /\ objectRow' = [objectRow EXCEPT ![x] = "available"]
    /\ CallerDone(c)
    /\ UNCHANGED <<ownership, stopping, artifactSet, pendingToken, fileVars, protectionVars,
                   stager, committer, aborting, reaper, deleter>>

(* A call fails or the controller crashes, possibly inside a publication. *)
LeaveCall(c) == LET t == caller[c].token IN
    /\ caller[c].at # "idle"
    /\ CallerDone(c)
    /\ \/ caller[c].at = "registered" /\ staging[t] = "claimed" /\ LinkOnly(t)
       \/ UNCHANGED <<staging, aged, content>>
    /\ UNCHANGED <<ownership, stopping, rowVars, uploads, protectionVars,
                   stager, committer, aborting, reaper, deleter>>

----------------------------------------------------------------------------
(* The reaper *)

(* Files a call has claimed and not yet let go.  The ttl is longer than the  *)
(* longest call, so they do not age.                                         *)
InHand ==
    {<<m, stager[m].token>> : m \in {n \in Members : stager[n].at = "received"}}
        \cup {caller[c].token : c \in {b \in Callers : caller[b].at # "idle"}}

Age(t) ==
    /\ staging[t] # "none" /\ t \notin aged \cup InHand
    /\ aged' = aged \cup {t}
    /\ UNCHANGED <<ownership, stopping, rowVars, uploads, staging, content, protectionVars, callVars>>

publication_claims_older_than(t) ==
    /\ reaper.at = "idle" /\ staging[t] = "claimed" /\ t \in aged
    /\ reaper' = [at |-> "listed", token |-> t]
    /\ UNCHANGED <<ownership, stopping, rowVars, fileVars, protectionVars,
                   stager, committer, aborting, caller, deleter>>

(* expire_artifact_sets of the claim's organization. *)
Stale(org) ==
    {a \in Producers : /\ artifactSet[a] = "staging" /\ ownership[a] # "live"
                       /\ \E m \in MembersOf(a) : OrgOf[m] = org}

(* Mutant of Publishing: the rows of sets are not looked at. *)
PublishingPlain(org, d) ==
    \E x \in Plains : /\ OrgOf[x] = org /\ DigestOf[x] = d /\ objectRow[x] = "pending"
                      /\ ownership[ProducerOf[x]] \in {"live", "expired"}

(* A pending row of the digest whose attempt still runs for its owner. *)
Publishing(org, d) ==
    \E x \in Objects : /\ OrgOf[x] = org /\ DigestOf[x] = d /\ objectRow[x] = "pending"
                       /\ ownership[ProducerOf[x]] \in {"live", "expired"}

(* artifact_publication_claim_active: the stale sets of the organization are *)
(* given up first, in a transaction of their own.                            *)
expire_artifact_sets ==
    /\ reaper.at = "listed"
    /\ SetsAborted(Stale(OrgOf[reaper.token[1]]))
    /\ reaper' = [reaper EXCEPT !.at = "expired"]
    /\ UNCHANGED <<ownership, stopping, fileVars, protectionVars,
                   stager, committer, aborting, caller, deleter>>

artifact_publication_claim_active == LET x == reaper.token[1] IN
    /\ reaper.at = "expired"
    /\ reaper' = IF Publishing(OrgOf[x], DigestOf[x])
                 THEN [at |-> "idle", token |-> NoHandle]
                 ELSE [reaper EXCEPT !.at = "checked"]
    /\ UNCHANGED <<ownership, stopping, rowVars, fileVars, protectionVars,
                   stager, committer, aborting, caller, deleter>>

(* The age is looked at again. *)
release_publication_claim == LET t == reaper.token IN
    /\ reaper.at = "checked"
    /\ staging' = [staging EXCEPT ![t] = IF @ = "claimed" /\ t \in aged THEN "staged" ELSE @]
    /\ reaper' = [at |-> "idle", token |-> NoHandle]
    /\ UNCHANGED <<ownership, stopping, rowVars, uploads, aged, content, protectionVars,
                   stager, committer, aborting, caller, deleter>>

reap_staged_older_than ==
    LET old == {t \in aged : staging[t] = "staged"} IN
    /\ old # {}
    /\ RemoveFiles(old)
    /\ UNCHANGED <<ownership, stopping, rowVars, uploads, content, protectionVars, callVars>>

----------------------------------------------------------------------------
(* Protection and deletion *)

Referenced(d) == {x \in Objects : DigestOf[x] = d /\ objectRow[x] # "none"}

(* Mutant of Eligible: the retention of one referencing organization is over. *)
EligibleForOne(d) ==
    /\ Referenced(d) # {} /\ \A x \in Referenced(d) : objectRow[x] # "pending"
    /\ \E x \in Referenced(d) : retention[<<OrgOf[x], d>>] = "over"
    /\ \A org \in Organizations : <<org, d>> \notin held

(* Nothing is about to publish the digest, the retention of everyone who     *)
(* refers to it is over, and nobody holds it.                                *)
Eligible(d) ==
    /\ Referenced(d) # {} /\ \A x \in Referenced(d) : objectRow[x] # "pending"
    /\ \A x \in Referenced(d) : retention[<<OrgOf[x], d>>] = "over"
    /\ \A org \in Organizations : <<org, d>> \notin held

retain_object_for(org, d) ==
    /\ \E x \in Referenced(d) : OrgOf[x] = org
    /\ Unclaimed(d) /\ retention[<<org, d>>] # "live"
    /\ retention' = [retention EXCEPT ![<<org, d>>] = "live"]
    /\ UNCHANGED <<ownership, stopping, rowVars, fileVars, held, deletion, callVars>>

RetentionEnds(org, d) ==
    /\ <<org, d>> \in Fleeting /\ retention[<<org, d>>] = "live"
    /\ retention' = [retention EXCEPT ![<<org, d>>] = "over"]
    /\ UNCHANGED <<ownership, stopping, rowVars, fileVars, held, deletion, callVars>>

acquire_legal_hold(org, d) ==
    /\ \E x \in Referenced(d) : OrgOf[x] = org
    /\ Unclaimed(d) /\ <<org, d>> \in Holds \ held
    /\ held' = held \cup {<<org, d>>}
    /\ UNCHANGED <<ownership, stopping, rowVars, fileVars, retention, deletion, callVars>>

release_legal_hold(org, d) ==
    /\ <<org, d>> \in held
    /\ held' = held \ {<<org, d>>}
    /\ UNCHANGED <<ownership, stopping, rowVars, fileVars, retention, deletion, callVars>>

Handles == [digest : Digests, serial : 1 .. MaxClaims, at : {"claimed", "deleting", "gone"}]
Handle(d, serial, at) == [digest |-> d, serial |-> serial, at |-> at]
DeleterHas(w, handle) ==
    /\ deleter' = [deleter EXCEPT ![w] = handle]
    /\ UNCHANGED <<ownership, stopping, rowVars, retention, held,
                   stager, committer, aborting, caller, reaper>>
Exact(w) == deletion[deleter[w].digest].serial = deleter[w].serial

claim_objects_globally_for_deletion(w, d) == LET n == deletion[d].serial + 1 IN
    /\ deleter[w] = NoHandle /\ Unclaimed(d) /\ Eligible(d) /\ n <= MaxClaims
    /\ deletion' = [deletion EXCEPT ![d] = [status |-> "claimed", serial |-> n]]
    /\ DeleterHas(w, Handle(d, n, "claimed"))
    /\ UNCHANGED fileVars

pending_object_deletion_claims(w, d) ==
    /\ deleter[w] = NoHandle /\ deletion[d].status \in {"claimed", "deleting"}
    /\ DeleterHas(w, Handle(d, deletion[d].serial, "claimed"))
    /\ UNCHANGED <<fileVars, deletion>>

begin_object_deletion(w) == LET d == deleter[w].digest IN
    /\ deleter[w] # NoHandle /\ deleter[w].at = "claimed"
    /\ Exact(w) /\ deletion[d].status \in {"claimed", "deleting"}
    /\ deletion' = [deletion EXCEPT ![d].status = "deleting"]
    /\ DeleterHas(w, [deleter[w] EXCEPT !.at = "deleting"])
    /\ UNCHANGED fileVars

(* External: the worker removes the content. *)
DeleteContent(w) ==
    /\ deleter[w] # NoHandle /\ deleter[w].at = "deleting"
    /\ content' = content \ {deleter[w].digest}
    /\ DeleterHas(w, [deleter[w] EXCEPT !.at = "gone"])
    /\ UNCHANGED <<uploads, staging, aged, deletion>>

complete_object_deletion(w) == LET d == deleter[w].digest IN
    /\ deleter[w] # NoHandle /\ deleter[w].at = "gone"
    /\ Exact(w) /\ deletion[d].status \in {"deleting", "deleted"}
    /\ deletion' = [deletion EXCEPT ![d].status = "deleted"]
    /\ DeleterHas(w, NoHandle)
    /\ UNCHANGED fileVars

(* Mutant of abandon_object_deletion: a deletion that has begun is revoked. *)
abandon_begun_deletion(w) == LET d == deleter[w].digest IN
    /\ deleter[w] # NoHandle /\ deleter[w].at = "claimed"
    /\ Exact(w) /\ deletion[d].status \in {"claimed", "deleting"}
    /\ deletion' = [deletion EXCEPT ![d].status = "none"]
    /\ DeleterHas(w, NoHandle)
    /\ UNCHANGED fileVars

abandon_object_deletion(w) == LET d == deleter[w].digest IN
    /\ deleter[w] # NoHandle /\ deleter[w].at = "claimed"
    /\ Exact(w) /\ deletion[d].status = "claimed"
    /\ deletion' = [deletion EXCEPT ![d].status = "none"]
    /\ DeleterHas(w, NoHandle)
    /\ UNCHANGED fileVars

(* The worker crashes, or the store refuses its handle. *)
LeaveDeletion(w) ==
    /\ deleter[w] # NoHandle
    /\ DeleterHas(w, NoHandle)
    /\ UNCHANGED <<fileVars, deletion>>

----------------------------------------------------------------------------
SetStep ==
    \/ \E a \in Producers :
          \/ begin_artifact_set(a) \/ artifact_set_members(a) \/ commit_artifact_set(a)
          \/ LeaveCommit(a) \/ abort_artifact_set(a) \/ RemoveAborted(a)
          \/ \E m \in Members : PublishMember(a, m)
    \/ \E m \in Members :
          \/ stage(m) \/ RetryMember(m)
          \/ register(m) \/ LeaveStage(m)

PlainStep ==
    \/ \E x \in Plains : stage_artifact(x)
    \/ \E c \in Callers :
          \/ \E t \in Tokens : claim_pending(c, t)
          \/ register_artifact(c) \/ abort_pending(c) \/ commit_pending(c)
          \/ mark_artifact_available(c) \/ LeaveCall(c)

ReaperStep ==
    \/ \E t \in Tokens : publication_claims_older_than(t)
    \/ expire_artifact_sets \/ artifact_publication_claim_active \/ release_publication_claim \/ reap_staged_older_than

DeletionStep ==
    \/ \E org \in Organizations, d \in Digests :
          retain_object_for(org, d) \/ acquire_legal_hold(org, d) \/ release_legal_hold(org, d)
    \/ \E w \in Deleters :
          \/ \E d \in Digests :
                claim_objects_globally_for_deletion(w, d) \/ pending_object_deletion_claims(w, d)
          \/ begin_object_deletion(w) \/ DeleteContent(w) \/ complete_object_deletion(w)
          \/ abandon_object_deletion(w) \/ LeaveDeletion(w)

Surroundings ==
    \/ \E a \in Producers : LeaseChanges(a) \/ Cancel(a)
    \/ \E t \in Tokens : Age(t)
    \/ \E org \in Organizations, d \in Digests : RetentionEnds(org, d)

ArtifactsNext == SetStep \/ PlainStep \/ ReaperStep \/ DeletionStep \/ Surroundings

ArtifactsSpec == ArtifactsInit /\ [][ArtifactsNext]_artifactVars

----------------------------------------------------------------------------
(* Properties *)

ArtifactsTypeOK ==
    /\ ownership \in [Producers -> {"live", "expired", "ended", "lost"}] /\ stopping \subseteq Producers
    /\ artifactSet \in [Producers -> {"none", "staging", "available", "aborted"}]
    /\ objectRow \in [Objects -> {"none", "pending", "available", "missing"}]
    /\ \A m \in Members : pendingToken[m] \in 0 .. uploads[m]
    /\ \A x \in Objects : uploads[x] \in 0 .. MaxUploads[x]
    /\ staging \in [Tokens -> {"none", "staged", "claimed"}]
    /\ aged \subseteq {t \in Tokens : staging[t] # "none"} /\ content \subseteq Digests
    /\ retention \in [Organizations \X Digests -> {"none", "live", "over"}]
    /\ held \subseteq Organizations \X Digests
    /\ \A w \in Deleters : deleter[w] \in Handles \cup {NoHandle}

(* What is listed as available can be read, unless its deletion has begun:    *)
(* a plain artifact when its row says so, a set all at once or not at all.    *)
(* download_artifact reports a gap otherwise.                                 *)
ListedIsReadable ==
    /\ \A x \in Objects : objectRow[x] = "available" =>
          DigestOf[x] \in content \/ deletion[DigestOf[x]].status \in {"deleting", "deleted"}
    /\ \A m \in Members :
          (objectRow[m] = "available") <=> (artifactSet[ProducerOf[m]] = "available")

(* The bytes of a registered member are kept until its set is committed or    *)
(* given up, or its attempt is over, whichever calls are dropped or repeated  *)
(* and whatever the reaper does: they are in the store, or in the staging     *)
(* directory under the name the reaper skips.  Otherwise no retry could ever  *)
(* commit the set.                                                            *)
ReservedBytesSurvive ==
    \A m \in Members : LET a == ProducerOf[m] IN
        pendingToken[m] # 0 /\ artifactSet[a] = "staging" /\ ownership[a] \in {"live", "expired"} =>
            staging[<<m, pendingToken[m]>>] = "claimed" \/ DigestOf[m] \in content

(* Nobody is about to publish, retains or holds the content of a digest, in   *)
(* any organization.                                                          *)
Unprotected(d) ==
    \A x \in Objects :
        DigestOf[x] = d /\ objectRow[x] # "none" =>
            /\ objectRow[x] # "pending"
            /\ retention[<<OrgOf[x], d>>] # "live"
            /\ <<OrgOf[x], d>> \notin held

(* Content leaves the store only while it is unprotected, although the worker *)
(* removes it long after the claim looked at the rows.                        *)
OnlyUnprotectedDeleted ==
    [][\A d \in content \ content' : Unprotected(d)]_artifactVars
=============================================================================
