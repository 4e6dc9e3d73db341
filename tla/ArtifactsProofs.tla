--------------------------- MODULE ArtifactsProofs ---------------------------
(***************************************************************************)
(* Safety of Artifacts for any number of objects, attempts, organizations, *)
(* calls and deletion workers: first the rows, then the bytes behind them, *)
(* that what is listed can be read, and that what a pending set has        *)
(* reserved is still there when the set is committed.                      *)
(***************************************************************************)
EXTENDS Artifacts, TLAPS

CallPlaces == {"idle", "claimed", "registered", "refused", "published"}
ReaperPlaces == {"idle", "listed", "expired", "checked"}
ClaimStatuses == {"none", "claimed", "deleting", "deleted"}

(* The types, by what they are about: files, rows and protections, tokens,   *)
(* calls and deletions.                                                      *)
FilesTyped ==
    /\ staging \in [Tokens -> {"none", "staged", "claimed"}]
    /\ aged \subseteq Tokens /\ \A t \in aged : staging[t] # "none"
    /\ content \subseteq Digests

RowsTyped ==
    /\ ownership \in [Producers -> {"live", "expired", "ended", "lost"}] /\ stopping \subseteq Producers
    /\ artifactSet \in [Producers -> {"none", "staging", "available", "aborted"}]
    /\ objectRow \in [Objects -> {"none", "pending", "available", "missing"}]
    /\ retention \in [Organizations \X Digests -> {"none", "live", "over"}]
    /\ held \subseteq Organizations \X Digests

(* What a call in progress or a row says about a token is a token. *)
TokensTyped ==
    /\ uploads \in [Objects -> Nat] /\ \A x \in Objects : uploads[x] <= MaxUploads[x]
    /\ pendingToken \in [Members -> Nat] /\ \A m \in Members : pendingToken[m] <= uploads[m]
    /\ stager \in [Members -> [at : {"idle", "received", "retrying"}, token : Nat]]
    /\ \A m \in Members : stager[m].at = "received" => stager[m].token \in 1 .. uploads[m]
    /\ \A m \in Members : stager[m].at = "retrying" => pendingToken[m] # 0

CallsTyped ==
    /\ committer \in [Producers -> [at : {"idle", "publishing"}, todo : SUBSET Members, whole : BOOLEAN]]
    /\ \A a \in Producers : \A m \in committer[a].todo : m \in MembersOf(a) /\ pendingToken[m] # 0
    /\ aborting \subseteq Producers
    /\ caller \in [Callers -> [at : CallPlaces, token : Tokens \cup {NoHandle}]]
    /\ \A c \in Callers : caller[c].at # "idle" =>
        caller[c].token \in Tokens /\ caller[c].token[1] \in Plains
    /\ reaper \in [at : ReaperPlaces, token : Tokens \cup {NoHandle}]
    /\ reaper.at # "idle" => reaper.token \in Tokens

DeletionTyped ==
    /\ deletion \in [Digests -> [status : ClaimStatuses, serial : 0 .. MaxClaims]]
    /\ \A d \in Digests : deletion[d].status # "none" => deletion[d].serial # 0
    /\ deleter \in [Deleters -> Handles \cup {NoHandle}]

ArtifactTypes == FilesTyped /\ RowsTyped /\ TokensTyped /\ CallsTyped /\ DeletionTyped

(* What each family of steps leaves alone. *)
LEMMA SetStepLeaves == SetStep => UNCHANGED <<caller, deletion, deleter>>
<1> USE DEF protectionVars, callVars
<1>1. ASSUME NEW a \in Producers, \/ begin_artifact_set(a) \/ artifact_set_members(a)
             \/ commit_artifact_set(a) \/ LeaveCommit(a) \/ abort_artifact_set(a)
             \/ RemoveAborted(a) \/ \E m \in Members : PublishMember(a, m)
      PROVE UNCHANGED <<caller, deletion, deleter>>
  BY Zenon, <1>1 DEF begin_artifact_set, artifact_set_members, commit_artifact_set, LeaveCommit,
     abort_artifact_set, RemoveAborted, PublishMember
<1>2. ASSUME NEW m \in Members, stage(m) \/ RetryMember(m) \/ register(m) \/ LeaveStage(m)
      PROVE UNCHANGED <<caller, deletion, deleter>>
  BY Zenon, <1>2 DEF stage, RetryMember, register, LeaveStage
<1> QED
  BY Zenon, <1>1, <1>2 DEF SetStep

(* The calls for an artifact outside any set leave sets and deletions alone. *)
LEMMA PlainStepLeaves ==
  PlainStep => UNCHANGED <<ownership, artifactSet, pendingToken, committer, reaper, deletion, deleter>>
<1> USE DEF rowVars, protectionVars, callVars
<1>1. ASSUME NEW x \in Plains, stage_artifact(x)
      PROVE UNCHANGED <<ownership, artifactSet, pendingToken, committer, reaper, deletion, deleter>>
  BY Zenon, <1>1 DEF stage_artifact
<1>2. ASSUME NEW c \in Callers, \/ \E t \in Tokens : claim_pending(c, t)
             \/ register_artifact(c) \/ abort_pending(c) \/ commit_pending(c)
             \/ mark_artifact_available(c) \/ LeaveCall(c)
      PROVE UNCHANGED <<ownership, artifactSet, pendingToken, committer, reaper, deletion, deleter>>
  BY Zenon, <1>2 DEF claim_pending, register_artifact, abort_pending, commit_pending,
     mark_artifact_available, LeaveCall
<1> QED
  BY Zenon, <1>1, <1>2 DEF PlainStep

(* The reaper writes no content and interrupts no call. *)
LEMMA ReaperStepLeaves ==
  ReaperStep => UNCHANGED <<uploads, pendingToken, content, stager, committer, caller, deletion, deleter>>
<1> USE DEF rowVars, fileVars, protectionVars, callVars
<1> QED
  BY Zenon DEF ReaperStep, publication_claims_older_than, expire_artifact_sets, SetsAborted,
     artifact_publication_claim_active, release_publication_claim, reap_staged_older_than

(* Protection and deletion write no row of an artifact and no staged file. *)
LEMMA DeletionStepLeaves ==
  DeletionStep => UNCHANGED <<ownership, artifactSet, objectRow, pendingToken, uploads, staging, aged,
                              stager, committer, aborting, caller, reaper>>
<1> USE DEF rowVars, fileVars, callVars
<1>1. ASSUME NEW org \in Organizations, NEW d \in Digests,
             retain_object_for(org, d) \/ acquire_legal_hold(org, d) \/ release_legal_hold(org, d)
      PROVE UNCHANGED <<ownership, artifactSet, objectRow, pendingToken, uploads, staging, aged,
                        stager, committer, aborting, caller, reaper>>
  BY Zenon, <1>1 DEF retain_object_for, acquire_legal_hold, release_legal_hold
<1>2. ASSUME NEW w \in Deleters,
             \/ \E d \in Digests :
                   claim_objects_globally_for_deletion(w, d) \/ pending_object_deletion_claims(w, d)
             \/ begin_object_deletion(w) \/ DeleteContent(w) \/ complete_object_deletion(w)
             \/ abandon_object_deletion(w) \/ LeaveDeletion(w)
      PROVE UNCHANGED <<ownership, artifactSet, objectRow, pendingToken, uploads, staging, aged,
                        stager, committer, aborting, caller, reaper>>
  BY Zenon, <1>2 DEF claim_objects_globally_for_deletion, pending_object_deletion_claims,
     begin_object_deletion, DeleteContent, complete_object_deletion, abandon_object_deletion,
     LeaveDeletion, DeleterHas
<1> QED
  BY Zenon, <1>1, <1>2 DEF DeletionStep

(* Leases, cancellations and the passing of time write none of the store. *)
LEMMA SurroundingsLeave ==
  Surroundings => UNCHANGED <<artifactSet, objectRow, pendingToken, uploads, staging, content, stager,
                              committer, aborting, caller, reaper, deletion, deleter>>
BY Zenon DEF Surroundings, LeaseChanges, Cancel, Age, RetentionEnds, rowVars, fileVars, protectionVars,
   callVars

(* A token names an object and one of its uploads. *)
LEMMA TokenShape ==
    ASSUME NEW t \in Tokens
    PROVE  /\ t[1] \in Objects /\ t[2] \in 1 .. MaxUploads[t[1]] /\ t = <<t[1], t[2]>>
BY DEF Tokens

(* An upload within its bound has a token. *)
LEMMA TokenOf ==
    ASSUME NEW x \in Objects, NEW n \in 1 .. MaxUploads[x]
    PROVE  <<x, n>> \in Tokens
BY DEF Tokens

(* An object has a digest and an organization. *)
LEMMA DigestOfObject ==
    ASSUME NEW x \in Objects
    PROVE  DigestOf[x] \in Digests /\ OrgOf[x] \in Organizations
BY Zenon DEF Digests, Organizations

(* A registered member's token is a token. *)
LEMMA PendingIsToken ==
    ASSUME TokensTyped, NEW m \in Members, pendingToken[m] # 0
    PROVE  <<m, pendingToken[m]>> \in Tokens
<1>1. m \in Objects
  BY Zenon DEF Objects
<1>2. pendingToken[m] \in 1 .. MaxUploads[m]
  BY <1>1, ArtifactsAssumption DEF TokensTyped
<1> QED
  BY Zenon, <1>1, <1>2, TokenOf

(* So is that of a received file. *)
LEMMA ReceivedIsToken ==
    ASSUME TokensTyped, NEW m \in Members, stager[m].at = "received"
    PROVE  <<m, stager[m].token>> \in Tokens
<1>1. m \in Objects
  BY Zenon DEF Objects
<1>2. stager[m].token \in 1 .. MaxUploads[m]
  BY <1>1, ArtifactsAssumption DEF TokensTyped
<1> QED
  BY Zenon, <1>1, <1>2, TokenOf

(* What the file operations keep. *)
LEMMA FilesRemoved ==
    ASSUME FilesTyped, NEW files, RemoveFiles(files), content' \subseteq Digests
    PROVE  FilesTyped'
BY Zenon DEF FilesTyped, RemoveFiles

(* Claiming a file keeps the files well formed. *)
LEMMA FileClaimed ==
    ASSUME FilesTyped, NEW t \in Tokens, ClaimFile(t), content' = content
    PROVE  FilesTyped'
BY Zenon DEF FilesTyped, ClaimFile

(* So does writing one. *)
LEMMA FileMade ==
    ASSUME FilesTyped, NEW t \in Tokens, NEW name \in {"staged", "claimed"},
           staging' = [staging EXCEPT ![t] = name], UNCHANGED <<aged, content>>
    PROVE  FilesTyped'
BY Zenon DEF FilesTyped

(* Linked content is the content of a digest. *)
LEMMA ContentLinked ==
    ASSUME FilesTyped, NEW d \in Digests, content' = content \cup {d}
    PROVE  content' \subseteq Digests
BY Zenon DEF FilesTyped

(* The empty store has its types. *)
LEMMA ArtifactTypesInit == ArtifactsInit => ArtifactTypes
<1> SUFFICES ASSUME ArtifactsInit PROVE ArtifactTypes
  BY Zenon
<1> USE DEF ArtifactsInit
<1>1. FilesTyped
  BY Zenon DEF FilesTyped
<1>2. RowsTyped
  BY Zenon DEF RowsTyped
<1>3. TokensTyped
  BY ArtifactsAssumption DEF TokensTyped, NoCall, Objects
<1>4. CallsTyped
  BY Zenon DEF CallsTyped, CallPlaces, ReaperPlaces
<1>5. DeletionTyped
  BY ArtifactsAssumption DEF DeletionTyped, NoClaim, ClaimStatuses
<1> QED
  BY Zenon, <1>1, <1>2, <1>3, <1>4, <1>5 DEF ArtifactTypes

(* Every step leaves files with a name of their own. *)
LEMMA FilesTypedStep ==
    FilesTyped /\ TokensTyped /\ CallsTyped /\ DeletionTyped /\ [ArtifactsNext]_artifactVars =>
        FilesTyped'
<1> SUFFICES ASSUME FilesTyped, TokensTyped, CallsTyped, DeletionTyped, [ArtifactsNext]_artifactVars
             PROVE  FilesTyped'
  BY Zenon
<1> USE DEF fileVars
<1>1. ASSUME UNCHANGED <<staging, aged, content>> PROVE FilesTyped'
  BY Zenon, <1>1 DEF FilesTyped
<1>2. ASSUME NEW a \in Producers, \/ begin_artifact_set(a) \/ artifact_set_members(a)
             \/ commit_artifact_set(a) \/ abort_artifact_set(a) \/ LeaseChanges(a) \/ Cancel(a)
      PROVE FilesTyped'
  BY Zenon, <1>1, <1>2 DEF begin_artifact_set, artifact_set_members, commit_artifact_set,
     abort_artifact_set, LeaseChanges, Cancel
<1>3. ASSUME NEW a \in Producers, LeaveCommit(a) PROVE FilesTyped'
  <2>1. CASE UNCHANGED <<staging, aged, content>>
    BY Zenon, <1>1, <2>1
  <2>2. ASSUME NEW m \in committer[a].todo, LinkOnly(<<m, pendingToken[m]>>) PROVE FilesTyped'
    <3>1. DigestOf[m] \in Digests
      BY Zenon, <2>2, DigestOfObject DEF CallsTyped, Objects, MembersOf
    <3> QED
      BY Zenon, <2>2, <3>1, ContentLinked DEF LinkOnly, FilesTyped
  <2> QED
    BY Zenon, <1>3, <2>1, <2>2 DEF LeaveCommit
<1>4. ASSUME NEW a \in Producers, RemoveAborted(a) PROVE FilesTyped'
  BY Zenon, <1>4, FilesRemoved DEF RemoveAborted, FilesTyped
<1>5. ASSUME NEW a \in Producers, NEW m \in Members, PublishMember(a, m) PROVE FilesTyped'
  <2>1. DigestOf[m] \in Digests
    BY Zenon, DigestOfObject DEF Objects
  <2> QED
    BY Zenon, <1>5, <2>1, ContentLinked, FilesRemoved DEF PublishMember, LinkAndRemove
<1>6. ASSUME NEW m \in Members, register(m) PROVE FilesTyped'
  BY Zenon, <1>1, <1>6 DEF register
<1>7. ASSUME NEW m \in Members, stage(m) PROVE FilesTyped'
  <2>1. CASE UNCHANGED staging
    BY Zenon, <1>1, <1>7, <2>1 DEF stage
  <2>2. CASE staging' # staging
    <3>1. m \in Objects /\ uploads[m] + 1 \in 1 .. MaxUploads[m]
      BY <1>7, <2>2, ArtifactsAssumption DEF stage, TokensTyped, Objects
    <3>2. <<m, uploads[m] + 1>> \in Tokens
      BY Zenon, <3>1, TokenOf
    <3> QED
      BY Zenon, <1>7, <2>2, <3>2, FileMade DEF stage
  <2> QED
    BY Zenon, <2>1, <2>2
<1>8. ASSUME NEW m \in Members, RetryMember(m) PROVE FilesTyped'
  <2>1. <<m, pendingToken[m]>> \in Tokens
    BY Zenon, <1>8, PendingIsToken DEF RetryMember, TokensTyped
  <2> QED
    BY Zenon, <1>8, <2>1, FileClaimed DEF RetryMember
<1>9. ASSUME NEW m \in Members, LeaveStage(m) PROVE FilesTyped'
  BY Zenon, <1>1, <1>9, FilesRemoved DEF LeaveStage, FilesTyped
<1>10. ASSUME NEW x \in Plains, stage_artifact(x) PROVE FilesTyped'
  <2>1. x \in Objects /\ uploads[x] + 1 \in 1 .. MaxUploads[x]
    BY <1>10, ArtifactsAssumption DEF stage_artifact, TokensTyped, Objects
  <2>2. <<x, uploads[x] + 1>> \in Tokens
    BY Zenon, <2>1, TokenOf
  <2> QED
    BY Zenon, <1>10, <2>2, FileMade DEF stage_artifact
<1>11. ASSUME NEW c \in Callers, \/ register_artifact(c) \/ mark_artifact_available(c)
       PROVE FilesTyped'
  BY Zenon, <1>1, <1>11 DEF register_artifact, mark_artifact_available
<1>12. ASSUME NEW c \in Callers, abort_pending(c) PROVE FilesTyped'
  BY Zenon, <1>12, FilesRemoved DEF abort_pending, FilesTyped
<1>13. ASSUME NEW c \in Callers, commit_pending(c) PROVE FilesTyped'
  <2>1. CASE UNCHANGED <<staging, aged, content>>
    BY Zenon, <1>1, <2>1
  <2>2. CASE LinkAndRemove(caller[c].token)
    <3>1. DigestOf[caller[c].token[1]] \in Digests
      BY Zenon, <1>13, DigestOfObject DEF commit_pending, CallsTyped, Objects
    <3> QED
      BY Zenon, <2>2, <3>1, ContentLinked, FilesRemoved DEF LinkAndRemove
  <2> QED
    BY Zenon, <1>13, <2>1, <2>2 DEF commit_pending
<1>14. ASSUME NEW c \in Callers, LeaveCall(c) PROVE FilesTyped'
  <2>1. CASE UNCHANGED <<staging, aged, content>>
    BY Zenon, <1>1, <2>1
  <2>2. CASE LinkOnly(caller[c].token)
    <3>1. DigestOf[caller[c].token[1]] \in Digests
      BY Zenon, <1>14, DigestOfObject DEF LeaveCall, CallsTyped, Objects
    <3> QED
      BY Zenon, <2>2, <3>1, ContentLinked DEF LinkOnly, FilesTyped
  <2> QED
    BY Zenon, <1>14, <2>1, <2>2 DEF LeaveCall
<1>15. ASSUME NEW c \in Callers, NEW t \in Tokens, claim_pending(c, t) PROVE FilesTyped'
  BY Zenon, <1>15, FileClaimed DEF claim_pending
<1>16. ASSUME NEW t \in Tokens, publication_claims_older_than(t) PROVE FilesTyped'
  BY Zenon, <1>1, <1>16 DEF publication_claims_older_than
<1>17. ASSUME NEW t \in Tokens, Age(t) PROVE FilesTyped'
  BY Zenon, <1>17 DEF Age, FilesTyped
<1>18. ASSUME expire_artifact_sets \/ artifact_publication_claim_active PROVE FilesTyped'
  BY Zenon, <1>1, <1>18 DEF expire_artifact_sets, artifact_publication_claim_active
<1>19. ASSUME release_publication_claim PROVE FilesTyped'
  BY Zenon, <1>19 DEF release_publication_claim, FilesTyped, CallsTyped
<1>20. ASSUME reap_staged_older_than PROVE FilesTyped'
  BY Zenon, <1>20, FilesRemoved DEF reap_staged_older_than, FilesTyped
<1>21. ASSUME NEW org \in Organizations, NEW d \in Digests, \/ retain_object_for(org, d)
              \/ acquire_legal_hold(org, d) \/ release_legal_hold(org, d)
              \/ RetentionEnds(org, d)
       PROVE FilesTyped'
  BY Zenon, <1>1, <1>21 DEF retain_object_for, acquire_legal_hold, release_legal_hold, RetentionEnds
<1>22. ASSUME NEW w \in Deleters, NEW d \in Digests,
              \/ claim_objects_globally_for_deletion(w, d)
              \/ pending_object_deletion_claims(w, d)
       PROVE FilesTyped'
  BY Zenon, <1>1, <1>22 DEF claim_objects_globally_for_deletion, pending_object_deletion_claims,
     DeleterHas
<1>23. ASSUME NEW w \in Deleters, \/ begin_object_deletion(w) \/ complete_object_deletion(w)
              \/ abandon_object_deletion(w) \/ LeaveDeletion(w)
       PROVE FilesTyped'
  BY Zenon, <1>1, <1>23 DEF begin_object_deletion, complete_object_deletion, abandon_object_deletion,
     LeaveDeletion, DeleterHas
<1>24. ASSUME NEW w \in Deleters, DeleteContent(w) PROVE FilesTyped'
  BY Zenon, <1>24 DEF DeleteContent, FilesTyped
<1>25. CASE UNCHANGED artifactVars
  BY Zenon, <1>1, <1>25 DEF artifactVars
<1> QED
  BY <1>2, <1>3, <1>4, <1>5, <1>6, <1>7, <1>8, <1>9, <1>10, <1>11, <1>12, <1>13, <1>14, <1>15,
     <1>16, <1>17, <1>18, <1>19, <1>20, <1>21, <1>22, <1>23, <1>24, <1>25 DEF ArtifactsNext,
     SetStep, PlainStep, ReaperStep, DeletionStep, Surroundings

(* Every step writes rows that their columns admit. *)
LEMMA RowsTypedStep == RowsTyped /\ CallsTyped /\ [ArtifactsNext]_artifactVars => RowsTyped'
<1> SUFFICES ASSUME RowsTyped, CallsTyped, [ArtifactsNext]_artifactVars PROVE RowsTyped'
  BY Zenon
<1> USE DEF rowVars, protectionVars
<1>1. ASSUME UNCHANGED <<ownership, stopping, artifactSet, objectRow, retention, held>> PROVE RowsTyped'
  BY Zenon, <1>1 DEF RowsTyped
<1>2. ASSUME NEW a \in Producers, \/ artifact_set_members(a) \/ LeaveCommit(a)
             \/ RemoveAborted(a)
      PROVE RowsTyped'
  BY Zenon, <1>1, <1>2 DEF artifact_set_members, LeaveCommit, RemoveAborted
<1>3. ASSUME NEW a \in Producers, begin_artifact_set(a) PROVE RowsTyped'
  BY Zenon, <1>3 DEF begin_artifact_set, RowsTyped
<1>4. ASSUME NEW a \in Producers, commit_artifact_set(a) PROVE RowsTyped'
  BY Zenon, <1>4 DEF commit_artifact_set, RowsTyped
<1>5. ASSUME NEW a \in Producers, abort_artifact_set(a) PROVE RowsTyped'
  BY Zenon, <1>5 DEF abort_artifact_set, SetsAborted, RowsTyped
<1>6. ASSUME NEW a \in Producers, LeaseChanges(a) PROVE RowsTyped'
  BY <1>6 DEF LeaseChanges, RowsTyped
<1>7. ASSUME NEW a \in Producers, Cancel(a) PROVE RowsTyped'
  BY Zenon, <1>7 DEF Cancel, RowsTyped
<1>8. ASSUME NEW a \in Producers, NEW m \in Members, PublishMember(a, m) PROVE RowsTyped'
  BY Zenon, <1>1, <1>8 DEF PublishMember
<1>9. ASSUME NEW m \in Members, stage(m) \/ RetryMember(m) \/ LeaveStage(m) PROVE RowsTyped'
  BY Zenon, <1>1, <1>9 DEF stage, RetryMember, LeaveStage
<1>10. ASSUME NEW m \in Members, register(m) PROVE RowsTyped'
  BY Zenon, <1>10 DEF register, Extended, RowsTyped
<1>11. ASSUME NEW x \in Plains, stage_artifact(x) PROVE RowsTyped'
  BY Zenon, <1>1, <1>11 DEF stage_artifact
<1>12. ASSUME NEW c \in Callers, \/ abort_pending(c) \/ commit_pending(c) \/ LeaveCall(c)
       PROVE RowsTyped'
  BY Zenon, <1>1, <1>12 DEF abort_pending, commit_pending, LeaveCall
<1>13. ASSUME NEW c \in Callers, register_artifact(c) PROVE RowsTyped'
  <2>1. objectRow' \in [Objects -> {"none", "pending", "available", "missing"}]
    BY Zenon, <1>13 DEF register_artifact, RowsTyped
  <2>2. retention' \in [Organizations \X Digests -> {"none", "live", "over"}]
    BY Zenon, <1>13 DEF register_artifact, Extended, RowsTyped
  <2> QED
    BY Zenon, <1>13, <2>1, <2>2 DEF register_artifact, RowsTyped
<1>14. ASSUME NEW c \in Callers, mark_artifact_available(c) PROVE RowsTyped'
  BY Zenon, <1>14 DEF mark_artifact_available, RowsTyped
<1>15. ASSUME NEW c \in Callers, NEW t \in Tokens, claim_pending(c, t) PROVE RowsTyped'
  BY Zenon, <1>1, <1>15 DEF claim_pending
<1>16. ASSUME NEW t \in Tokens, publication_claims_older_than(t) \/ Age(t) PROVE RowsTyped'
  BY Zenon, <1>1, <1>16 DEF publication_claims_older_than, Age
<1>17. ASSUME \/ artifact_publication_claim_active \/ release_publication_claim
              \/ reap_staged_older_than
       PROVE RowsTyped'
  BY Zenon, <1>1, <1>17 DEF artifact_publication_claim_active, release_publication_claim,
     reap_staged_older_than
<1>18. ASSUME expire_artifact_sets PROVE RowsTyped'
  BY Zenon, <1>18 DEF expire_artifact_sets, SetsAborted, RowsTyped
<1>19. ASSUME NEW org \in Organizations, NEW d \in Digests, retain_object_for(org, d) PROVE RowsTyped'
  BY Zenon, <1>19 DEF retain_object_for, RowsTyped
<1>20. ASSUME NEW org \in Organizations, NEW d \in Digests, acquire_legal_hold(org, d) PROVE RowsTyped'
  BY <1>20 DEF acquire_legal_hold, RowsTyped
<1>21. ASSUME NEW org \in Organizations, NEW d \in Digests, release_legal_hold(org, d) PROVE RowsTyped'
  BY Zenon, <1>21 DEF release_legal_hold, RowsTyped
<1>22. ASSUME NEW org \in Organizations, NEW d \in Digests, RetentionEnds(org, d) PROVE RowsTyped'
  BY Zenon, <1>22 DEF RetentionEnds, RowsTyped
<1>23. ASSUME NEW w \in Deleters, NEW d \in Digests,
              \/ claim_objects_globally_for_deletion(w, d)
              \/ pending_object_deletion_claims(w, d)
       PROVE RowsTyped'
  BY Zenon, <1>1, <1>23 DEF claim_objects_globally_for_deletion, pending_object_deletion_claims,
     DeleterHas
<1>24. ASSUME NEW w \in Deleters, \/ begin_object_deletion(w) \/ DeleteContent(w)
              \/ complete_object_deletion(w) \/ abandon_object_deletion(w) \/ LeaveDeletion(w)
       PROVE RowsTyped'
  BY Zenon, <1>1, <1>24 DEF begin_object_deletion, DeleteContent, complete_object_deletion,
     abandon_object_deletion, LeaveDeletion, DeleterHas
<1>25. CASE UNCHANGED artifactVars
  BY Zenon, <1>1, <1>25 DEF artifactVars
<1> QED
  BY <1>2, <1>3, <1>4, <1>5, <1>6, <1>7, <1>8, <1>9, <1>10, <1>11, <1>12, <1>13, <1>14, <1>15,
     <1>16, <1>17, <1>18, <1>19, <1>20, <1>21, <1>22, <1>23, <1>24, <1>25 DEF ArtifactsNext,
     SetStep, PlainStep, ReaperStep, DeletionStep, Surroundings

(* Tokens stay within the uploads made. *)
LEMMA TokensTypedStep == TokensTyped /\ [ArtifactsNext]_artifactVars => TokensTyped'
<1> SUFFICES ASSUME TokensTyped, [ArtifactsNext]_artifactVars PROVE TokensTyped'
  BY Zenon
<1> USE DEF rowVars, fileVars, callVars
<1>1. ASSUME UNCHANGED <<uploads, pendingToken, stager>> PROVE TokensTyped'
  BY Zenon, <1>1 DEF TokensTyped
<1>2. ASSUME NEW a \in Producers, \/ begin_artifact_set(a) \/ artifact_set_members(a)
             \/ commit_artifact_set(a) \/ LeaveCommit(a) \/ abort_artifact_set(a)
             \/ RemoveAborted(a) \/ LeaseChanges(a) \/ Cancel(a)
      PROVE TokensTyped'
  BY Zenon, <1>1, <1>2 DEF SetsAborted, begin_artifact_set, artifact_set_members, commit_artifact_set, LeaveCommit,
     abort_artifact_set, RemoveAborted, LeaseChanges, Cancel
<1>3. ASSUME NEW a \in Producers, NEW m \in Members, PublishMember(a, m) PROVE TokensTyped'
  BY Zenon, <1>1, <1>3 DEF PublishMember
<1>4. ASSUME NEW m \in Members, stage(m) PROVE TokensTyped'
  <2>1. CASE pendingToken[m] # 0
    BY ZenonT(60), <1>4, <2>1 DEF stage, TokensTyped
  <2>2. CASE pendingToken[m] = 0
    <3>1. m \in Objects /\ uploads[m] + 1 <= MaxUploads[m]
      BY Zenon, <1>4, <2>2 DEF stage, Objects
    <3>2. /\ uploads' = [uploads EXCEPT ![m] = uploads[m] + 1]
          /\ stager' = [stager EXCEPT ![m] = [at |-> "received", token |-> uploads[m] + 1]]
          /\ pendingToken' = pendingToken
      BY Zenon, <1>4, <2>2 DEF stage
    <3>3. /\ uploads' \in [Objects -> Nat] /\ uploads'[m] = uploads[m] + 1
          /\ \A x \in Objects : uploads[x] <= uploads'[x] /\ uploads'[x] <= MaxUploads[x]
      BY <3>1, <3>2 DEF TokensTyped
    <3>4. \A n \in Members : n \in Objects
      BY Zenon DEF Objects
    <3> QED
      BY <3>1, <3>2, <3>3, <3>4 DEF TokensTyped
  <2> QED
    BY Zenon, <2>1, <2>2
<1>5. ASSUME NEW m \in Members, RetryMember(m) PROVE TokensTyped'
  BY Zenon, <1>5 DEF RetryMember, NoCall, TokensTyped
<1>6. ASSUME NEW m \in Members, register(m) PROVE TokensTyped'
  BY <1>6 DEF register, NoCall, TokensTyped
<1>7. ASSUME NEW m \in Members, LeaveStage(m) PROVE TokensTyped'
  BY Zenon, <1>7 DEF LeaveStage, NoCall, TokensTyped
<1>8. ASSUME NEW x \in Plains, stage_artifact(x) PROVE TokensTyped'
  <2>1. /\ uploads' \in [Objects -> Nat]
        /\ \A y \in Objects : uploads[y] <= uploads'[y] /\ uploads'[y] <= MaxUploads[y]
    BY <1>8 DEF stage_artifact, TokensTyped, Objects
  <2>2. \A n \in Members : n \in Objects
    BY Zenon DEF Objects
  <2> QED
    BY <1>8, <2>1, <2>2 DEF stage_artifact, TokensTyped
<1>9. ASSUME NEW c \in Callers, \/ register_artifact(c) \/ abort_pending(c) \/ commit_pending(c)
             \/ mark_artifact_available(c) \/ LeaveCall(c)
      PROVE TokensTyped'
  BY Zenon, <1>1, <1>9 DEF register_artifact, abort_pending, commit_pending, mark_artifact_available,
     LeaveCall
<1>10. ASSUME NEW c \in Callers, NEW t \in Tokens, claim_pending(c, t) PROVE TokensTyped'
  BY Zenon, <1>1, <1>10 DEF claim_pending
<1>11. CASE ReaperStep \/ DeletionStep \/ Surroundings
  BY Zenon, <1>1, <1>11, ReaperStepLeaves, DeletionStepLeaves, SurroundingsLeave
<1>12. CASE UNCHANGED artifactVars
  BY Zenon, <1>1, <1>12 DEF artifactVars
<1> QED
  BY <1>2, <1>3, <1>4, <1>5, <1>6, <1>7, <1>8, <1>9, <1>10, <1>11, <1>12 DEF ArtifactsNext,
     SetStep, PlainStep

(* A call in progress is about a token it was given. *)
LEMMA CallsTypedStep == CallsTyped /\ TokensTyped /\ [ArtifactsNext]_artifactVars => CallsTyped'
<1> SUFFICES ASSUME CallsTyped, TokensTyped, [ArtifactsNext]_artifactVars PROVE CallsTyped'
  BY Zenon
<1> USE DEF rowVars, callVars
<1>1. ASSUME UNCHANGED <<pendingToken, committer, aborting, caller, reaper>> PROVE CallsTyped'
  BY Zenon, <1>1 DEF CallsTyped
<1>2. ASSUME NEW a \in Producers, \/ begin_artifact_set(a) \/ LeaseChanges(a) \/ Cancel(a)
      PROVE CallsTyped'
  BY Zenon, <1>1, <1>2 DEF begin_artifact_set, LeaseChanges, Cancel
<1>3. ASSUME NEW a \in Producers, artifact_set_members(a) PROVE CallsTyped'
  BY Zenon, <1>3 DEF artifact_set_members, CallsTyped, MembersOf
<1>4. ASSUME NEW a \in Producers, commit_artifact_set(a) PROVE CallsTyped'
  BY ZenonT(60), <1>4 DEF commit_artifact_set, CallsTyped
<1>5. ASSUME NEW a \in Producers, LeaveCommit(a) PROVE CallsTyped'
  BY Zenon, <1>5 DEF LeaveCommit, CallsTyped
<1>6. ASSUME NEW a \in Producers, abort_artifact_set(a) PROVE CallsTyped'
  BY Zenon, <1>6 DEF abort_artifact_set, SetsAborted, CallsTyped
<1>7. ASSUME NEW a \in Producers, RemoveAborted(a) PROVE CallsTyped'
  BY Zenon, <1>7 DEF RemoveAborted, CallsTyped
<1>8. ASSUME NEW a \in Producers, NEW m \in Members, PublishMember(a, m) PROVE CallsTyped'
  BY <1>8 DEF PublishMember, CallsTyped
<1>9. ASSUME NEW m \in Members, stage(m) \/ RetryMember(m) \/ LeaveStage(m) PROVE CallsTyped'
  BY Zenon, <1>1, <1>9 DEF stage, RetryMember, LeaveStage
<1>10. ASSUME NEW m \in Members, register(m) PROVE CallsTyped'
  <2>1. \A n \in Members : pendingToken[n] # 0 => pendingToken'[n] # 0
    BY <1>10 DEF register, TokensTyped
  <2> QED
    BY <1>10, <2>1 DEF register, CallsTyped, MembersOf
<1>11. ASSUME NEW x \in Plains, stage_artifact(x) PROVE CallsTyped'
  BY Zenon, <1>1, <1>11 DEF stage_artifact
<1>12. ASSUME NEW c \in Callers, register_artifact(c) PROVE CallsTyped'
  <2>1. PICK place \in CallPlaces : CallerAt(c, place)
    BY Zenon, <1>12 DEF register_artifact, CallPlaces
  <2> QED
    BY Zenon, <1>12, <2>1 DEF register_artifact, CallerAt, CallsTyped
<1>13. ASSUME NEW c \in Callers, abort_pending(c) PROVE CallsTyped'
  BY Zenon, <1>13 DEF abort_pending, CallerDone, CallsTyped, CallPlaces
<1>14. ASSUME NEW c \in Callers, commit_pending(c) PROVE CallsTyped'
  BY <1>14 DEF commit_pending, CallerAt, CallsTyped, CallPlaces
<1>15. ASSUME NEW c \in Callers, mark_artifact_available(c) PROVE CallsTyped'
  BY Zenon, <1>15 DEF mark_artifact_available, CallerDone, CallsTyped, CallPlaces
<1>16. ASSUME NEW c \in Callers, LeaveCall(c) PROVE CallsTyped'
  BY Zenon, <1>16 DEF LeaveCall, CallerDone, CallsTyped, CallPlaces
<1>17. ASSUME NEW c \in Callers, NEW t \in Tokens, claim_pending(c, t) PROVE CallsTyped'
  BY Zenon, <1>17 DEF claim_pending, CallsTyped, CallPlaces
<1>18. ASSUME NEW t \in Tokens, publication_claims_older_than(t) PROVE CallsTyped'
  BY Zenon, <1>18 DEF publication_claims_older_than, CallsTyped, ReaperPlaces
<1>19. ASSUME reap_staged_older_than PROVE CallsTyped'
  BY Zenon, <1>1, <1>19 DEF reap_staged_older_than
<1>20. ASSUME expire_artifact_sets PROVE CallsTyped'
  BY Zenon, <1>20 DEF expire_artifact_sets, SetsAborted, CallsTyped, ReaperPlaces
<1>21. ASSUME artifact_publication_claim_active PROVE CallsTyped'
  BY Zenon, <1>21 DEF artifact_publication_claim_active, CallsTyped, ReaperPlaces
<1>22. ASSUME release_publication_claim PROVE CallsTyped'
  BY Zenon, <1>22 DEF release_publication_claim, CallsTyped, ReaperPlaces
<1>23. CASE DeletionStep \/ Surroundings
  BY Zenon, <1>1, <1>23, DeletionStepLeaves, SurroundingsLeave
<1>24. CASE UNCHANGED artifactVars
  BY Zenon, <1>1, <1>24 DEF artifactVars
<1> QED
  BY <1>2, <1>3, <1>4, <1>5, <1>6, <1>7, <1>8, <1>9, <1>10, <1>11, <1>12, <1>13, <1>14, <1>15,
     <1>16, <1>17, <1>18, <1>19, <1>20, <1>21, <1>22, <1>23, <1>24 DEF ArtifactsNext, SetStep,
     PlainStep, ReaperStep

(* Deletion claims and their workers keep their types. *)
LEMMA DeletionTypedStep == DeletionTyped /\ [ArtifactsNext]_artifactVars => DeletionTyped'
<1> SUFFICES ASSUME DeletionTyped, [ArtifactsNext]_artifactVars PROVE DeletionTyped'
  BY Zenon
<1> USE DEF protectionVars, callVars
<1>1. ASSUME UNCHANGED <<deletion, deleter>> PROVE DeletionTyped'
  BY Zenon, <1>1 DEF DeletionTyped
<1>2. ASSUME NEW org \in Organizations, NEW d \in Digests, \/ retain_object_for(org, d)
              \/ acquire_legal_hold(org, d) \/ release_legal_hold(org, d)
              \/ RetentionEnds(org, d)
       PROVE DeletionTyped'
  BY Zenon, <1>1, <1>2 DEF retain_object_for, acquire_legal_hold, release_legal_hold, RetentionEnds
<1>3. ASSUME NEW w \in Deleters, NEW d \in Digests, claim_objects_globally_for_deletion(w, d) PROVE DeletionTyped'
  BY <1>3 DEF claim_objects_globally_for_deletion, DeleterHas, Handle, Handles, ClaimStatuses, DeletionTyped
<1>4. ASSUME NEW w \in Deleters, NEW d \in Digests, pending_object_deletion_claims(w, d) PROVE DeletionTyped'
  BY <1>4 DEF pending_object_deletion_claims, DeleterHas, Handle, Handles, DeletionTyped
<1>5. ASSUME NEW w \in Deleters, begin_object_deletion(w) PROVE DeletionTyped'
  BY <1>5 DEF begin_object_deletion, DeleterHas, Handles, ClaimStatuses, DeletionTyped
<1>6. ASSUME NEW w \in Deleters, DeleteContent(w) PROVE DeletionTyped'
  BY <1>6 DEF DeleteContent, DeleterHas, Handles, DeletionTyped
<1>7. ASSUME NEW w \in Deleters, complete_object_deletion(w) PROVE DeletionTyped'
  BY <1>7 DEF complete_object_deletion, DeleterHas, Handles, ClaimStatuses, DeletionTyped
<1>8. ASSUME NEW w \in Deleters, abandon_object_deletion(w) PROVE DeletionTyped'
  BY Zenon, <1>8 DEF abandon_object_deletion, DeleterHas, Handles, ClaimStatuses, DeletionTyped
<1>9. ASSUME NEW w \in Deleters, LeaveDeletion(w) PROVE DeletionTyped'
  BY Zenon, <1>9 DEF LeaveDeletion, DeleterHas, DeletionTyped
<1>10. CASE SetStep \/ PlainStep \/ ReaperStep \/ Surroundings
  BY Zenon, <1>1, <1>10, SetStepLeaves, PlainStepLeaves, ReaperStepLeaves, SurroundingsLeave
<1>11. CASE UNCHANGED artifactVars
  BY Zenon, <1>1, <1>11 DEF artifactVars
<1> QED
  BY Zenon, <1>2, <1>3, <1>4, <1>5, <1>6, <1>7, <1>8, <1>9, <1>10, <1>11 DEF ArtifactsNext, DeletionStep

(* All types together. *)
LEMMA ArtifactTypesStep == ArtifactTypes /\ [ArtifactsNext]_artifactVars => ArtifactTypes'
BY Zenon, FilesTypedStep, RowsTypedStep, TokensTypedStep, CallsTypedStep, DeletionTypedStep DEF ArtifactTypes

(* Every row, file and call in progress keeps its type. *)
THEOREM ArtifactsTyped == ArtifactsSpec => []ArtifactsTypeOK
<1>1. ArtifactTypes => ArtifactsTypeOK
  BY DEF ArtifactTypes, ArtifactsTypeOK, FilesTyped, RowsTyped, TokensTyped, DeletionTyped
<1> QED
  BY <1>1, ArtifactTypesInit, ArtifactTypesStep, PTL DEF ArtifactsSpec

-----------------------------------------------------------------------------
(* Deletion.  The trigger keeps a claimed digest as the claim found it, and  *)
(* who removes content holds a claim that nobody can revoke any more.        *)

ClaimedIsEligible == \A d \in Digests : deletion[d].status # "none" => Eligible(d)

WorkerHasBegun ==
    \A w \in Deleters :
        deleter[w] # NoHandle /\ deleter[w].at \in {"deleting", "gone"} =>
            deletion[deleter[w].digest].status \in {"deleting", "deleted"}

DeletionInv == ClaimedIsEligible /\ WorkerHasBegun

deletionVars == <<objectRow, retention, held, deletion, deleter>>

(* Eligibility needs rows of which none is pending, so aborting or           *)
(* committing a set of the claimed digest leaves it eligible.                *)
LEMMA StillEligible ==
    ASSUME ArtifactTypes, NEW d \in Digests, Eligible(d),
           \A x \in Objects : DigestOf[x] = d /\ objectRow[x] # "pending" =>
                objectRow'[x] = objectRow[x],
           retention' = retention, held' = held
    PROVE  Eligible(d)'
<1>1. Referenced(d)' = Referenced(d)
  BY Zenon DEF Referenced, Eligible
<1> QED
  BY Zenon, <1>1 DEF Eligible, Referenced

(* What happens to the rows of another digest does not matter either. *)
LEMMA EligibleElsewhere ==
    ASSUME ArtifactTypes, NEW d \in Digests, Eligible(d),
           \A x \in Objects : DigestOf[x] = d => objectRow'[x] = objectRow[x],
           \A org \in Organizations : retention'[<<org, d>>] = retention[<<org, d>>],
           held' = held
    PROVE  Eligible(d)'
<1>1. Referenced(d)' = Referenced(d)
  BY Zenon DEF Referenced
<1> QED
  BY Zenon, <1>1, DigestOfObject DEF Eligible, Referenced

(* A claimed digest stays eligible for deletion, and a worker is past its    *)
(* mark only where the deletion has begun.                                   *)
LEMMA DeletionStepInv ==
    ArtifactTypes /\ DeletionInv /\ [ArtifactsNext]_artifactVars => DeletionInv'
<1> SUFFICES ASSUME ArtifactTypes, DeletionInv, [ArtifactsNext]_artifactVars PROVE DeletionInv'
  BY Zenon
<1> USE DEF rowVars, protectionVars, callVars
<1>0. ASSUME UNCHANGED deletionVars PROVE DeletionInv'
  BY Zenon, <1>0 DEF deletionVars, DeletionInv, ClaimedIsEligible, WorkerHasBegun, Eligible, Referenced
<1>1. ASSUME NEW a \in Producers,
             \/ begin_artifact_set(a) \/ artifact_set_members(a) \/ LeaveCommit(a) \/ RemoveAborted(a)
             \/ \E m \in Members : PublishMember(a, m)
             \/ LeaseChanges(a) \/ Cancel(a)
      PROVE DeletionInv'
  BY Zenon, <1>0, <1>1 DEF deletionVars, begin_artifact_set, artifact_set_members, LeaveCommit, RemoveAborted,
     PublishMember, LeaseChanges, Cancel
<1>2. ASSUME NEW m \in Members, stage(m) \/ RetryMember(m) \/ LeaveStage(m) PROVE DeletionInv'
  BY Zenon, <1>0, <1>2 DEF deletionVars, stage, RetryMember, LeaveStage
<1>3. ASSUME NEW c \in Callers,
             \/ \E t \in Tokens : claim_pending(c, t)
             \/ abort_pending(c) \/ commit_pending(c) \/ LeaveCall(c)
      PROVE DeletionInv'
  BY Zenon, <1>0, <1>3 DEF deletionVars, claim_pending, abort_pending, commit_pending, LeaveCall
<1>4. ASSUME \/ \E x \in Plains : stage_artifact(x)
             \/ \E t \in Tokens : publication_claims_older_than(t) \/ Age(t)
             \/ artifact_publication_claim_active \/ release_publication_claim \/ reap_staged_older_than
             \/ UNCHANGED artifactVars
      PROVE DeletionInv'
  BY Zenon, <1>0, <1>4 DEF artifactVars, deletionVars, stage_artifact, publication_claims_older_than, Age,
     artifact_publication_claim_active, release_publication_claim, reap_staged_older_than
<1>5. ASSUME NEW a \in Producers, commit_artifact_set(a) PROVE DeletionInv'
  <2>1. WorkerHasBegun'
    BY Zenon, <1>5 DEF commit_artifact_set, DeletionInv, WorkerHasBegun
  <2>2. ASSUME NEW d \in Digests, Eligible(d) PROVE Eligible(d)'
    <3>1. \A x \in Objects : DigestOf[x] = d /\ objectRow[x] # "pending" =>
        objectRow'[x] = objectRow[x]
      BY Zenon, <1>5 DEF commit_artifact_set
    <3> QED
      BY Zenon, <1>5, <2>2, <3>1, StillEligible DEF commit_artifact_set
  <2> QED
    BY Zenon, <1>5, <2>1, <2>2 DEF commit_artifact_set, DeletionInv, ClaimedIsEligible
<1>6. ASSUME (\E a \in Producers : abort_artifact_set(a)) \/ expire_artifact_sets PROVE DeletionInv'
  <2>1. PICK sets : SetsAborted(sets)
    BY Zenon, <1>6 DEF abort_artifact_set, expire_artifact_sets
  <2>2. UNCHANGED <<retention, held, deletion, deleter>>
    BY Zenon, <1>6 DEF abort_artifact_set, expire_artifact_sets
  <2>3. ASSUME NEW d \in Digests, Eligible(d) PROVE Eligible(d)'
    <3>1. \A x \in Objects : DigestOf[x] = d /\ objectRow[x] # "pending" =>
        objectRow'[x] = objectRow[x]
      BY Zenon, <2>1 DEF SetsAborted
    <3> QED
      BY Zenon, <2>2, <2>3, <3>1, StillEligible
  <2> QED
    BY Zenon, <2>2, <2>3 DEF DeletionInv, ClaimedIsEligible, WorkerHasBegun
<1>7. ASSUME NEW x \in Objects, Unclaimed(DigestOf[x]),
             \A y \in Objects \ {x} : objectRow'[y] = objectRow[y],
             retention' \in {retention, Extended(x)},
             UNCHANGED <<held, deletion, deleter>>
      PROVE DeletionInv'
  <2>1. ASSUME NEW d \in Digests, deletion[d].status # "none" PROVE Eligible(d)'
    <3>1. d # DigestOf[x]
      BY Zenon, <1>7, <2>1 DEF Unclaimed
    <3>2. \A org \in Organizations : retention'[<<org, d>>] = retention[<<org, d>>]
      BY Zenon, <1>7, <3>1 DEF Extended, ArtifactTypes, RowsTyped
    <3>3. \A y \in Objects : DigestOf[y] = d => objectRow'[y] = objectRow[y]
      BY Zenon, <1>7, <3>1
    <3>4. Eligible(d)
      BY Zenon, <2>1 DEF DeletionInv, ClaimedIsEligible
    <3> QED
      BY Zenon, <1>7, <3>2, <3>3, <3>4, EligibleElsewhere
  <2> QED
    BY Zenon, <1>7, <2>1 DEF DeletionInv, ClaimedIsEligible, WorkerHasBegun
<1>8. ASSUME NEW m \in Members, register(m) PROVE DeletionInv'
  BY <1>7, <1>8 DEF register, Objects
<1>9. ASSUME NEW c \in Callers, register_artifact(c) PROVE DeletionInv'
  <2>1. caller[c].token[1] \in Objects
    BY Zenon, <1>9 DEF register_artifact, ArtifactTypes, CallsTyped, Objects
  <2>2. CASE objectRow' = objectRow /\ retention' = retention
    BY Zenon, <1>0, <1>9, <2>2 DEF register_artifact, deletionVars
  <2>3. CASE Unclaimed(DigestOf[caller[c].token[1]])
    <3> DEFINE x == caller[c].token[1]
    <3>1. \A y \in Objects \ {x} : objectRow'[y] = objectRow[y]
      <4>1. objectRow' = objectRow \/ objectRow' = [objectRow EXCEPT ![x] = "pending"]
        BY Zenon, <1>9 DEF register_artifact
      <4> QED
        BY Zenon, <4>1 DEF ArtifactTypes, RowsTyped
    <3>2. retention' \in {retention, Extended(x)} /\ UNCHANGED <<held, deletion, deleter>>
      BY Zenon, <1>9 DEF register_artifact
    <3> QED
      BY Zenon, <1>7, <2>1, <2>3, <3>1, <3>2
  <2> QED
    BY Zenon, <1>9, <2>2, <2>3 DEF register_artifact
<1>10. ASSUME NEW c \in Callers, mark_artifact_available(c) PROVE DeletionInv'
  <2>1. caller[c].token[1] \in Objects
    BY Zenon, <1>10 DEF mark_artifact_available, ArtifactTypes, CallsTyped, Objects
  <2> QED
    BY <1>7, <1>10, <2>1 DEF mark_artifact_available
<1>11. ASSUME NEW org \in Organizations, NEW d \in Digests,
              retain_object_for(org, d) \/ acquire_legal_hold(org, d)
       PROVE DeletionInv'
  <2>1. deletion[d].status = "none" /\ UNCHANGED <<objectRow, deletion, deleter>>
    BY Zenon, <1>11 DEF retain_object_for, acquire_legal_hold, Unclaimed
  <2>2. ASSUME NEW e \in Digests, deletion[e].status # "none" PROVE Eligible(e)'
    <3>1. e # d /\ Eligible(e)
      BY Zenon, <2>1, <2>2 DEF DeletionInv, ClaimedIsEligible
    <3>2. \A o \in Organizations : retention'[<<o, e>>] = retention[<<o, e>>] /\ (<<o, e>> \in held' <=> <<o, e>> \in held)
      <4>1. CASE retain_object_for(org, d)
        BY Zenon, <3>1, <4>1 DEF retain_object_for, ArtifactTypes, RowsTyped
      <4>2. CASE acquire_legal_hold(org, d)
        BY Zenon, <3>1, <4>2 DEF acquire_legal_hold
      <4> QED
        BY Zenon, <1>11, <4>1, <4>2
    <3> QED
      BY Zenon, <2>1, <3>1, <3>2, DigestOfObject DEF Eligible, Referenced
  <2> QED
    BY Zenon, <2>1, <2>2 DEF DeletionInv, ClaimedIsEligible, WorkerHasBegun
<1>12. ASSUME NEW org \in Organizations, NEW d \in Digests,
              release_legal_hold(org, d) \/ RetentionEnds(org, d)
       PROVE DeletionInv'
  <2>1. UNCHANGED <<objectRow, deletion, deleter>> /\ held' \subseteq held
    BY Zenon, <1>12 DEF release_legal_hold, RetentionEnds
  <2>2. \A e \in Digests, o \in Organizations :
           retention[<<o, e>>] = "over" => retention'[<<o, e>>] = "over"
    <3>1. retention \in [Organizations \X Digests -> {"none", "live", "over"}]
      BY Zenon DEF ArtifactTypes, RowsTyped
    <3> QED
      BY Zenon, <1>12, <3>1 DEF release_legal_hold, RetentionEnds
  <2>3. ASSUME NEW e \in Digests, Eligible(e) PROVE Eligible(e)'
    BY Zenon, <2>1, <2>2, <2>3, DigestOfObject DEF Eligible, Referenced
  <2> QED
    BY Zenon, <2>1, <2>3 DEF DeletionInv, ClaimedIsEligible, WorkerHasBegun
<1>13. ASSUME NEW w \in Deleters,
              \/ \E d \in Digests : claim_objects_globally_for_deletion(w, d) \/ pending_object_deletion_claims(w, d)
              \/ begin_object_deletion(w) \/ DeleteContent(w) \/ complete_object_deletion(w)
              \/ abandon_object_deletion(w) \/ LeaveDeletion(w)
       PROVE DeletionInv'
  <2>1. UNCHANGED <<objectRow, retention, held>>
    BY Zenon, <1>13 DEF claim_objects_globally_for_deletion, pending_object_deletion_claims,
       begin_object_deletion, DeleteContent, complete_object_deletion, abandon_object_deletion,
       LeaveDeletion, DeleterHas
  <2>2. \A d \in Digests : Eligible(d)' <=> Eligible(d)
    BY Zenon, <2>1 DEF Eligible, Referenced
  <2>3. ClaimedIsEligible'
    <3>1. \A d \in Digests : deletion'[d].status # "none" =>
        deletion[d].status # "none" \/ Eligible(d)
      BY <1>13 DEF claim_objects_globally_for_deletion, pending_object_deletion_claims,
         begin_object_deletion, DeleteContent, complete_object_deletion, abandon_object_deletion,
         LeaveDeletion, DeleterHas, ArtifactTypes, DeletionTyped, ClaimStatuses, Handles
    <3> QED
      BY Zenon, <2>2, <3>1 DEF DeletionInv, ClaimedIsEligible
  <2>4. WorkerHasBegun'
    <3> SUFFICES ASSUME NEW v \in Deleters, deleter'[v] # NoHandle, deleter'[v].at \in {"deleting", "gone"}
                 PROVE  deletion'[deleter'[v].digest].status \in {"deleting", "deleted"}
      BY Zenon DEF WorkerHasBegun
    <3> USE DEF ArtifactTypes, DeletionTyped, DeletionInv, WorkerHasBegun, Handles
    <3>1. ASSUME NEW d \in Digests, claim_objects_globally_for_deletion(w, d)
          PROVE  deletion'[deleter'[v].digest].status \in {"deleting", "deleted"}
      BY Zenon, <3>1 DEF claim_objects_globally_for_deletion, DeleterHas, Handle, Unclaimed
    <3>2. ASSUME NEW d \in Digests, pending_object_deletion_claims(w, d)
          PROVE  deletion'[deleter'[v].digest].status \in {"deleting", "deleted"}
      BY Zenon, <3>2 DEF pending_object_deletion_claims, DeleterHas, Handle
    <3>3. CASE begin_object_deletion(w)
      BY <3>3 DEF begin_object_deletion, DeleterHas
    <3>4. CASE DeleteContent(w)
      BY <3>4 DEF DeleteContent, DeleterHas
    <3>5. CASE complete_object_deletion(w)
      BY Zenon, <3>5 DEF complete_object_deletion, DeleterHas
    <3>6. CASE abandon_object_deletion(w)
      BY Zenon, <3>6 DEF abandon_object_deletion, DeleterHas
    <3>7. CASE LeaveDeletion(w)
      BY Zenon, <3>7 DEF LeaveDeletion, DeleterHas
    <3> QED
      BY Zenon, <1>13, <3>1, <3>2, <3>3, <3>4, <3>5, <3>6, <3>7
  <2> QED
    BY Zenon, <2>3, <2>4 DEF DeletionInv
<1> QED
  BY <1>1, <1>2, <1>3, <1>4, <1>5, <1>6, <1>8, <1>9, <1>10, <1>11, <1>12, <1>13 DEF ArtifactsNext,
     SetStep, PlainStep, ReaperStep, DeletionStep, Surroundings

(* Deletion is in order in every reachable state. *)
LEMMA DeletionInvariant == ArtifactsSpec => [](ArtifactTypes /\ DeletionInv)
<1>1. ArtifactsInit => DeletionInv
  BY DEF ArtifactsInit, DeletionInv, ClaimedIsEligible, WorkerHasBegun, NoClaim
<1> QED
  BY <1>1, ArtifactTypesInit, ArtifactTypesStep, DeletionStepInv, PTL DEF ArtifactsSpec

(* Content is only ever added, except by a deletion worker. *)
ContentMoves == content \subseteq content' \/ \E w \in Deleters : DeleteContent(w)

(* No action but DeleteContent unlinks content. *)
LEMMA ContentStep == [ArtifactsNext]_artifactVars => ContentMoves
<1> SUFFICES ASSUME [ArtifactsNext]_artifactVars PROVE ContentMoves
  BY Zenon
<1> USE DEF fileVars
<1>1. ASSUME UNCHANGED <<content>> PROVE ContentMoves
  BY Zenon, <1>1 DEF ContentMoves
<1>2. ASSUME NEW a \in Producers,
             \/ begin_artifact_set(a) \/ artifact_set_members(a) \/ commit_artifact_set(a)
             \/ abort_artifact_set(a) \/ RemoveAborted(a) \/ LeaseChanges(a) \/ Cancel(a)
      PROVE ContentMoves
  BY Zenon, <1>1, <1>2 DEF begin_artifact_set, artifact_set_members, commit_artifact_set,
     abort_artifact_set, RemoveAborted, LeaseChanges, Cancel, SetsAborted
<1>3. ASSUME NEW a \in Producers, LeaveCommit(a) PROVE ContentMoves
  BY Zenon, <1>3 DEF LeaveCommit, LinkOnly, ContentMoves
<1>4. ASSUME NEW a \in Producers, NEW m \in Members, PublishMember(a, m) PROVE ContentMoves
  BY Zenon, <1>4 DEF PublishMember, LinkAndRemove, ContentMoves
<1>5. ASSUME NEW m \in Members,
             \/ stage(m) \/ RetryMember(m) \/ register(m) \/ LeaveStage(m)
      PROVE ContentMoves
  BY Zenon, <1>1, <1>5 DEF stage, RetryMember, register, LeaveStage
<1>6. ASSUME NEW x \in Plains, stage_artifact(x) PROVE ContentMoves
  BY Zenon, <1>1, <1>6 DEF stage_artifact
<1>7. ASSUME NEW c \in Callers,
             \/ register_artifact(c) \/ abort_pending(c) \/ mark_artifact_available(c)
      PROVE ContentMoves
  BY Zenon, <1>1, <1>7 DEF register_artifact, abort_pending, mark_artifact_available
<1>8. ASSUME NEW c \in Callers, commit_pending(c) PROVE ContentMoves
  BY Zenon, <1>8 DEF commit_pending, LinkAndRemove, ContentMoves
<1>9. ASSUME NEW c \in Callers, LeaveCall(c) PROVE ContentMoves
  BY Zenon, <1>9 DEF LeaveCall, LinkOnly, ContentMoves
<1>10. ASSUME NEW c \in Callers, NEW t \in Tokens, claim_pending(c, t) PROVE ContentMoves
  BY Zenon, <1>1, <1>10 DEF claim_pending
<1>11. ASSUME NEW org \in Organizations, NEW d \in Digests,
              \/ retain_object_for(org, d) \/ acquire_legal_hold(org, d)
              \/ release_legal_hold(org, d) \/ RetentionEnds(org, d)
       PROVE ContentMoves
  BY Zenon, <1>1, <1>11 DEF retain_object_for, acquire_legal_hold, release_legal_hold, RetentionEnds
<1>12. ASSUME NEW w \in Deleters, NEW d \in Digests,
              \/ claim_objects_globally_for_deletion(w, d)
              \/ pending_object_deletion_claims(w, d)
       PROVE ContentMoves
  BY Zenon, <1>1, <1>12 DEF claim_objects_globally_for_deletion, pending_object_deletion_claims,
     DeleterHas
<1>13. ASSUME NEW w \in Deleters,
              \/ begin_object_deletion(w) \/ complete_object_deletion(w)
              \/ abandon_object_deletion(w) \/ LeaveDeletion(w)
       PROVE ContentMoves
  BY Zenon, <1>1, <1>13 DEF begin_object_deletion, complete_object_deletion, abandon_object_deletion,
     LeaveDeletion, DeleterHas
<1>14. ASSUME NEW w \in Deleters, DeleteContent(w) PROVE ContentMoves
  BY Zenon, <1>14 DEF ContentMoves
<1>15. CASE ReaperStep \/ Surroundings
  BY Zenon, <1>1, <1>15, ReaperStepLeaves, SurroundingsLeave
<1>16. CASE UNCHANGED artifactVars
  BY Zenon, <1>1, <1>16 DEF artifactVars
<1> QED
  BY <1>2, <1>3, <1>4, <1>5, <1>6, <1>7, <1>8, <1>9, <1>10, <1>11, <1>12, <1>13, <1>14, <1>15,
     <1>16 DEF ArtifactsNext, SetStep, PlainStep, DeletionStep

(* Content leaves the store only while nobody protects it: the worker that   *)
(* removes it holds a claim that has begun, such a claim cannot be revoked,  *)
(* and until it is revoked the trigger keeps the digest as eligible as the   *)
(* claim found it.  No bound on objects, organizations or workers.           *)
THEOREM DeletedWasUnprotected == ArtifactsSpec => OnlyUnprotectedDeleted
<1>1. ArtifactTypes /\ DeletionInv /\ [ArtifactsNext]_artifactVars =>
         [\A d \in content \ content' : Unprotected(d)]_artifactVars
  <2> SUFFICES ASSUME ArtifactTypes, DeletionInv, [ArtifactsNext]_artifactVars,
                      NEW d \in content \ content'
               PROVE  Unprotected(d)
    BY Zenon
  <2>1. PICK w \in Deleters : DeleteContent(w)
    BY Zenon, ContentStep DEF ContentMoves
  <2>2. /\ deleter[w] # NoHandle /\ deleter[w].at = "deleting" /\ d = deleter[w].digest
    BY Zenon, <2>1 DEF DeleteContent
  <2>3. d \in Digests /\ deletion[d].status # "none"
    BY Zenon, <2>2 DEF DeletionInv, WorkerHasBegun, ArtifactTypes, FilesTyped
  <2>4. Eligible(d)
    BY Zenon, <2>3 DEF DeletionInv, ClaimedIsEligible
  <2> QED
    BY Zenon, <2>4, DigestOfObject DEF Eligible, Referenced, Unprotected
<1> QED
  BY <1>1, DeletionInvariant, PTL DEF ArtifactsSpec, OnlyUnprotectedDeleted

-----------------------------------------------------------------------------
(* What is listed can be read.  Content lasts: it stays until its deletion   *)
(* has begun, which is never undone.                                         *)

Lasting(d) == d \in content \/ deletion[d].status \in {"deleting", "deleted"}

BegunStays ==
    \A d \in Digests : deletion[d].status \in {"deleting", "deleted"} =>
        deletion'[d].status \in {"deleting", "deleted"}

(* No step undoes a deletion that has begun. *)
LEMMA BegunStep == DeletionTyped /\ [ArtifactsNext]_artifactVars => BegunStays
<1> SUFFICES ASSUME DeletionTyped, [ArtifactsNext]_artifactVars PROVE BegunStays
  BY Zenon
<1> USE DEF protectionVars
<1>1. ASSUME UNCHANGED <<deletion>> PROVE BegunStays
  BY Zenon, <1>1 DEF BegunStays
<1>2. ASSUME NEW org \in Organizations, NEW d \in Digests,
              \/ retain_object_for(org, d) \/ acquire_legal_hold(org, d)
              \/ release_legal_hold(org, d) \/ RetentionEnds(org, d)
       PROVE BegunStays
  BY Zenon, <1>1, <1>2 DEF retain_object_for, acquire_legal_hold, release_legal_hold, RetentionEnds
<1>3. ASSUME NEW w \in Deleters, NEW d \in Digests,
              pending_object_deletion_claims(w, d)
       PROVE BegunStays
  BY Zenon, <1>1, <1>3 DEF pending_object_deletion_claims, DeleterHas
<1>4. ASSUME NEW w \in Deleters, NEW d \in Digests, claim_objects_globally_for_deletion(w, d)
       PROVE BegunStays
  BY Zenon, <1>4 DEF claim_objects_globally_for_deletion, DeleterHas, Handles, DeletionTyped, BegunStays, Unclaimed
<1>5. ASSUME NEW w \in Deleters, DeleteContent(w) \/ LeaveDeletion(w) PROVE BegunStays
  BY Zenon, <1>1, <1>5 DEF DeleteContent, LeaveDeletion, DeleterHas
<1>6. ASSUME NEW w \in Deleters, begin_object_deletion(w) PROVE BegunStays
  BY Zenon, <1>6 DEF begin_object_deletion, DeleterHas, Handles, DeletionTyped, BegunStays
<1>7. ASSUME NEW w \in Deleters, complete_object_deletion(w) PROVE BegunStays
  BY <1>7 DEF complete_object_deletion, DeleterHas, Handles, DeletionTyped, BegunStays
<1>8. ASSUME NEW w \in Deleters, abandon_object_deletion(w) PROVE BegunStays
  BY Zenon, <1>8 DEF abandon_object_deletion, DeleterHas, Handles, DeletionTyped, BegunStays
<1>9. CASE SetStep \/ PlainStep \/ ReaperStep \/ Surroundings
  BY Zenon, <1>1, <1>9, SetStepLeaves, PlainStepLeaves, ReaperStepLeaves, SurroundingsLeave
<1>10. CASE UNCHANGED artifactVars
  BY Zenon, <1>1, <1>10 DEF artifactVars
<1> QED
  BY Zenon, <1>2, <1>3, <1>4, <1>5, <1>6, <1>7, <1>8, <1>9, <1>10 DEF ArtifactsNext, DeletionStep

(* So what is lasting stays lasting: only a deletion worker unlinks content, *)
(* and only after it has recorded that the deletion has begun.               *)
LEMMA ContentLasts ==
    ASSUME ArtifactTypes, DeletionInv, [ArtifactsNext]_artifactVars, NEW d \in Digests, Lasting(d)
    PROVE  Lasting(d)'
<1>1. BegunStays
  BY Zenon, BegunStep DEF ArtifactTypes
<1>2. CASE content \subseteq content'
  BY Zenon, <1>1, <1>2 DEF Lasting, BegunStays
<1>3. ASSUME NEW w \in Deleters, DeleteContent(w) PROVE Lasting(d)'
  <2>1. deletion[deleter[w].digest].status \in {"deleting", "deleted"}
    BY Zenon, <1>3 DEF DeleteContent, DeletionInv, WorkerHasBegun
  <2> QED
    BY Zenon, <1>1, <1>3, <2>1 DEF DeleteContent, Lasting, BegunStays
<1> QED
  BY Zenon, <1>2, <1>3, ContentStep DEF ContentMoves

LastingNext(d) == d \in content' \/ deletion'[d].status \in {"deleting", "deleted"}

(* The bytes of a listed object last; so do those that a call has published   *)
(* and is about to list.                                                      *)
RowsLast == \A x \in Objects : objectRow[x] = "available" => Lasting(DigestOf[x])

CallsLast ==
    \A c \in Callers : caller[c].at = "published" => Lasting(DigestOf[caller[c].token[1]])

CommitsLast ==
    \A a \in Producers : committer[a].at = "publishing" /\ committer[a].whole =>
        \A m \in MembersOf(a) \ committer[a].todo : Lasting(DigestOf[m])

BytesKept == RowsLast /\ CallsLast /\ CommitsLast

(* A row becomes available only over content that was linked for it. *)
LEMMA RowsLastStep ==
    ArtifactTypes /\ DeletionInv /\ BytesKept /\ [ArtifactsNext]_artifactVars => RowsLast'
<1> SUFFICES ASSUME ArtifactTypes, DeletionInv, BytesKept, [ArtifactsNext]_artifactVars
             PROVE  RowsLast'
  BY Zenon
<1> USE DEF rowVars
<1>1. ASSUME UNCHANGED <<objectRow>> PROVE RowsLast'
  BY Zenon, <1>1, ContentLasts, DigestOfObject DEF BytesKept, RowsLast
<1>a. \A x \in Objects : Lasting(DigestOf[x]) => Lasting(DigestOf[x])'
  BY Zenon, ContentLasts, DigestOfObject
<1>2. ASSUME NEW a \in Producers,
             \/ begin_artifact_set(a) \/ artifact_set_members(a) \/ LeaveCommit(a)
             \/ RemoveAborted(a) \/ LeaseChanges(a) \/ Cancel(a)
      PROVE RowsLast'
  BY Zenon, <1>1, <1>2 DEF begin_artifact_set, artifact_set_members, LeaveCommit, RemoveAborted,
     LeaseChanges, Cancel
<1>3. ASSUME NEW a \in Producers, commit_artifact_set(a) PROVE RowsLast'
  <2>1. \A x \in Objects : objectRow'[x] = "available" => Lasting(DigestOf[x])
    BY Zenon, <1>3 DEF commit_artifact_set, BytesKept, RowsLast, CommitsLast
  <2> QED
    BY Zenon, <2>1, <1>a DEF RowsLast
<1>4. ASSUME NEW a \in Producers, abort_artifact_set(a) PROVE RowsLast'
  BY Zenon, <1>4, <1>a DEF abort_artifact_set, SetsAborted, BytesKept, RowsLast
<1>5. ASSUME NEW a \in Producers, NEW m \in Members, PublishMember(a, m) PROVE RowsLast'
  BY Zenon, <1>1, <1>5 DEF PublishMember
<1>6. ASSUME NEW m \in Members, stage(m) \/ RetryMember(m) \/ LeaveStage(m) PROVE RowsLast'
  BY Zenon, <1>1, <1>6 DEF stage, RetryMember, LeaveStage
<1>7. ASSUME NEW m \in Members, register(m) PROVE RowsLast'
  <2>1. \A x \in Objects : objectRow'[x] = "available" => objectRow[x] = "available"
    BY <1>7 DEF register, ArtifactTypes, RowsTyped
  <2> QED
    BY Zenon, <2>1, <1>a DEF BytesKept, RowsLast
<1>8. ASSUME NEW x \in Plains, stage_artifact(x) PROVE RowsLast'
  BY Zenon, <1>1, <1>8 DEF stage_artifact
<1>9. ASSUME NEW c \in Callers,
             \/ abort_pending(c) \/ commit_pending(c) \/ LeaveCall(c)
      PROVE RowsLast'
  BY Zenon, <1>1, <1>9 DEF abort_pending, commit_pending, LeaveCall
<1>10. ASSUME NEW c \in Callers, register_artifact(c) PROVE RowsLast'
  <2>1. \/ objectRow' = objectRow
        \/ objectRow' = [objectRow EXCEPT ![caller[c].token[1]] = "pending"]
    BY Zenon, <1>10 DEF register_artifact
  <2>2. \A x \in Objects : objectRow'[x] = "available" => objectRow[x] = "available"
    BY Zenon, <2>1 DEF ArtifactTypes, RowsTyped
  <2> QED
    BY Zenon, <2>2, <1>a DEF BytesKept, RowsLast
<1>11. ASSUME NEW c \in Callers, mark_artifact_available(c) PROVE RowsLast'
  <2>1. \A x \in Objects : objectRow'[x] = "available" => Lasting(DigestOf[x])
    BY <1>11 DEF mark_artifact_available, BytesKept, RowsLast, CallsLast, ArtifactTypes, RowsTyped
  <2> QED
    BY Zenon, <2>1, <1>a DEF RowsLast
<1>12. ASSUME NEW c \in Callers, NEW t \in Tokens, claim_pending(c, t) PROVE RowsLast'
  BY Zenon, <1>1, <1>12 DEF claim_pending
<1>13. ASSUME NEW t \in Tokens, publication_claims_older_than(t) \/ Age(t) PROVE RowsLast'
  BY Zenon, <1>1, <1>13 DEF publication_claims_older_than, Age
<1>14. ASSUME \/ artifact_publication_claim_active \/ release_publication_claim
              \/ reap_staged_older_than
       PROVE RowsLast'
  BY Zenon, <1>1, <1>14 DEF artifact_publication_claim_active, release_publication_claim,
     reap_staged_older_than
<1>15. ASSUME expire_artifact_sets PROVE RowsLast'
  BY Zenon, <1>15, <1>a DEF expire_artifact_sets, SetsAborted, BytesKept, RowsLast
<1>16. CASE DeletionStep \/ Surroundings
  BY Zenon, <1>1, <1>16, DeletionStepLeaves, SurroundingsLeave
<1>17. CASE UNCHANGED artifactVars
  BY Zenon, <1>1, <1>17 DEF artifactVars
<1> QED
  BY Zenon, <1>2, <1>3, <1>4, <1>5, <1>6, <1>7, <1>8, <1>9, <1>10, <1>11, <1>12, <1>13, <1>14, <1>15,
     <1>16, <1>17 DEF ArtifactsNext, SetStep, PlainStep, ReaperStep

(* A call that is past its link has content to show for it. *)
LEMMA CallsLastStep ==
    ArtifactTypes /\ DeletionInv /\ BytesKept /\ [ArtifactsNext]_artifactVars => CallsLast'
<1> SUFFICES ASSUME ArtifactTypes, DeletionInv, BytesKept, [ArtifactsNext]_artifactVars
             PROVE  CallsLast'
  BY Zenon
<1> USE DEF callVars
<1>a. \A c \in Callers : caller[c].at = "published" => LastingNext(DigestOf[caller[c].token[1]])
  <2>1. \A c \in Callers : caller[c].at = "published" => caller[c].token[1] \in Objects
    BY Zenon DEF ArtifactTypes, CallsTyped, Objects
  <2> QED
    BY Zenon, <2>1, ContentLasts, DigestOfObject DEF BytesKept, CallsLast, Lasting, LastingNext
<1>1. ASSUME UNCHANGED <<caller>> PROVE CallsLast'
  BY Zenon, <1>1, <1>a DEF CallsLast, Lasting, LastingNext
<1>2. ASSUME NEW x \in Plains, stage_artifact(x) PROVE CallsLast'
  BY Zenon, <1>1, <1>2 DEF stage_artifact
<1>3. ASSUME NEW c \in Callers, register_artifact(c) PROVE CallsLast'
  <2>1. PICK place \in {"registered", "refused"} : CallerAt(c, place)
    BY Zenon, <1>3 DEF register_artifact
  <2>2. \A b \in Callers : caller'[b].at = "published" => caller'[b] = caller[b]
    BY Zenon, <2>1 DEF CallerAt, ArtifactTypes, CallsTyped
  <2> QED
    BY Zenon, <2>2, <1>a DEF BytesKept, CallsLast, Lasting, LastingNext
<1>4. ASSUME NEW c \in Callers, abort_pending(c) PROVE CallsLast'
  <2>1. \A b \in Callers : caller'[b].at = "published" => caller'[b] = caller[b]
    BY Zenon, <1>4 DEF abort_pending, CallerDone, ArtifactTypes, CallsTyped
  <2> QED
    BY Zenon, <2>1, <1>a DEF BytesKept, CallsLast, Lasting, LastingNext
<1>5. ASSUME NEW c \in Callers, commit_pending(c) PROVE CallsLast'
  <2>1. DigestOf[caller[c].token[1]] \in content'
    BY Zenon, <1>5 DEF commit_pending, LinkAndRemove
  <2>2. \A b \in Callers : caller'[b].token = caller[b].token /\ (b # c => caller'[b] = caller[b])
    BY Zenon, <1>5 DEF commit_pending, CallerAt, ArtifactTypes, CallsTyped
  <2> QED
    BY <2>1, <2>2, <1>a DEF CallsLast, Lasting, LastingNext
<1>6. ASSUME NEW c \in Callers, mark_artifact_available(c) PROVE CallsLast'
  <2>1. \A b \in Callers : caller'[b].at = "published" => caller'[b] = caller[b]
    BY Zenon, <1>6 DEF mark_artifact_available, CallerDone, ArtifactTypes, CallsTyped
  <2> QED
    BY Zenon, <2>1, <1>a DEF BytesKept, CallsLast, Lasting, LastingNext
<1>7. ASSUME NEW c \in Callers, LeaveCall(c) PROVE CallsLast'
  <2>1. \A b \in Callers : caller'[b].at = "published" => caller'[b] = caller[b]
    BY Zenon, <1>7 DEF LeaveCall, CallerDone, ArtifactTypes, CallsTyped
  <2> QED
    BY Zenon, <2>1, <1>a DEF BytesKept, CallsLast, Lasting, LastingNext
<1>8. ASSUME NEW c \in Callers, NEW t \in Tokens, claim_pending(c, t) PROVE CallsLast'
  <2>1. \A b \in Callers : caller'[b].at = "published" => caller'[b] = caller[b]
    BY Zenon, <1>8 DEF claim_pending, ArtifactTypes, CallsTyped
  <2> QED
    BY <2>1, <1>a DEF BytesKept, CallsLast, Lasting, LastingNext
<1>9. CASE SetStep \/ ReaperStep \/ DeletionStep \/ Surroundings
  BY Zenon, <1>1, <1>9, SetStepLeaves, ReaperStepLeaves, DeletionStepLeaves, SurroundingsLeave
<1>10. CASE UNCHANGED artifactVars
  BY Zenon, <1>1, <1>10 DEF artifactVars
<1> QED
  BY Zenon, <1>2, <1>3, <1>4, <1>5, <1>6, <1>7, <1>8, <1>9, <1>10 DEF ArtifactsNext, PlainStep

(* A commit that found its set whole links every member before it is done    *)
(* with it.                                                                  *)
LEMMA CommitsLastStep ==
    ArtifactTypes /\ DeletionInv /\ BytesKept /\ [ArtifactsNext]_artifactVars => CommitsLast'
<1> SUFFICES ASSUME ArtifactTypes, DeletionInv, BytesKept, [ArtifactsNext]_artifactVars
             PROVE  CommitsLast'
  BY Zenon
<1> USE DEF callVars
<1>a. \A b \in Producers : committer[b].at = "publishing" /\ committer[b].whole =>
         \A m \in MembersOf(b) \ committer[b].todo : Lasting(DigestOf[m])'
  BY Zenon, ContentLasts, DigestOfObject DEF BytesKept, CommitsLast, MembersOf, Objects
<1>1. ASSUME UNCHANGED <<committer>> PROVE CommitsLast'
  BY Zenon, <1>1, <1>a DEF CommitsLast
<1>2. ASSUME NEW a \in Producers,
             \/ begin_artifact_set(a) \/ abort_artifact_set(a) \/ RemoveAborted(a)
             \/ LeaseChanges(a) \/ Cancel(a)
      PROVE CommitsLast'
  BY Zenon, <1>1, <1>2 DEF begin_artifact_set, abort_artifact_set, RemoveAborted, LeaseChanges, Cancel,
     SetsAborted
<1>3. ASSUME NEW a \in Producers, artifact_set_members(a) PROVE CommitsLast'
  <2>1. \A b \in Producers \ {a} : committer'[b] = committer[b]
    BY Zenon, <1>3 DEF artifact_set_members, ArtifactTypes, CallsTyped
  <2>2. committer'[a].whole => MembersOf(a) \ committer'[a].todo = {}
    BY Zenon, <1>3 DEF artifact_set_members, ArtifactTypes, CallsTyped
  <2> QED
    BY Zenon, <2>1, <2>2, <1>a DEF CommitsLast
<1>4. ASSUME NEW a \in Producers, commit_artifact_set(a) PROVE CommitsLast'
  <2>1. \A b \in Producers : committer'[b].at = "publishing" => committer'[b] = committer[b]
    BY Zenon, <1>4 DEF commit_artifact_set, ArtifactTypes, CallsTyped
  <2> QED
    BY Zenon, <2>1, <1>a DEF CommitsLast
<1>5. ASSUME NEW a \in Producers, LeaveCommit(a) PROVE CommitsLast'
  <2>1. \A b \in Producers : committer'[b].at = "publishing" => committer'[b] = committer[b]
    BY Zenon, <1>5 DEF LeaveCommit, ArtifactTypes, CallsTyped
  <2> QED
    BY Zenon, <2>1, <1>a DEF CommitsLast
<1>6. ASSUME NEW a \in Producers, NEW m \in Members, PublishMember(a, m) PROVE CommitsLast'
  <2>1. Lasting(DigestOf[m])'
    BY Zenon, <1>6 DEF PublishMember, LinkAndRemove, Lasting
  <2>2. \A b \in Producers : committer'[b].at = "publishing" /\ committer'[b].whole =>
           /\ committer[b].at = "publishing" /\ committer[b].whole
           /\ committer[b].todo \subseteq committer'[b].todo \cup {m}
    BY <1>6 DEF PublishMember, ArtifactTypes, CallsTyped
  <2> QED
    BY Zenon, <2>1, <2>2, <1>a DEF CommitsLast
<1>7. ASSUME NEW m \in Members,
             \/ stage(m) \/ RetryMember(m) \/ register(m) \/ LeaveStage(m)
      PROVE CommitsLast'
  BY Zenon, <1>1, <1>7 DEF stage, RetryMember, register, LeaveStage
<1>8. CASE PlainStep \/ ReaperStep \/ DeletionStep \/ Surroundings
  BY Zenon, <1>1, <1>8, PlainStepLeaves, ReaperStepLeaves, DeletionStepLeaves, SurroundingsLeave
<1>9. CASE UNCHANGED artifactVars
  BY Zenon, <1>1, <1>9 DEF artifactVars
<1> QED
  BY Zenon, <1>2, <1>3, <1>4, <1>5, <1>6, <1>7, <1>8, <1>9 DEF ArtifactsNext, SetStep

-----------------------------------------------------------------------------
(* A set and the rows of its members.  A member is registered once, before   *)
(* the set is available, and a set that was given up stays given up.         *)

MemberAgrees(m) == LET a == ProducerOf[m] IN
    /\ (objectRow[m] = "available") <=> (artifactSet[a] = "available")
    /\ artifactSet[a] = "available" => pendingToken[m] # 0
    /\ stager[m].at = "received" => pendingToken[m] = 0
    /\ pendingToken[m] # 0 => artifactSet[a] # "none"
    /\ pendingToken[m] # 0 /\ artifactSet[a] = "staging" => objectRow[m] = "pending"

SetsAgree ==
    /\ \A m \in Members : MemberAgrees(m)
    /\ \A a \in aborting : artifactSet[a] = "aborted"

(* No member of a set that begin_artifact_set opens was registered before. *)
LEMMA BegunSetIsEmpty ==
    ASSUME NEW a \in Producers, ArtifactTypes, SetsAgree, begin_artifact_set(a)
    PROVE  /\ \A m \in Members : pendingToken[m] # 0 => ProducerOf[m] # a
           /\ \A b \in Producers : b # a => artifactSet'[b] = artifactSet[b]
<1>1. artifactSet[a] = "none" /\ artifactSet' = [artifactSet EXCEPT ![a] = "staging"]
  BY Zenon DEF begin_artifact_set
<1>2. \A m \in Members : pendingToken[m] # 0 => artifactSet[ProducerOf[m]] # "none"
  <2> SUFFICES ASSUME NEW m \in Members PROVE pendingToken[m] # 0 => artifactSet[ProducerOf[m]] # "none"
    BY Zenon
  <2>1. MemberAgrees(m)
    BY Zenon DEF SetsAgree
  <2> QED
    BY Zenon, <2>1 DEF MemberAgrees
<1>3. \A m \in Members : pendingToken[m] # 0 => ProducerOf[m] # a
  BY Zenon, <1>1, <1>2
<1>4. \A b \in Producers : b # a => artifactSet'[b] = artifactSet[b]
  BY Zenon, <1>1 DEF ArtifactTypes, RowsTyped
<1> QED
  BY Zenon, <1>3, <1>4

(* Every step moves a set together with its members. *)
LEMMA SetsAgreeStep == ArtifactTypes /\ SetsAgree /\ [ArtifactsNext]_artifactVars => SetsAgree'
<1> SUFFICES ASSUME ArtifactTypes, SetsAgree, [ArtifactsNext]_artifactVars PROVE SetsAgree'
  BY Zenon
<1> USE DEF rowVars, callVars
<1>1. ASSUME UNCHANGED <<objectRow, artifactSet, pendingToken, stager, aborting>> PROVE SetsAgree'
  BY Zenon, <1>1 DEF SetsAgree, MemberAgrees
<1>a. ASSUME NEW sets, SetsAborted(sets), stager' = stager,
             \A b \in sets : artifactSet[b] \in {"staging", "aborted"}
      PROVE  \A m \in Members : MemberAgrees(m)'
  <2> SUFFICES ASSUME NEW m \in Members PROVE MemberAgrees(m)'
    BY Zenon
  <2>1. m \in Objects /\ ProducerOf[m] \in Producers
    BY Zenon, ArtifactsAssumption DEF Objects
  <2> QED
    BY <1>a, <2>1 DEF SetsAborted, SetsAgree, MemberAgrees
<1>b. \A c \in Callers : caller[c].at # "idle" => caller[c].token[1] \in Objects \ Members
  BY Zenon, ArtifactsAssumption DEF ArtifactTypes, CallsTyped, Objects
<1>2. ASSUME NEW a \in Producers,
             \/ artifact_set_members(a) \/ LeaveCommit(a) \/ LeaseChanges(a) \/ Cancel(a)
      PROVE SetsAgree'
  BY Zenon, <1>1, <1>2 DEF artifact_set_members, LeaveCommit, LeaseChanges, Cancel
<1>3. ASSUME NEW a \in Producers, begin_artifact_set(a) PROVE SetsAgree'
  BY <1>3 DEF begin_artifact_set, SetsAgree, MemberAgrees, ArtifactTypes, RowsTyped, CallsTyped
<1>4. ASSUME NEW a \in Producers, commit_artifact_set(a) PROVE SetsAgree'
  <2>1. \A m \in Members : MemberAgrees(m)'
    <3> SUFFICES ASSUME NEW m \in Members PROVE MemberAgrees(m)'
      BY Zenon
    <3>1. m \in Objects /\ ProducerOf[m] \in Producers /\ (m \in MembersOf(a) <=> ProducerOf[m] = a)
      BY Zenon, ArtifactsAssumption DEF Objects, MembersOf
    <3> QED
      BY <1>4, <3>1 DEF commit_artifact_set, SetsAgree, MemberAgrees, ArtifactTypes, RowsTyped
  <2>2. \A b \in aborting : artifactSet'[b] = "aborted"
    BY <1>4 DEF commit_artifact_set, SetsAgree, ArtifactTypes, RowsTyped, CallsTyped
  <2> QED
    BY Zenon, <1>4, <2>1, <2>2 DEF commit_artifact_set, SetsAgree
<1>5. ASSUME NEW a \in Producers, abort_artifact_set(a) PROVE SetsAgree'
  <2>1. \A m \in Members : MemberAgrees(m)'
    BY Zenon, <1>5, <1>a DEF abort_artifact_set
  <2> QED
    BY Zenon, <1>5, <2>1 DEF abort_artifact_set, SetsAborted, SetsAgree, ArtifactTypes, CallsTyped
<1>6. ASSUME NEW a \in Producers, RemoveAborted(a) PROVE SetsAgree'
  BY Zenon, <1>6 DEF RemoveAborted, SetsAgree, MemberAgrees
<1>7. ASSUME NEW a \in Producers, NEW m \in Members, PublishMember(a, m) PROVE SetsAgree'
  BY Zenon, <1>1, <1>7 DEF PublishMember
<1>8. ASSUME NEW m \in Members, stage(m) PROVE SetsAgree'
  <2>1. \A n \in Members : stager'[n].at = "received" => pendingToken[n] = 0
    BY <1>8 DEF stage, SetsAgree, MemberAgrees, ArtifactTypes, TokensTyped
  <2> QED
    BY Zenon, <1>8, <2>1 DEF stage, SetsAgree, MemberAgrees
<1>9. ASSUME NEW m \in Members, RetryMember(m) PROVE SetsAgree'
  BY <1>9 DEF RetryMember, NoCall, SetsAgree, MemberAgrees, ArtifactTypes, TokensTyped
<1>10. ASSUME NEW m \in Members, register(m) PROVE SetsAgree'
  <2>1. \A n \in Members \ {m} : MemberAgrees(n)'
    <3>1. \A n \in Members \ {m} : /\ objectRow'[n] = objectRow[n] /\ stager'[n] = stager[n]
                                  /\ pendingToken'[n] = pendingToken[n]
      BY ZenonT(60), <1>10 DEF register, ArtifactTypes, RowsTyped, TokensTyped, Objects
    <3> QED
      BY <1>10, <3>1 DEF register, SetsAgree, MemberAgrees
  <2>2. MemberAgrees(m)'
    <3>1. /\ objectRow'[m] = "pending" /\ stager'[m].at = "idle"
          /\ pendingToken'[m] = stager[m].token /\ stager[m].token # 0
      BY <1>10 DEF register, NoCall, ArtifactTypes, RowsTyped, TokensTyped, Objects
    <3> QED
      BY Zenon, <1>10, <3>1 DEF register, SetsAgree, MemberAgrees
  <2> QED
    BY Zenon, <1>10, <2>1, <2>2 DEF register, SetsAgree
<1>11. ASSUME NEW m \in Members, LeaveStage(m) PROVE SetsAgree'
  BY <1>11 DEF LeaveStage, NoCall, SetsAgree, MemberAgrees, ArtifactTypes, TokensTyped
<1>12. ASSUME NEW x \in Plains, stage_artifact(x) PROVE SetsAgree'
  BY Zenon, <1>1, <1>12 DEF stage_artifact
<1>13. ASSUME NEW c \in Callers,
              \/ abort_pending(c) \/ commit_pending(c) \/ LeaveCall(c)
       PROVE SetsAgree'
  BY Zenon, <1>1, <1>13 DEF abort_pending, commit_pending, LeaveCall
<1>14. ASSUME NEW c \in Callers, register_artifact(c) PROVE SetsAgree'
  <2>1. \/ objectRow' = objectRow
        \/ objectRow' = [objectRow EXCEPT ![caller[c].token[1]] = "pending"]
    BY Zenon, <1>14 DEF register_artifact
  <2>2. \A m \in Members : objectRow'[m] = objectRow[m]
    BY Zenon, <1>14, <2>1, <1>b DEF register_artifact, ArtifactTypes, RowsTyped, Objects
  <2> QED
    <3>1. UNCHANGED <<artifactSet, pendingToken, stager, aborting>>
      BY Zenon, <1>14 DEF register_artifact
    <3> QED
      BY <2>2, <3>1 DEF SetsAgree, MemberAgrees
<1>15. ASSUME NEW c \in Callers, mark_artifact_available(c) PROVE SetsAgree'
  <2>1. \A m \in Members : objectRow'[m] = objectRow[m]
    BY Zenon, <1>15, <1>b DEF mark_artifact_available, ArtifactTypes, RowsTyped, Objects
  <2> QED
    BY <1>15, <2>1 DEF mark_artifact_available, SetsAgree, MemberAgrees
<1>16. ASSUME NEW c \in Callers, NEW t \in Tokens, claim_pending(c, t) PROVE SetsAgree'
  BY Zenon, <1>1, <1>16 DEF claim_pending
<1>17. ASSUME NEW t \in Tokens, publication_claims_older_than(t) \/ Age(t) PROVE SetsAgree'
  BY Zenon, <1>1, <1>17 DEF publication_claims_older_than, Age
<1>18. ASSUME \/ artifact_publication_claim_active \/ release_publication_claim
              \/ reap_staged_older_than
       PROVE SetsAgree'
  BY Zenon, <1>1, <1>18 DEF artifact_publication_claim_active, release_publication_claim,
     reap_staged_older_than
<1>19. ASSUME expire_artifact_sets PROVE SetsAgree'
  <2> DEFINE sets == Stale(OrgOf[reaper.token[1]])
  <2>1. SetsAborted(sets) /\ stager' = stager /\ aborting' = aborting
    BY Zenon, <1>19 DEF expire_artifact_sets
  <2>2. \A b \in sets : b \in Producers /\ artifactSet[b] = "staging"
    BY Zenon DEF Stale
  <2> HIDE DEF sets
  <2>3. \A m \in Members : MemberAgrees(m)'
    BY Zenon, <2>1, <2>2, <1>a
  <2> QED
    BY Zenon, <2>1, <2>2, <2>3 DEF SetsAborted, SetsAgree, ArtifactTypes, CallsTyped
<1>20. CASE DeletionStep \/ Surroundings
  BY Zenon, <1>1, <1>20, DeletionStepLeaves, SurroundingsLeave
<1>21. CASE UNCHANGED artifactVars
  BY Zenon, <1>1, <1>21 DEF artifactVars
<1> QED
  BY Zenon, <1>2, <1>3, <1>4, <1>5, <1>6, <1>7, <1>8, <1>9, <1>10, <1>11, <1>12, <1>13, <1>14, <1>15,
     <1>16, <1>17, <1>18, <1>19, <1>20, <1>21 DEF ArtifactsNext, SetStep, PlainStep, ReaperStep

(* The invariant behind what is listed. *)
ListingInv == ArtifactTypes /\ DeletionInv /\ BytesKept /\ SetsAgree

(* Both together hold in every reachable state. *)
LEMMA ListingInvariant == ArtifactsSpec => []ListingInv
<1>1. ArtifactsInit => BytesKept
  BY DEF ArtifactsInit, BytesKept, RowsLast, CallsLast, CommitsLast
<1>2. ArtifactsInit => SetsAgree
  BY ArtifactsAssumption DEF ArtifactsInit, SetsAgree, MemberAgrees, NoCall, Objects
<1>3. ListingInv /\ [ArtifactsNext]_artifactVars => (BytesKept /\ SetsAgree)'
  BY Zenon, RowsLastStep, CallsLastStep, CommitsLastStep, SetsAgreeStep DEF ListingInv, BytesKept
<1> QED
  BY <1>1, <1>2, <1>3, DeletionInvariant, PTL DEF ArtifactsSpec, ListingInv

(* What is listed as available can be read until its deletion has begun, and *)
(* the members of a set become available all at once: whichever calls are    *)
(* dropped, repeated or overtaken between the publication of the bytes and   *)
(* that of the rows.                                                         *)
THEOREM ListedStaysReadable == ArtifactsSpec => []ListedIsReadable
<1>1. ListingInv => ListedIsReadable
  BY Zenon DEF ListingInv, ListedIsReadable, BytesKept, RowsLast, Lasting, SetsAgree, MemberAgrees
<1> QED
  BY <1>1, ListingInvariant, PTL

-----------------------------------------------------------------------------
(* The bytes of a registered member.  A token is used once; the file of a    *)
(* call in progress is claimed and young, so the reaper is not after it.     *)

UnusedTokens ==
    \A t \in Tokens : t[2] > uploads[t[1]] =>
        staging[t] = "none" /\ (reaper.at # "idle" => reaper.token # t)

ReceivedIsSafe ==
    \A m \in Members : stager[m].at = "received" =>
        LET t == <<m, stager[m].token>> IN
        staging[t] = "claimed" /\ t \notin aged /\ (reaper.at # "idle" => reaper.token # t)

(* A claim that the reaper is about to release protects no set that may      *)
(* still be committed.                                                       *)
ReaperCareful ==
    \A m \in Members : LET a == ProducerOf[m] IN
        reaper.at = "checked" /\ pendingToken[m] # 0 /\ reaper.token = <<m, pendingToken[m]>> =>
            artifactSet[a] # "staging" \/ ownership[a] \notin {"live", "expired"}

(* Every staged file is the work of a token that was handed out. *)
LEMMA UnusedTokensStep ==
    ArtifactTypes /\ UnusedTokens /\ [ArtifactsNext]_artifactVars => UnusedTokens'
<1> SUFFICES ASSUME ArtifactTypes, UnusedTokens, [ArtifactsNext]_artifactVars PROVE UnusedTokens'
  BY Zenon
<1> USE DEF fileVars, callVars
<1>1. ASSUME UNCHANGED <<uploads, staging, reaper>> PROVE UnusedTokens'
  BY Zenon, <1>1 DEF UnusedTokens
<1>a. ASSUME NEW x \in Objects, NEW name, uploads' = [uploads EXCEPT ![x] = uploads[x] + 1],
             staging' = [staging EXCEPT ![<<x, uploads[x] + 1>>] = name], reaper' = reaper
      PROVE  UnusedTokens'
  <2> SUFFICES ASSUME NEW t \in Tokens, t[2] > uploads'[t[1]]
               PROVE  staging'[t] = "none" /\ (reaper.at # "idle" => reaper.token # t)
    BY Zenon, <1>a DEF UnusedTokens
  <2>1. t[1] \in Objects /\ t[2] \in Nat
    BY TokenShape, ArtifactsAssumption
  <2>2. uploads \in [Objects -> Nat]
    BY Zenon DEF ArtifactTypes, TokensTyped
  <2>3. t # <<x, uploads[x] + 1>> /\ t[2] > uploads[t[1]]
    BY <1>a, <2>1, <2>2
  <2> QED
    BY Zenon, <1>a, <2>3 DEF UnusedTokens, ArtifactTypes, FilesTyped
<1>2. ASSUME NEW a \in Producers,
             \/ begin_artifact_set(a) \/ artifact_set_members(a) \/ commit_artifact_set(a)
             \/ abort_artifact_set(a) \/ LeaseChanges(a) \/ Cancel(a)
      PROVE UnusedTokens'
  BY Zenon, <1>1, <1>2 DEF begin_artifact_set, artifact_set_members, commit_artifact_set,
     abort_artifact_set, LeaseChanges, Cancel, SetsAborted
<1>3. ASSUME NEW a \in Producers, LeaveCommit(a) PROVE UnusedTokens'
  <2>1. \A u \in Tokens : staging[u] = "none" => staging'[u] = "none"
    BY Zenon, <1>3 DEF LeaveCommit, LinkOnly, ArtifactTypes, FilesTyped
  <2> QED
    BY Zenon, <1>3, <2>1 DEF LeaveCommit, UnusedTokens
<1>4. ASSUME NEW a \in Producers, RemoveAborted(a) PROVE UnusedTokens'
  <2>1. \A u \in Tokens : staging[u] = "none" => staging'[u] = "none"
    BY Zenon, <1>4 DEF RemoveAborted, RemoveFiles, ArtifactTypes, FilesTyped
  <2> QED
    BY Zenon, <1>4, <2>1 DEF RemoveAborted, UnusedTokens
<1>5. ASSUME NEW a \in Producers, NEW m \in Members, PublishMember(a, m) PROVE UnusedTokens'
  <2>1. \A u \in Tokens : staging[u] = "none" => staging'[u] = "none"
    BY Zenon, <1>5 DEF PublishMember, LinkAndRemove, RemoveFiles, ArtifactTypes, FilesTyped
  <2> QED
    BY Zenon, <1>5, <2>1 DEF PublishMember, UnusedTokens
<1>6. ASSUME NEW m \in Members, register(m) PROVE UnusedTokens'
  BY Zenon, <1>1, <1>6 DEF register
<1>7. ASSUME NEW m \in Members, stage(m) PROVE UnusedTokens'
  <2>1. CASE pendingToken[m] # 0
    BY Zenon, <1>1, <1>7, <2>1 DEF stage
  <2>2. CASE pendingToken[m] = 0
    <3> DEFINE n == uploads[m] + 1
    <3>1. /\ uploads' = [uploads EXCEPT ![m] = n] /\ staging' = [staging EXCEPT ![<<m, n>>] = "claimed"]
          /\ reaper' = reaper
      BY Zenon, <1>7, <2>2 DEF stage
    <3>2. m \in Objects
      BY Zenon DEF Objects
    <3> QED
      BY Zenon, <3>1, <3>2, <1>a
  <2> QED
    BY Zenon, <2>1, <2>2
<1>8. ASSUME NEW m \in Members, RetryMember(m) PROVE UnusedTokens'
  <2>1. \A u \in Tokens : staging[u] = "none" => staging'[u] = "none"
    BY Zenon, <1>8 DEF RetryMember, ClaimFile, ArtifactTypes, FilesTyped
  <2> QED
    BY Zenon, <1>8, <2>1 DEF RetryMember, UnusedTokens
<1>9. ASSUME NEW m \in Members, LeaveStage(m) PROVE UnusedTokens'
  <2>1. \A u \in Tokens : staging[u] = "none" => staging'[u] = "none"
    BY Zenon, <1>9 DEF LeaveStage, RemoveFiles, ArtifactTypes, FilesTyped
  <2> QED
    BY Zenon, <1>9, <2>1 DEF LeaveStage, UnusedTokens
<1>10. ASSUME NEW x \in Plains, stage_artifact(x) PROVE UnusedTokens'
  <2>1. x \in Objects
    BY Zenon DEF Objects
  <2> QED
    BY Zenon, <1>10, <2>1, <1>a DEF stage_artifact
<1>11. ASSUME NEW c \in Callers,
              \/ register_artifact(c) \/ mark_artifact_available(c)
       PROVE UnusedTokens'
  BY Zenon, <1>1, <1>11 DEF register_artifact, mark_artifact_available
<1>12. ASSUME NEW c \in Callers, abort_pending(c) PROVE UnusedTokens'
  <2>1. \A u \in Tokens : staging[u] = "none" => staging'[u] = "none"
    BY Zenon, <1>12 DEF abort_pending, RemoveFiles, ArtifactTypes, FilesTyped
  <2> QED
    BY Zenon, <1>12, <2>1 DEF abort_pending, UnusedTokens
<1>13. ASSUME NEW c \in Callers, commit_pending(c) PROVE UnusedTokens'
  <2>1. \A u \in Tokens : staging[u] = "none" => staging'[u] = "none"
    BY Zenon, <1>13 DEF commit_pending, LinkAndRemove, RemoveFiles, ArtifactTypes, FilesTyped
  <2> QED
    BY Zenon, <1>13, <2>1 DEF commit_pending, UnusedTokens
<1>14. ASSUME NEW c \in Callers, LeaveCall(c) PROVE UnusedTokens'
  <2>1. \A u \in Tokens : staging[u] = "none" => staging'[u] = "none"
    BY Zenon, <1>14 DEF LeaveCall, LinkOnly, ArtifactTypes, FilesTyped
  <2> QED
    BY Zenon, <1>14, <2>1 DEF LeaveCall, UnusedTokens
<1>15. ASSUME NEW c \in Callers, NEW t \in Tokens, claim_pending(c, t) PROVE UnusedTokens'
  <2>1. \A u \in Tokens : staging[u] = "none" => staging'[u] = "none"
    BY Zenon, <1>15 DEF claim_pending, ClaimFile, ArtifactTypes, FilesTyped
  <2> QED
    BY Zenon, <1>15, <2>1 DEF claim_pending, UnusedTokens
<1>16. ASSUME NEW t \in Tokens, publication_claims_older_than(t) PROVE UnusedTokens'
  BY Zenon, <1>16 DEF publication_claims_older_than, UnusedTokens
<1>17. ASSUME expire_artifact_sets PROVE UnusedTokens'
  BY Zenon, <1>17 DEF expire_artifact_sets, UnusedTokens, ArtifactTypes, CallsTyped
<1>18. ASSUME artifact_publication_claim_active PROVE UnusedTokens'
  BY Zenon, <1>18 DEF artifact_publication_claim_active, UnusedTokens, ArtifactTypes, CallsTyped
<1>19. ASSUME release_publication_claim PROVE UnusedTokens'
  <2>1. \A u \in Tokens : staging[u] = "none" => staging'[u] = "none"
    BY Zenon, <1>19 DEF release_publication_claim, ArtifactTypes, FilesTyped, CallsTyped
  <2> QED
    BY Zenon, <1>19, <2>1 DEF release_publication_claim, UnusedTokens
<1>20. ASSUME reap_staged_older_than PROVE UnusedTokens'
  <2>1. \A u \in Tokens : staging[u] = "none" => staging'[u] = "none"
    BY Zenon, <1>20 DEF reap_staged_older_than, RemoveFiles, ArtifactTypes, FilesTyped
  <2> QED
    BY Zenon, <1>20, <2>1 DEF reap_staged_older_than, UnusedTokens
<1>21. CASE DeletionStep \/ Surroundings
  BY Zenon, <1>1, <1>21, DeletionStepLeaves, SurroundingsLeave
<1>22. CASE UNCHANGED artifactVars
  BY Zenon, <1>1, <1>22 DEF artifactVars
<1> QED
  BY Zenon, <1>2, <1>3, <1>4, <1>5, <1>6, <1>7, <1>8, <1>9, <1>10, <1>11, <1>12, <1>13, <1>14, <1>15,
     <1>16, <1>17, <1>18, <1>19, <1>20, <1>21, <1>22 DEF ArtifactsNext, SetStep, PlainStep,
     ReaperStep

(* The token of a plain artifact is no member's. *)
LEMMA PlainTokensDiffer ==
    ASSUME ArtifactTypes, NEW c \in Callers, caller[c].at # "idle", NEW n \in Members, NEW k
    PROVE  <<n, k>> # caller[c].token
<1>1. caller[c].token[1] # n
  BY ZenonT(60), ArtifactsAssumption DEF ArtifactTypes, CallsTyped
<1> QED
  BY <1>1

(* While a call holds a received file, nothing claims, ages or lists it. *)
LEMMA ReceivedIsSafeStep ==
    ArtifactTypes /\ SetsAgree /\ UnusedTokens /\ ReceivedIsSafe /\ [ArtifactsNext]_artifactVars =>
        ReceivedIsSafe'
<1> SUFFICES ASSUME ArtifactTypes, SetsAgree, UnusedTokens, ReceivedIsSafe, [ArtifactsNext]_artifactVars
             PROVE  ReceivedIsSafe'
  BY Zenon
<1> USE DEF fileVars, callVars
<1>1. ASSUME UNCHANGED <<stager, staging, aged, reaper>> PROVE ReceivedIsSafe'
  BY Zenon, <1>1 DEF ReceivedIsSafe
<1>a. \A n \in Members : stager[n].at = "received" => <<n, stager[n].token>> \in Tokens
  BY Zenon, ReceivedIsToken DEF ArtifactTypes
<1>b. /\ \A c \in Callers, m \in Members : caller[c].at # "idle" => caller[c].token[1] # m
      /\ \A x \in Plains, m \in Members : x # m
  BY ArtifactsAssumption DEF ArtifactTypes, CallsTyped
<1>2. ASSUME NEW a \in Producers,
             \/ begin_artifact_set(a) \/ artifact_set_members(a) \/ commit_artifact_set(a)
             \/ abort_artifact_set(a) \/ LeaseChanges(a) \/ Cancel(a)
      PROVE ReceivedIsSafe'
  BY Zenon, <1>1, <1>2 DEF begin_artifact_set, artifact_set_members, commit_artifact_set,
     abort_artifact_set, LeaseChanges, Cancel, SetsAborted
<1>3. ASSUME NEW a \in Producers, LeaveCommit(a) PROVE ReceivedIsSafe'
  <2>1. \A n \in Members : stager[n].at = "received" =>
           /\ staging'[<<n, stager[n].token>>] = staging[<<n, stager[n].token>>]
           /\ <<n, stager[n].token>> \notin aged => <<n, stager[n].token>> \notin aged'
    BY Zenon, <1>3, <1>a DEF LeaveCommit, LinkOnly, ArtifactTypes, FilesTyped
  <2> QED
    BY Zenon, <1>3, <2>1 DEF LeaveCommit, ReceivedIsSafe
<1>4. ASSUME NEW a \in Producers, RemoveAborted(a) PROVE ReceivedIsSafe'
  <2>1. \A n \in Members : stager[n].at = "received" =>
           /\ staging'[<<n, stager[n].token>>] = staging[<<n, stager[n].token>>]
           /\ <<n, stager[n].token>> \notin aged => <<n, stager[n].token>> \notin aged'
    BY <1>4, <1>a DEF RemoveAborted, RemoveFiles, SetsAgree, MemberAgrees, ArtifactTypes, FilesTyped
  <2> QED
    BY Zenon, <1>4, <2>1 DEF RemoveAborted, ReceivedIsSafe
<1>5. ASSUME NEW a \in Producers, NEW m \in Members, PublishMember(a, m) PROVE ReceivedIsSafe'
  <2>1. \A n \in Members : stager[n].at = "received" =>
           /\ staging'[<<n, stager[n].token>>] = staging[<<n, stager[n].token>>]
           /\ <<n, stager[n].token>> \notin aged => <<n, stager[n].token>> \notin aged'
    BY <1>5, <1>a DEF PublishMember, LinkAndRemove, RemoveFiles, SetsAgree, MemberAgrees, CallsTyped, ArtifactTypes, FilesTyped
  <2> QED
    BY Zenon, <1>5, <2>1 DEF PublishMember, ReceivedIsSafe
<1>6. ASSUME NEW m \in Members, stage(m) PROVE ReceivedIsSafe'
  <2>1. CASE pendingToken[m] # 0
    <3>1. \A n \in Members : stager'[n].at = "received" => stager'[n] = stager[n]
      BY Zenon, <1>6, <2>1 DEF stage, ArtifactTypes, TokensTyped
    <3> QED
      BY <1>6, <2>1, <3>1 DEF stage, ReceivedIsSafe
  <2>2. CASE pendingToken[m] = 0
    <3> DEFINE k == uploads[m] + 1
    <3>1. /\ stager' = [stager EXCEPT ![m] = [at |-> "received", token |-> k]]
          /\ staging' = [staging EXCEPT ![<<m, k>>] = "claimed"]
          /\ UNCHANGED <<aged, reaper>> /\ stager[m].at = "idle" /\ k <= MaxUploads[m]
      BY Zenon, <1>6, <2>2 DEF stage
    <3>2. m \in Objects /\ k \in 1 .. MaxUploads[m] /\ k > uploads[m]
      BY <3>1, ArtifactsAssumption DEF ArtifactTypes, TokensTyped, Objects
    <3>3. <<m, k>> \in Tokens
      BY Zenon, <3>2, TokenOf
    <3>4. <<m, k>> \notin aged /\ (reaper.at # "idle" => reaper.token # <<m, k>>)
      BY Zenon, <3>2, <3>3 DEF UnusedTokens, ArtifactTypes, FilesTyped
    <3> HIDE DEF k
    <3>5. \A n \in Members \ {m} : stager'[n] = stager[n]
      BY Zenon, <3>1 DEF ArtifactTypes, TokensTyped
    <3>6. stager'[m].at = "received" /\ stager'[m].token = k
      BY Zenon, <3>1 DEF ArtifactTypes, TokensTyped
    <3>7. \A u \in Tokens \ {<<m, k>>} : staging'[u] = staging[u]
      BY Zenon, <3>1 DEF ArtifactTypes, FilesTyped
    <3>8. staging'[<<m, k>>] = "claimed"
      BY Zenon, <3>1, <3>3 DEF ArtifactTypes, FilesTyped
    <3> QED
      BY <3>1, <3>4, <3>5, <3>6, <3>7, <3>8, <1>a DEF ReceivedIsSafe
  <2> QED
    BY Zenon, <2>1, <2>2
<1>7. ASSUME NEW m \in Members, RetryMember(m) PROVE ReceivedIsSafe'
  <2>1. \A n \in Members : stager'[n].at = "received" => n # m /\ stager'[n] = stager[n]
    BY Zenon, <1>7 DEF RetryMember, NoCall, ArtifactTypes, TokensTyped
  <2>2. \A n \in Members \ {m} : stager[n].at = "received" =>
           /\ staging'[<<n, stager[n].token>>] = staging[<<n, stager[n].token>>]
           /\ <<n, stager[n].token>> \notin aged => <<n, stager[n].token>> \notin aged'
    BY ZenonT(60), <1>7, <1>a DEF RetryMember, ClaimFile, ArtifactTypes, FilesTyped
  <2> QED
    BY <1>7, <2>1, <2>2 DEF RetryMember, ReceivedIsSafe
<1>8. ASSUME NEW m \in Members, register(m) PROVE ReceivedIsSafe'
  <2>1. \A n \in Members : stager'[n].at = "received" => stager'[n] = stager[n]
    BY ZenonT(60), <1>8 DEF register, NoCall, ArtifactTypes, TokensTyped
  <2> QED
    BY <1>8, <2>1 DEF register, ReceivedIsSafe
<1>9. ASSUME NEW m \in Members, LeaveStage(m) PROVE ReceivedIsSafe'
  <2>1. \A n \in Members : stager'[n].at = "received" => n # m /\ stager'[n] = stager[n]
    BY Zenon, <1>9 DEF LeaveStage, NoCall, ArtifactTypes, TokensTyped
  <2>2. \A n \in Members \ {m} : stager[n].at = "received" =>
           /\ staging'[<<n, stager[n].token>>] = staging[<<n, stager[n].token>>]
           /\ <<n, stager[n].token>> \notin aged => <<n, stager[n].token>> \notin aged'
    BY Zenon, <1>9, <1>a DEF LeaveStage, RemoveFiles
  <2> QED
    BY <1>9, <2>1, <2>2 DEF LeaveStage, ReceivedIsSafe
<1>10. ASSUME NEW x \in Plains, stage_artifact(x) PROVE ReceivedIsSafe'
  <2>1. \A n \in Members : stager[n].at = "received" =>
           /\ staging'[<<n, stager[n].token>>] = staging[<<n, stager[n].token>>]
           /\ <<n, stager[n].token>> \notin aged => <<n, stager[n].token>> \notin aged'
    BY Zenon, <1>10, <1>a, <1>b DEF stage_artifact, ArtifactTypes, FilesTyped
  <2> QED
    BY Zenon, <1>10, <2>1 DEF stage_artifact, ReceivedIsSafe
<1>11. ASSUME NEW c \in Callers,
              \/ register_artifact(c) \/ mark_artifact_available(c)
       PROVE ReceivedIsSafe'
  BY Zenon, <1>1, <1>11 DEF register_artifact, mark_artifact_available
<1>12. ASSUME NEW c \in Callers, abort_pending(c) PROVE ReceivedIsSafe'
  <2>1. \A n \in Members : stager[n].at = "received" =>
           /\ staging'[<<n, stager[n].token>>] = staging[<<n, stager[n].token>>]
           /\ <<n, stager[n].token>> \notin aged => <<n, stager[n].token>> \notin aged'
    BY Zenon, <1>12, <1>a, PlainTokensDiffer DEF abort_pending, RemoveFiles
  <2> QED
    BY Zenon, <1>12, <2>1 DEF abort_pending, ReceivedIsSafe
<1>13. ASSUME NEW c \in Callers, commit_pending(c) PROVE ReceivedIsSafe'
  <2>1. \A n \in Members : stager[n].at = "received" =>
           /\ staging'[<<n, stager[n].token>>] = staging[<<n, stager[n].token>>]
           /\ <<n, stager[n].token>> \notin aged => <<n, stager[n].token>> \notin aged'
    <3>1. caller[c].at # "idle" /\ (UNCHANGED <<staging, aged>> \/ RemoveFiles({caller[c].token}))
      BY Zenon, <1>13 DEF commit_pending, LinkAndRemove
    <3> QED
      BY ZenonT(60), <3>1, <1>a, PlainTokensDiffer DEF RemoveFiles
  <2> QED
    BY Zenon, <1>13, <2>1 DEF commit_pending, ReceivedIsSafe
<1>14. ASSUME NEW c \in Callers, LeaveCall(c) PROVE ReceivedIsSafe'
  <2>1. \A n \in Members : stager[n].at = "received" =>
           /\ staging'[<<n, stager[n].token>>] = staging[<<n, stager[n].token>>]
           /\ <<n, stager[n].token>> \notin aged => <<n, stager[n].token>> \notin aged'
    BY Zenon, <1>14, <1>a DEF LeaveCall, LinkOnly, ArtifactTypes, FilesTyped
  <2> QED
    BY Zenon, <1>14, <2>1 DEF LeaveCall, ReceivedIsSafe
<1>15. ASSUME NEW c \in Callers, NEW t \in Tokens, claim_pending(c, t) PROVE ReceivedIsSafe'
  <2>1. \A n \in Members : stager[n].at = "received" =>
           /\ staging'[<<n, stager[n].token>>] = staging[<<n, stager[n].token>>]
           /\ <<n, stager[n].token>> \notin aged => <<n, stager[n].token>> \notin aged'
    <3>1. t[1] \in Plains /\ ClaimFile(t)
      BY Zenon, <1>15 DEF claim_pending
    <3>2. \A u \in Tokens : u # t => staging'[u] = staging[u] /\ (u \notin aged => u \notin aged')
      BY Zenon, <3>1 DEF ClaimFile, ArtifactTypes, FilesTyped
    <3>3. \A n \in Members : \A k : <<n, k>> # t
      BY <3>1, <1>b
    <3> QED
      BY Zenon, <3>2, <3>3, <1>a
  <2> QED
    BY Zenon, <1>15, <2>1 DEF claim_pending, ReceivedIsSafe
<1>16. ASSUME NEW t \in Tokens, publication_claims_older_than(t) PROVE ReceivedIsSafe'
  BY Zenon, <1>16 DEF publication_claims_older_than, ReceivedIsSafe
<1>17. ASSUME NEW t \in Tokens, Age(t) PROVE ReceivedIsSafe'
  BY Zenon, <1>17 DEF Age, InHand, ReceivedIsSafe
<1>18. ASSUME expire_artifact_sets PROVE ReceivedIsSafe'
  BY Zenon, <1>18 DEF expire_artifact_sets, ReceivedIsSafe, ArtifactTypes, CallsTyped
<1>19. ASSUME artifact_publication_claim_active PROVE ReceivedIsSafe'
  BY Zenon, <1>19 DEF artifact_publication_claim_active, ReceivedIsSafe, ArtifactTypes, CallsTyped
<1>20. ASSUME release_publication_claim PROVE ReceivedIsSafe'
  <2>1. \A n \in Members : stager[n].at = "received" =>
           staging'[<<n, stager[n].token>>] = staging[<<n, stager[n].token>>]
    BY Zenon, <1>20, <1>a DEF release_publication_claim, ReceivedIsSafe, ArtifactTypes, FilesTyped
  <2> QED
    BY Zenon, <1>20, <2>1 DEF release_publication_claim, ReceivedIsSafe
<1>21. ASSUME reap_staged_older_than PROVE ReceivedIsSafe'
  <2>1. \A n \in Members : stager[n].at = "received" =>
           /\ staging'[<<n, stager[n].token>>] = staging[<<n, stager[n].token>>]
           /\ <<n, stager[n].token>> \notin aged'
    BY Zenon, <1>21, <1>a DEF reap_staged_older_than, RemoveFiles, ReceivedIsSafe
  <2> QED
    BY Zenon, <1>21, <2>1 DEF reap_staged_older_than, ReceivedIsSafe
<1>22. ASSUME NEW org \in Organizations, NEW d \in Digests,
              \/ retain_object_for(org, d) \/ acquire_legal_hold(org, d)
              \/ release_legal_hold(org, d) \/ RetentionEnds(org, d)
       PROVE ReceivedIsSafe'
  BY Zenon, <1>1, <1>22 DEF retain_object_for, acquire_legal_hold, release_legal_hold, RetentionEnds
<1>23. CASE DeletionStep
  BY Zenon, <1>1, <1>23, DeletionStepLeaves
<1>24. CASE UNCHANGED artifactVars
  BY Zenon, <1>1, <1>24 DEF artifactVars
<1> QED
  BY Zenon, <1>2, <1>3, <1>4, <1>5, <1>6, <1>7, <1>8, <1>9, <1>10, <1>11, <1>12, <1>13, <1>14, <1>15,
     <1>16, <1>17, <1>18, <1>19, <1>20, <1>21, <1>22, <1>23, <1>24 DEF ArtifactsNext, SetStep,
     PlainStep, ReaperStep, Surroundings

(* The reaper releases a claim only after the check that no open set needs   *)
(* it.                                                                       *)
LEMMA ReaperCarefulStep ==
    ArtifactTypes /\ SetsAgree /\ ReceivedIsSafe /\ ReaperCareful /\ [ArtifactsNext]_artifactVars =>
        ReaperCareful'
<1> SUFFICES ASSUME ArtifactTypes, SetsAgree, ReceivedIsSafe, ReaperCareful, [ArtifactsNext]_artifactVars
             PROVE  ReaperCareful'
  BY Zenon
<1> USE DEF rowVars, callVars
<1>1. ASSUME UNCHANGED <<reaper, pendingToken, artifactSet, ownership>> PROVE ReaperCareful'
  BY Zenon, <1>1 DEF ReaperCareful
<1>a. \A n \in Members : ProducerOf[n] \in Producers
  BY Zenon, ArtifactsAssumption DEF Objects
<1>2. ASSUME NEW a \in Producers,
             \/ artifact_set_members(a) \/ LeaveCommit(a) \/ RemoveAborted(a) \/ Cancel(a)
      PROVE ReaperCareful'
  BY ZenonT(60), <1>1, <1>2 DEF artifact_set_members, LeaveCommit, RemoveAborted, Cancel
<1>3. ASSUME NEW a \in Producers, begin_artifact_set(a) PROVE ReaperCareful'
  <2>1. /\ \A m \in Members : pendingToken[m] # 0 => ProducerOf[m] # a
        /\ \A b \in Producers : b # a => artifactSet'[b] = artifactSet[b]
    BY Zenon, <1>3, BegunSetIsEmpty
  <2>2. UNCHANGED <<reaper, pendingToken, ownership>>
    BY Zenon, <1>3 DEF begin_artifact_set
  <2> QED
    BY Zenon, <2>1, <2>2, <1>a DEF ReaperCareful
<1>4. ASSUME NEW a \in Producers, commit_artifact_set(a) PROVE ReaperCareful'
  <2>1. \A b \in Producers : artifactSet'[b] = "staging" => artifactSet[b] = "staging"
    BY Zenon, <1>4 DEF commit_artifact_set, ArtifactTypes, RowsTyped
  <2> QED
    BY Zenon, <1>4, <2>1, <1>a DEF commit_artifact_set, ReaperCareful
<1>5. ASSUME NEW a \in Producers, abort_artifact_set(a) PROVE ReaperCareful'
  <2>1. \A b \in Producers : artifactSet'[b] = "staging" => artifactSet[b] = "staging"
    BY Zenon, <1>5 DEF abort_artifact_set, SetsAborted
  <2> QED
    BY Zenon, <1>5, <2>1, <1>a DEF abort_artifact_set, SetsAborted, ReaperCareful
<1>6. ASSUME NEW a \in Producers, LeaseChanges(a) PROVE ReaperCareful'
  <2>1. \A b \in Producers : ownership'[b] \in {"live", "expired"} => ownership[b] \in {"live", "expired"}
    BY Zenon, <1>6 DEF LeaseChanges, ArtifactTypes, RowsTyped
  <2> QED
    BY Zenon, <1>6, <2>1, <1>a DEF LeaseChanges, ReaperCareful
<1>7. ASSUME NEW a \in Producers, NEW m \in Members, PublishMember(a, m) PROVE ReaperCareful'
  BY Zenon, <1>1, <1>7 DEF PublishMember
<1>8. ASSUME NEW m \in Members, stage(m) \/ RetryMember(m) \/ LeaveStage(m) PROVE ReaperCareful'
  BY ZenonT(60), <1>1, <1>8 DEF stage, RetryMember, LeaveStage
<1>9. ASSUME NEW m \in Members, register(m) PROVE ReaperCareful'
  <2>1. reaper.at # "idle" => reaper.token # <<m, stager[m].token>>
    BY Zenon, <1>9 DEF register, ReceivedIsSafe
  <2>2. pendingToken'[m] = stager[m].token /\ \A n \in Members \ {m} : pendingToken'[n] = pendingToken[n]
    BY Zenon, <1>9 DEF register, ArtifactTypes, TokensTyped
  <2> QED
    BY ZenonT(60), <1>9, <2>1, <2>2 DEF register, ReaperCareful
<1>10. ASSUME NEW t \in Tokens, Age(t) PROVE ReaperCareful'
  BY Zenon, <1>1, <1>10 DEF Age
<1>11. ASSUME NEW t \in Tokens, publication_claims_older_than(t) PROVE ReaperCareful'
  BY Zenon, <1>11 DEF publication_claims_older_than, ReaperCareful
<1>12. ASSUME reap_staged_older_than PROVE ReaperCareful'
  BY Zenon, <1>1, <1>12 DEF reap_staged_older_than
<1>13. ASSUME expire_artifact_sets PROVE ReaperCareful'
  BY Zenon, <1>13 DEF expire_artifact_sets, ReaperCareful, ArtifactTypes, CallsTyped
<1>14. ASSUME artifact_publication_claim_active PROVE ReaperCareful'
  <2>1. SUFFICES ASSUME NEW m \in Members, reaper'.at = "checked", pendingToken[m] # 0,
                        reaper'.token = <<m, pendingToken[m]>>,
                        artifactSet[ProducerOf[m]] = "staging"
                 PROVE  ownership[ProducerOf[m]] \notin {"live", "expired"}
    BY Zenon, <1>14 DEF artifact_publication_claim_active, ReaperCareful
  <2>2. reaper.token = <<m, pendingToken[m]>> /\ ~Publishing(OrgOf[m], DigestOf[m])
    BY <1>14, <2>1 DEF artifact_publication_claim_active, ArtifactTypes, CallsTyped
  <2>3. objectRow[m] = "pending" /\ m \in Objects
    BY Zenon, <2>1 DEF SetsAgree, MemberAgrees, Objects
  <2> QED
    BY Zenon, <2>2, <2>3 DEF Publishing
<1>15. ASSUME release_publication_claim PROVE ReaperCareful'
  BY Zenon, <1>15 DEF release_publication_claim, ReaperCareful
<1>16. ASSUME NEW org \in Organizations, NEW d \in Digests,
              \/ retain_object_for(org, d) \/ acquire_legal_hold(org, d)
              \/ release_legal_hold(org, d) \/ RetentionEnds(org, d)
       PROVE ReaperCareful'
  BY Zenon, <1>1, <1>16 DEF retain_object_for, acquire_legal_hold, release_legal_hold, RetentionEnds
<1>17. CASE PlainStep \/ DeletionStep
  BY Zenon, <1>1, <1>17, PlainStepLeaves, DeletionStepLeaves
<1>18. CASE UNCHANGED artifactVars
  BY Zenon, <1>1, <1>18 DEF artifactVars
<1> QED
  BY Zenon, <1>2, <1>3, <1>4, <1>5, <1>6, <1>7, <1>8, <1>9, <1>10, <1>11, <1>12, <1>13, <1>14, <1>15,
     <1>16, <1>17, <1>18 DEF ArtifactsNext, SetStep, ReaperStep, Surroundings

Reserved(m) ==
    /\ pendingToken[m] # 0 /\ artifactSet[ProducerOf[m]] = "staging"
    /\ ownership[ProducerOf[m]] \in {"live", "expired"}

(* Neither the reaper, nor an abort, nor a deletion takes the bytes of a     *)
(* member whose set may still be committed.                                  *)
LEMMA ReservedBytesStep ==
    ArtifactTypes /\ SetsAgree /\ ReceivedIsSafe /\ ReaperCareful /\ DeletionInv /\ ReservedBytesSurvive /\ [ArtifactsNext]_artifactVars =>
        ReservedBytesSurvive'
<1> SUFFICES ASSUME ArtifactTypes, SetsAgree, ReceivedIsSafe, ReaperCareful, DeletionInv, ReservedBytesSurvive, [ArtifactsNext]_artifactVars
             PROVE  ReservedBytesSurvive'
  BY Zenon
<1> USE DEF rowVars, fileVars
<1>1. ASSUME UNCHANGED <<pendingToken, artifactSet, ownership, staging, content>> PROVE ReservedBytesSurvive'
  BY Zenon, <1>1 DEF ReservedBytesSurvive
<1>a. \A n \in Members : pendingToken[n] # 0 => <<n, pendingToken[n]>> \in Tokens
  BY Zenon, PendingIsToken DEF ArtifactTypes
<1>b. \A n \in Members : ProducerOf[n] \in Producers
  BY Zenon, ArtifactsAssumption DEF Objects
<1>c. /\ \A c \in Callers, m \in Members : caller[c].at # "idle" => caller[c].token[1] # m
      /\ \A x \in Plains, m \in Members : x # m
  BY ZenonT(60), ArtifactsAssumption DEF ArtifactTypes, CallsTyped
<1>2. ASSUME NEW a \in Producers,
             \/ artifact_set_members(a) \/ Cancel(a)
      PROVE ReservedBytesSurvive'
  BY Zenon, <1>1, <1>2 DEF artifact_set_members, Cancel
<1>3. ASSUME NEW a \in Producers, begin_artifact_set(a) PROVE ReservedBytesSurvive'
  <2>1. /\ \A m \in Members : pendingToken[m] # 0 => ProducerOf[m] # a
        /\ \A b \in Producers : b # a => artifactSet'[b] = artifactSet[b]
    BY Zenon, <1>3, BegunSetIsEmpty
  <2>2. UNCHANGED <<pendingToken, ownership, staging, content>>
    BY Zenon, <1>3 DEF begin_artifact_set
  <2> QED
    BY Zenon, <2>1, <2>2, <1>b DEF ReservedBytesSurvive
<1>4. ASSUME NEW a \in Producers, commit_artifact_set(a) PROVE ReservedBytesSurvive'
  <2>1. \A b \in Producers : artifactSet'[b] = "staging" => artifactSet[b] = "staging"
    BY Zenon, <1>4 DEF commit_artifact_set, ArtifactTypes, RowsTyped
  <2> QED
    BY Zenon, <1>4, <2>1, <1>b DEF commit_artifact_set, ReservedBytesSurvive
<1>5. ASSUME NEW a \in Producers, LeaveCommit(a) PROVE ReservedBytesSurvive'
  <2>1. \A n \in Members : Reserved(n) /\ staging[<<n, pendingToken[n]>>] = "claimed" =>
           staging'[<<n, pendingToken[n]>>] = "claimed"
    BY Zenon, <1>5, <1>a DEF LeaveCommit, LinkOnly, Reserved, ArtifactTypes, FilesTyped
  <2>2. content \subseteq content'
    BY Zenon, <1>5 DEF LeaveCommit, LinkOnly
  <2> QED
    BY Zenon, <1>5, <2>1, <2>2 DEF LeaveCommit, Reserved, ReservedBytesSurvive
<1>6. ASSUME NEW a \in Producers, abort_artifact_set(a) PROVE ReservedBytesSurvive'
  <2>1. \A b \in Producers : artifactSet'[b] = "staging" => artifactSet[b] = "staging"
    BY Zenon, <1>6 DEF abort_artifact_set, SetsAborted
  <2> QED
    BY Zenon, <1>6, <2>1, <1>b DEF abort_artifact_set, SetsAborted, ReservedBytesSurvive
<1>7. ASSUME NEW a \in Producers, RemoveAborted(a) PROVE ReservedBytesSurvive'
  <2>1. \A n \in Members : Reserved(n) => staging'[<<n, pendingToken[n]>>] = staging[<<n, pendingToken[n]>>]
    <3>1. PICK gone \in SUBSET {m \in MembersOf(a) : pendingToken[m] # 0} :
             RemoveFiles({<<m, pendingToken[m]>> : m \in gone})
      BY Zenon, <1>7 DEF RemoveAborted
    <3>2. \A n \in Members : Reserved(n) => n \notin gone
      BY Zenon, <1>7, <3>1 DEF RemoveAborted, MembersOf, Reserved, SetsAgree
    <3>3. \A n \in Members : n \notin gone => <<n, pendingToken[n]>> \notin {<<m, pendingToken[m]>> : m \in gone}
      BY Zenon
    <3> QED
      BY Zenon, <1>a, <3>1, <3>2, <3>3 DEF RemoveFiles, Reserved
  <2> QED
    BY ZenonT(60), <1>7, <2>1 DEF RemoveAborted, Reserved, ReservedBytesSurvive
<1>8. ASSUME NEW a \in Producers, LeaseChanges(a) PROVE ReservedBytesSurvive'
  <2>1. \A b \in Producers : ownership'[b] \in {"live", "expired"} => ownership[b] \in {"live", "expired"}
    BY Zenon, <1>8 DEF LeaseChanges, ArtifactTypes, RowsTyped
  <2> QED
    BY Zenon, <1>8, <2>1, <1>b DEF LeaseChanges, ReservedBytesSurvive
<1>9. ASSUME NEW a \in Producers, NEW m \in Members, PublishMember(a, m) PROVE ReservedBytesSurvive'
  <2>1. \A n \in Members \ {m} : Reserved(n) => staging'[<<n, pendingToken[n]>>] = staging[<<n, pendingToken[n]>>]
    BY Zenon, <1>9, <1>a DEF PublishMember, LinkAndRemove, RemoveFiles, Reserved
  <2>2. content' = content \cup {DigestOf[m]}
    BY Zenon, <1>9 DEF PublishMember, LinkAndRemove
  <2> QED
    BY Zenon, <1>9, <2>1, <2>2 DEF PublishMember, Reserved, ReservedBytesSurvive
<1>10. ASSUME NEW m \in Members, stage(m) PROVE ReservedBytesSurvive'
  <2>1. \A n \in Members : Reserved(n) /\ staging[<<n, pendingToken[n]>>] = "claimed" =>
           staging'[<<n, pendingToken[n]>>] = "claimed"
    <3>1. CASE pendingToken[m] # 0
      BY Zenon, <1>10, <3>1 DEF stage
    <3>2. CASE pendingToken[m] = 0
      <4>1. staging' = [staging EXCEPT ![<<m, uploads[m] + 1>>] = "claimed"]
        BY Zenon, <1>10, <3>2 DEF stage
      <4> QED
        BY Zenon, <4>1, <1>a DEF Reserved, ArtifactTypes, FilesTyped
    <3> QED
      BY Zenon, <3>1, <3>2
  <2> QED
    BY Zenon, <1>10, <2>1 DEF stage, Reserved, ReservedBytesSurvive
<1>11. ASSUME NEW m \in Members, RetryMember(m) PROVE ReservedBytesSurvive'
  <2>1. \A n \in Members : Reserved(n) /\ staging[<<n, pendingToken[n]>>] = "claimed" =>
           staging'[<<n, pendingToken[n]>>] = "claimed"
    BY Zenon, <1>11, <1>a DEF RetryMember, ClaimFile, Reserved, ArtifactTypes, FilesTyped
  <2>2. content \subseteq content'
    BY Zenon, <1>11 DEF RetryMember
  <2> QED
    BY Zenon, <1>11, <2>1, <2>2 DEF RetryMember, Reserved, ReservedBytesSurvive
<1>12. ASSUME NEW m \in Members, register(m) PROVE ReservedBytesSurvive'
  <2>1. pendingToken'[m] = stager[m].token /\ \A n \in Members \ {m} : pendingToken'[n] = pendingToken[n]
    BY Zenon, <1>12 DEF register, ArtifactTypes, TokensTyped
  <2>2. staging[<<m, stager[m].token>>] = "claimed"
    BY Zenon, <1>12 DEF register, ReceivedIsSafe
  <2> QED
    BY Zenon, <1>12, <2>1, <2>2 DEF register, ReservedBytesSurvive
<1>13. ASSUME NEW m \in Members, LeaveStage(m) PROVE ReservedBytesSurvive'
  <2>1. \A n \in Members : Reserved(n) => staging'[<<n, pendingToken[n]>>] = staging[<<n, pendingToken[n]>>]
    <3>1. CASE UNCHANGED staging
      BY Zenon, <3>1
    <3>2. CASE stager[m].at = "received" /\ RemoveFiles({<<m, stager[m].token>>})
      <4>1. ~Reserved(m)
        BY Zenon, <3>2 DEF Reserved, SetsAgree, MemberAgrees
      <4>2. \A n \in Members : n # m => <<n, pendingToken[n]>> \notin {<<m, stager[m].token>>}
        OBVIOUS
      <4>3. \A t \in Tokens : t \notin {<<m, stager[m].token>>} => staging'[t] = staging[t]
        BY Zenon, <3>2 DEF RemoveFiles
      <4> QED
        BY Zenon, <4>1, <4>2, <4>3, <1>a DEF Reserved
    <3> QED
      BY Zenon, <1>13, <3>1, <3>2 DEF LeaveStage
  <2> QED
    BY Zenon, <1>13, <2>1 DEF LeaveStage, Reserved, ReservedBytesSurvive
<1>14. ASSUME NEW x \in Plains, stage_artifact(x) PROVE ReservedBytesSurvive'
  <2>1. \A n \in Members : Reserved(n) /\ staging[<<n, pendingToken[n]>>] = "claimed" =>
           staging'[<<n, pendingToken[n]>>] = "claimed"
    BY Zenon, <1>14, <1>a, <1>c DEF stage_artifact, Reserved, ArtifactTypes, FilesTyped
  <2>2. content \subseteq content'
    BY Zenon, <1>14 DEF stage_artifact
  <2> QED
    BY Zenon, <1>14, <2>1, <2>2 DEF stage_artifact, Reserved, ReservedBytesSurvive
<1>15. ASSUME NEW c \in Callers,
              \/ register_artifact(c) \/ mark_artifact_available(c)
       PROVE ReservedBytesSurvive'
  BY Zenon, <1>1, <1>15 DEF register_artifact, mark_artifact_available
<1>16. ASSUME NEW c \in Callers, abort_pending(c) PROVE ReservedBytesSurvive'
  <2>1. \A n \in Members : Reserved(n) /\ staging[<<n, pendingToken[n]>>] = "claimed" =>
           staging'[<<n, pendingToken[n]>>] = "claimed"
    BY Zenon, <1>16, <1>a, PlainTokensDiffer DEF abort_pending, RemoveFiles, Reserved
  <2>2. content \subseteq content'
    BY Zenon, <1>16 DEF abort_pending
  <2> QED
    BY Zenon, <1>16, <2>1, <2>2 DEF abort_pending, Reserved, ReservedBytesSurvive
<1>17. ASSUME NEW c \in Callers, commit_pending(c) PROVE ReservedBytesSurvive'
  <2>1. \A n \in Members : Reserved(n) /\ staging[<<n, pendingToken[n]>>] = "claimed" =>
           staging'[<<n, pendingToken[n]>>] = "claimed"
    <3>1. caller[c].at # "idle" /\ (UNCHANGED staging \/ RemoveFiles({caller[c].token}))
      BY Zenon, <1>17 DEF commit_pending, LinkAndRemove
    <3> QED
      BY ZenonT(60), <3>1, <1>a, PlainTokensDiffer DEF RemoveFiles, Reserved
  <2>2. content \subseteq content'
    BY Zenon, <1>17 DEF commit_pending, LinkAndRemove
  <2> QED
    BY Zenon, <1>17, <2>1, <2>2 DEF commit_pending, Reserved, ReservedBytesSurvive
<1>18. ASSUME NEW c \in Callers, LeaveCall(c) PROVE ReservedBytesSurvive'
  <2>1. \A n \in Members : Reserved(n) /\ staging[<<n, pendingToken[n]>>] = "claimed" =>
           staging'[<<n, pendingToken[n]>>] = "claimed"
    BY Zenon, <1>18, <1>a DEF LeaveCall, LinkOnly, Reserved, ArtifactTypes, FilesTyped
  <2>2. content \subseteq content'
    BY Zenon, <1>18 DEF LeaveCall, LinkOnly
  <2> QED
    BY Zenon, <1>18, <2>1, <2>2 DEF LeaveCall, Reserved, ReservedBytesSurvive
<1>19. ASSUME NEW c \in Callers, NEW t \in Tokens, claim_pending(c, t) PROVE ReservedBytesSurvive'
  <2>1. \A n \in Members : Reserved(n) /\ staging[<<n, pendingToken[n]>>] = "claimed" =>
           staging'[<<n, pendingToken[n]>>] = "claimed"
    BY Zenon, <1>19, <1>a DEF claim_pending, ClaimFile, Reserved, ArtifactTypes, FilesTyped
  <2>2. content \subseteq content'
    BY Zenon, <1>19 DEF claim_pending
  <2> QED
    BY Zenon, <1>19, <2>1, <2>2 DEF claim_pending, Reserved, ReservedBytesSurvive
<1>20. ASSUME NEW t \in Tokens,
              \/ publication_claims_older_than(t) \/ Age(t)
       PROVE ReservedBytesSurvive'
  BY Zenon, <1>1, <1>20 DEF publication_claims_older_than, Age
<1>21. ASSUME artifact_publication_claim_active PROVE ReservedBytesSurvive'
  BY Zenon, <1>1, <1>21 DEF artifact_publication_claim_active
<1>22. ASSUME expire_artifact_sets PROVE ReservedBytesSurvive'
  <2>1. \A b \in Producers : artifactSet'[b] = "staging" => artifactSet[b] = "staging"
    BY Zenon, <1>22 DEF expire_artifact_sets, SetsAborted
  <2> QED
    BY Zenon, <1>22, <2>1, <1>b DEF expire_artifact_sets, SetsAborted, ReservedBytesSurvive
<1>23. ASSUME release_publication_claim PROVE ReservedBytesSurvive'
  <2>1. \A n \in Members : Reserved(n) => staging'[<<n, pendingToken[n]>>] = staging[<<n, pendingToken[n]>>]
    BY Zenon, <1>23, <1>a DEF release_publication_claim, ReaperCareful, Reserved, ArtifactTypes, FilesTyped
  <2> QED
    BY Zenon, <1>23, <2>1 DEF release_publication_claim, Reserved, ReservedBytesSurvive
<1>24. ASSUME reap_staged_older_than PROVE ReservedBytesSurvive'
  <2>1. \A n \in Members : Reserved(n) /\ staging[<<n, pendingToken[n]>>] = "claimed" =>
           staging'[<<n, pendingToken[n]>>] = "claimed"
    BY Zenon, <1>24, <1>a DEF reap_staged_older_than, RemoveFiles, Reserved, ArtifactTypes, FilesTyped
  <2>2. content \subseteq content'
    BY Zenon, <1>24 DEF reap_staged_older_than
  <2> QED
    BY Zenon, <1>24, <2>1, <2>2 DEF reap_staged_older_than, Reserved, ReservedBytesSurvive
<1>25. ASSUME NEW org \in Organizations, NEW d \in Digests,
              \/ retain_object_for(org, d) \/ acquire_legal_hold(org, d)
              \/ release_legal_hold(org, d) \/ RetentionEnds(org, d)
       PROVE ReservedBytesSurvive'
  BY Zenon, <1>1, <1>25 DEF retain_object_for, acquire_legal_hold, release_legal_hold, RetentionEnds
<1>26. ASSUME NEW w \in Deleters, NEW d \in Digests,
              \/ claim_objects_globally_for_deletion(w, d)
              \/ pending_object_deletion_claims(w, d)
       PROVE ReservedBytesSurvive'
  BY Zenon, <1>1, <1>26 DEF claim_objects_globally_for_deletion, pending_object_deletion_claims,
     DeleterHas
<1>27. ASSUME NEW w \in Deleters,
              \/ begin_object_deletion(w) \/ complete_object_deletion(w)
              \/ abandon_object_deletion(w) \/ LeaveDeletion(w)
       PROVE ReservedBytesSurvive'
  BY Zenon, <1>1, <1>27 DEF begin_object_deletion, complete_object_deletion, abandon_object_deletion,
     LeaveDeletion, DeleterHas
<1>28. ASSUME NEW w \in Deleters, DeleteContent(w) PROVE ReservedBytesSurvive'
  <2>1. deletion[deleter[w].digest].status \in {"deleting", "deleted"} /\ deleter[w].digest \in Digests
    BY Zenon, <1>28 DEF DeleteContent, DeletionInv, WorkerHasBegun, ArtifactTypes, DeletionTyped, Handles
  <2>2. \A n \in Members : Reserved(n) => deleter[w].digest # DigestOf[n]
    <3>1. Eligible(deleter[w].digest)
      BY Zenon, <2>1 DEF DeletionInv, ClaimedIsEligible
    <3> QED
      BY Zenon, <3>1 DEF Eligible, Referenced, Reserved, SetsAgree, MemberAgrees, Objects
  <2> QED
    BY Zenon, <1>28, <2>2 DEF DeleteContent, DeleterHas, Reserved, ReservedBytesSurvive
<1>29. CASE UNCHANGED artifactVars
  BY Zenon, <1>1, <1>29 DEF artifactVars
<1> QED
  BY ZenonT(60), <1>2, <1>3, <1>4, <1>5, <1>6, <1>7, <1>8, <1>9, <1>10, <1>11, <1>12, <1>13, <1>14, <1>15,
     <1>16, <1>17, <1>18, <1>19, <1>20, <1>21, <1>22, <1>23, <1>24, <1>25, <1>26, <1>27, <1>28,
     <1>29 DEF ArtifactsNext, SetStep, PlainStep, ReaperStep, DeletionStep, Surroundings

ReservedInv ==
    ArtifactTypes /\ SetsAgree /\ UnusedTokens /\ ReceivedIsSafe /\ ReaperCareful
        /\ DeletionInv /\ ReservedBytesSurvive

(* A registered member's bytes wait for the commit: as long as its set is    *)
(* staging and its attempt runs for its owner they are in the content store, *)
(* or claimed in the staging directory, for any number of sets, calls,       *)
(* reapers' rounds and deletion workers.                                     *)
THEOREM ReservedBytesWait == ArtifactsSpec => []ReservedBytesSurvive
<1>1. ArtifactsInit => ReservedInv
  <2> SUFFICES ASSUME ArtifactsInit PROVE ReservedInv
    BY Zenon
  <2>1. ArtifactTypes
    BY Zenon, ArtifactTypesInit
  <2>2. SetsAgree
    BY Zenon, ArtifactsAssumption DEF ArtifactsInit, SetsAgree, MemberAgrees, NoCall, Objects
  <2>3. UnusedTokens /\ ReceivedIsSafe
    BY Zenon DEF ArtifactsInit, UnusedTokens, ReceivedIsSafe, NoCall
  <2>4. ReaperCareful /\ ReservedBytesSurvive
    BY Zenon DEF ArtifactsInit, ReaperCareful, ReservedBytesSurvive
  <2>5. DeletionInv
    BY Zenon DEF ArtifactsInit, DeletionInv, ClaimedIsEligible, WorkerHasBegun, NoClaim
  <2> QED
    BY Zenon, <2>1, <2>2, <2>3, <2>4, <2>5 DEF ReservedInv
<1>2. ReservedInv /\ [ArtifactsNext]_artifactVars => ReservedInv'
  BY Zenon, ArtifactTypesStep, SetsAgreeStep, UnusedTokensStep, ReceivedIsSafeStep, ReaperCarefulStep,
     DeletionStepInv, ReservedBytesStep DEF ReservedInv
<1> QED
  BY <1>1, <1>2, PTL DEF ArtifactsSpec, ReservedInv

=============================================================================
