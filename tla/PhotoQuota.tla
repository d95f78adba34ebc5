----------------------------- MODULE PhotoQuota -----------------------------
(***************************************************************************)
(* Event photos of one tenant: reserving, uploading, confirming, deleting  *)
(* (backend/app/routers/photos.py), the byte meter (core/photo_quota.py)   *)
(* and the reaper of objects (core/photo_reaper.py).  Objects are in a     *)
(* store that is not part of any transaction.                              *)
(***************************************************************************)
EXTENDS Integers, FiniteSets

CONSTANTS
    PhotoSession, \* requests and runs of the reaper under way at once
    Photo,       \* the photos that may be asked for
    Claim,       \* bytes a client claims for each
    UploadSize,  \* bytes each photo's upload really has
    MaxUpload,   \* photo_max_upload_bytes
    Quota        \* the tenant's quota

ASSUME PhotoQuotaAssumption ==
    /\ Claim \in 1..MaxUpload /\ MaxUpload \in Nat /\ UploadSize \in [Photo -> Nat \ {0}]
    /\ Quota \in Nat /\ IsFiniteSet(Photo)

VARIABLES
    photo,     \* the rows: [status, deleted, reserved, bytes]
    object,    \* bytes stored under each photo's key, 0 when there is none
    expired,   \* photos past the reaper's cutoff, and so past their upload URL
    used,      \* Tenant.used_storage_bytes
    photoReq,  \* what each session is doing
    collided   \* history: two sessions were busy with the same photo, or a
               \* reservation overlapped another or a confirmation

photosVars == <<photo, object, expired, used, photoReq, collided>>

PhotoStatus == {"none", "pending", "ready", "failed", "purged"}
NoPhoto == [status |-> "none", deleted |-> FALSE, reserved |-> 0, bytes |-> 0]
PhotoOps == {"idle", "ask", "reserve", "complete", "confirm", "tooBig", "delete",
             "reap", "purge"}
PhotoIdle == [op |-> "idle", on |-> {}, gone |-> {}, num |-> 0]

Live(st) == {x \in Photo : photo[x].status = st /\ ~photo[x].deleted}

\* SUM(reserved_bytes), and what it should be compared with: each sum counts
\* one pair for each byte.
ReservedBytes == Cardinality(UNION {{x} \X (1..photo[x].reserved) : x \in Live("pending")})
ReadyBytes == Cardinality(UNION {{x} \X (1..photo[x].bytes) : x \in Live("ready")})
BytesBeyond == Cardinality(UNION {{x} \X (Claim + 1..photo[x].bytes) : x \in Live("ready")})

Busy(p) == photoReq[p].on \cup photoReq[p].gone
Collides ==
    \E p, q \in PhotoSession :
        /\ p # q
        /\ \/ Busy(p) \cap Busy(q) # {}
           \/ /\ photoReq[p].op \in {"ask", "reserve"}
              /\ photoReq[q].op \in {"ask", "reserve", "complete", "confirm"}
WatchPhoto == collided' = (collided \/ Collides')
PhotoGoes(p, from, r) == photoReq[p].op = from /\ photoReq' = [photoReq EXCEPT ![p] = r]
-----------------------------------------------------------------------------
(* Reserving. *)

\* would_exceed_quota reads the meter first ...
InitiateUpload(p, B) ==
    /\ B # {} /\ \A x \in B : photo[x] = NoPhoto /\ \A q \in PhotoSession : x \notin Busy(q)
    /\ PhotoGoes(p, "idle", [PhotoIdle EXCEPT !.op = "ask", !.on = B, !.num = used])
    /\ UNCHANGED <<photo, object, expired, used>> /\ WatchPhoto

Exceeds(p, reserved) == photoReq[p].num + reserved + Claim * Cardinality(photoReq[p].on) > Quota

\* Leaving the reservations out of the sum.
CheckQuotaOfUsed(p) ==
    /\ PhotoGoes(p, "ask", IF Exceeds(p, 0) THEN PhotoIdle
                           ELSE [photoReq[p] EXCEPT !.op = "reserve"])
    /\ UNCHANGED <<photo, object, expired, used>> /\ WatchPhoto

\* ... and the live reservations after it.
CheckQuota(p) ==
    /\ PhotoGoes(p, "ask", IF Exceeds(p, ReservedBytes) THEN PhotoIdle
                           ELSE [photoReq[p] EXCEPT !.op = "reserve"])
    /\ UNCHANGED <<photo, object, expired, used>> /\ WatchPhoto

CommitInitiate(p) ==
    /\ PhotoGoes(p, "reserve", PhotoIdle)
    /\ photo' = [x \in Photo |-> IF x \in photoReq[p].on
                                 THEN [NoPhoto EXCEPT !.status = "pending", !.reserved = Claim]
                                 ELSE photo[x]]
    /\ UNCHANGED <<object, expired, used>> /\ WatchPhoto

\* The client uploads through its presigned URL, until that expires; again when
\* the object is gone.  (An upload over an object still there is left out.)
Put(x) ==
    /\ photo[x].status # "none" /\ x \notin expired /\ object[x] = 0
    /\ object' = [object EXCEPT ![x] = UploadSize[x]]
    /\ UNCHANGED <<photo, expired, used, photoReq>> /\ WatchPhoto

\* PHOTO_PENDING_REAP_HOURS go by; the URL's lifetime is shorter.
Expire(x) ==
    /\ photo[x].status # "none" /\ x \notin expired
    /\ expired' = expired \cup {x}
    /\ UNCHANGED <<photo, object, used, photoReq>> /\ WatchPhoto
-----------------------------------------------------------------------------
(* Confirming and deleting. *)

\* A photo that is READY is returned as it is; other states are a 409.
CompleteUpload(p, x) ==
    /\ x \in Live("pending")
    /\ PhotoGoes(p, "idle", [PhotoIdle EXCEPT !.op = "complete", !.on = {x}])
    /\ UNCHANGED <<photo, object, expired, used>> /\ WatchPhoto

\* HEAD: nothing there is a 409, an object over the cap is dropped at once.
HeadObject(p) ==
    \E x \in photoReq[p].on :
        /\ PhotoGoes(p, "complete",
              IF object[x] = 0 THEN PhotoIdle
              ELSE [photoReq[p] EXCEPT !.op = IF object[x] > MaxUpload THEN "tooBig" ELSE "confirm",
                                       !.num = object[x]])
        /\ object' = [object EXCEPT ![x] = IF @ > MaxUpload THEN 0 ELSE @]
        /\ UNCHANGED <<photo, expired, used>> /\ WatchPhoto

\* Metering the client's claim instead of what HEAD found.
CommitConfirmClaim(p) ==
    /\ PhotoGoes(p, "confirm", PhotoIdle)
    /\ photo' = [x \in Photo |-> IF x \in photoReq[p].on
                                 THEN [photo[x] EXCEPT !.status = "ready", !.reserved = 0,
                                                       !.bytes = photoReq[p].num]
                                 ELSE photo[x]]
    /\ used' = used + Claim
    /\ UNCHANGED <<object, expired>> /\ WatchPhoto

\* confirm_upload and its commit.
CommitConfirm(p) ==
    /\ PhotoGoes(p, "confirm", PhotoIdle)
    /\ photo' = [x \in Photo |-> IF x \in photoReq[p].on
                                 THEN [photo[x] EXCEPT !.status = "ready", !.reserved = 0,
                                                       !.bytes = photoReq[p].num]
                                 ELSE photo[x]]
    /\ used' = used + photoReq[p].num
    /\ UNCHANGED <<object, expired>> /\ WatchPhoto

CommitTooBig(p) ==
    /\ PhotoGoes(p, "tooBig", PhotoIdle)
    /\ photo' = [x \in Photo |-> IF x \in photoReq[p].on
                                 THEN [photo[x] EXCEPT !.status = "failed", !.reserved = 0]
                                 ELSE photo[x]]
    /\ UNCHANGED <<object, expired, used>> /\ WatchPhoto

\* delete_photo reads the row: num is what release_photo will take off.
DeletePhoto(p, x) ==
    /\ photo[x].status # "none" /\ ~photo[x].deleted
    /\ PhotoGoes(p, "idle", [PhotoIdle EXCEPT !.op = "delete", !.on = {x},
          !.num = IF photo[x].status = "ready" THEN photo[x].bytes ELSE 0])
    /\ UNCHANGED <<photo, object, expired, used>> /\ WatchPhoto

\* Taking the bytes off without the clamp.
CommitDeleteUnclamped(p) ==
    /\ PhotoGoes(p, "delete", PhotoIdle)
    /\ photo' = [x \in Photo |-> IF x \in photoReq[p].on
                                 THEN [photo[x] EXCEPT !.deleted = TRUE, !.reserved = 0]
                                 ELSE photo[x]]
    /\ used' = used - photoReq[p].num
    /\ UNCHANGED <<object, expired>> /\ WatchPhoto

\* add_used_bytes never goes below zero.
CommitDeletePhoto(p) ==
    /\ PhotoGoes(p, "delete", PhotoIdle)
    /\ photo' = [x \in Photo |-> IF x \in photoReq[p].on
                                 THEN [photo[x] EXCEPT !.deleted = TRUE, !.reserved = 0]
                                 ELSE photo[x]]
    /\ used' = IF used > photoReq[p].num THEN used - photoReq[p].num ELSE 0
    /\ UNCHANGED <<object, expired>> /\ WatchPhoto
-----------------------------------------------------------------------------
(* The reaper. *)

\* Taking every photo past the cutoff, or only confirmed photos among the
\* deleted ones that still have an object.
StaleWhatever == {x \in expired : photo[x].status # "purged" /\ ~photo[x].deleted}
DeletedReady == {x \in Photo : photo[x].deleted /\ photo[x].status = "ready"}

StalePending == Live("pending") \cap expired
DeletedUnpurged == {x \in Photo : photo[x].deleted /\ photo[x].status # "purged"}

Reap(p) ==
    /\ StalePending \cup DeletedUnpurged # {}
    /\ PhotoGoes(p, "idle", [PhotoIdle EXCEPT !.op = "reap", !.on = StalePending])
    /\ UNCHANGED <<photo, object, expired, used>> /\ WatchPhoto

\* Objects go before the commit, and no rollback brings them back.
ReapObjects(p) ==
    /\ PhotoGoes(p, "reap", [photoReq[p] EXCEPT !.op = "purge", !.gone = DeletedUnpurged])
    /\ object' = [x \in Photo |-> IF x \in photoReq[p].on \cup DeletedUnpurged
                                  THEN 0 ELSE object[x]]
    /\ UNCHANGED <<photo, expired, used>> /\ WatchPhoto

CommitReap(p) ==
    /\ PhotoGoes(p, "purge", PhotoIdle)
    /\ photo' = [x \in Photo |->
          IF x \notin Busy(p) THEN photo[x]
          ELSE [photo[x] EXCEPT !.status = "purged", !.reserved = 0,
                                !.deleted = @ \/ x \in photoReq[p].on]]
    /\ UNCHANGED <<object, expired, used>> /\ WatchPhoto

\* A process that dies after it deleted objects.  (One that dies earlier
\* leaves nothing, as if it had not begun.)
Kill(p) ==
    /\ photoReq[p].op \in {"tooBig", "purge"}
    /\ PhotoGoes(p, photoReq[p].op, PhotoIdle)
    /\ UNCHANGED <<photo, object, expired, used>> /\ WatchPhoto
-----------------------------------------------------------------------------
PhotosInit ==
    /\ photo = [x \in Photo |-> NoPhoto]
    /\ object = [x \in Photo |-> 0]
    /\ expired = {} /\ used = 0
    /\ photoReq = [p \in PhotoSession |-> PhotoIdle]
    /\ collided = FALSE

\* What a request or a reaper run does by itself once begun.
PhotoGoesOn(p) ==
    \/ CheckQuota(p) \/ CommitInitiate(p)
    \/ HeadObject(p) \/ CommitConfirm(p) \/ CommitTooBig(p)
    \/ CommitDeletePhoto(p)
    \/ ReapObjects(p) \/ CommitReap(p)

PhotosNext ==
    \/ \E p \in PhotoSession, B \in SUBSET Photo : InitiateUpload(p, B)
    \/ \E x \in Photo : Put(x)
    \/ \E x \in Photo : Expire(x)
    \/ \E p \in PhotoSession, x \in Photo : CompleteUpload(p, x) \/ DeletePhoto(p, x)
    \/ \E p \in PhotoSession : Reap(p)
    \/ \E p \in PhotoSession : PhotoGoesOn(p)
    \/ \E p \in PhotoSession : Kill(p)

PhotosSpec == PhotosInit /\ [][PhotosNext]_photosVars

\* Some session goes on, and the scheduled reaper gets its turn between
\* requests and is not killed every time.
PhotosFairness ==
    /\ WF_photosVars(\E p \in PhotoSession : PhotoGoesOn(p))
    /\ SF_photosVars(\E p \in PhotoSession : Reap(p))
    /\ SF_photosVars(\E p \in PhotoSession : CommitReap(p))
-----------------------------------------------------------------------------
(* Type correctness; the meter never goes negative. *)
PhotosTypeOK ==
    /\ photo \in [Photo -> [status : PhotoStatus, deleted : BOOLEAN,
                            reserved : {0, Claim}, bytes : Nat]]
    /\ object \in [Photo -> Nat]
    /\ expired \subseteq Photo /\ used \in Nat
    /\ photoReq \in [PhotoSession -> [op : PhotoOps, on : SUBSET Photo, gone : SUBSET Photo,
                                 num : Nat]]
    /\ collided \in BOOLEAN

(* The meter is the sum of the confirmed photos that are not deleted, through
   uploads, confirmations, deletes, reaps and kills, while no two sessions
   are busy with the same photo.  (Two confirmations of one photo add it
   twice; a confirmation beside a reap leaves its bytes counted for good.) *)
MeterIsExact == ~collided => used = ReadyBytes

(* A photo in the gallery has its object, under the same condition and
   whatever the reaper's crashes leave behind. *)
GalleryHasObjects == ~collided => \A x \in Live("ready") : object[x] # 0

(* Quota: what is confirmed and promised stays within it, apart from what
   clients uploaded beyond their claims, while reservations do not overlap
   each other or a confirmation (whose bytes one could count on neither side). *)
QuotaKept == ~collided => used + ReservedBytes <= Quota + BytesBeyond

(* No deleted photo stays unpurged for ever: the reaper gets to it and deletes
   its object, whatever requests and reaper runs collide. *)
DeletedArePurged ==
    \A x \in Photo : []<>(photo[x].deleted => photo[x].status = "purged")
=============================================================================
