---------------------------- MODULE MCBackOffice ----------------------------
(***************************************************************************)
(* The components of the server that share nothing but the tenant, checked *)
(* in one run: each behaviour drives one of them, chosen in its first      *)
(* state, and leaves the others as they began.                             *)
(***************************************************************************)
EXTENDS EventSlots, PhotoQuota, ImportJobs, Governance, Claims, Platform,
        Advancement, GroupResolution, TLC

CONSTANTS x1, x2, ann, bob, sys, chair, v1, v2, k1, k2, g1, g2, g3, g4, kid, mum

MCUploadSize == x1 :> 2 @@ x2 :> 3
MCTerm == {<<ann, sys>>, <<bob, sys>>, <<ann, chair>>}
MCMailbox == kid :> {ann} @@ mum :> {}
MCLeaf == {<<v1, k1>>, <<v2, k1>>, <<v2, k2>>}
MCAutoLeaf == {<<v2, k2>>}
MCTrait == [scout |-> {kid}]
MCParentsOf == kid :> {mum} @@ mum :> {}
MCRefSets == {{g2}, {g1}, {g2, g3}, {g3, g4}}
MCRoster == {<<g3, kid>>}

VARIABLE part

Parts == {"slots", "photos", "jobs", "roles", "claims", "platform", "officers",
          "advancement", "groups"}

OfficeInit ==
    /\ part \in Parts
    /\ SlotsInit /\ PhotosInit /\ JobsInit /\ GovInit
    /\ ClaimsInit /\ PlatformInit /\ AdvInit /\ GroupsInit
    /\ part # "jobs" => backend = "inprocess" /\ patrols = [j \in Job |-> {}]
    \* Exports that share no name conflict as little as exports without patrols.
    /\ \A j, k \in Job : patrols[j] = patrols[k]

OfficeNext ==
    \/ /\ part = "slots" /\ SlotsNext
       /\ UNCHANGED <<part, photosVars, jobsVars, govVars, claimsVars,
                      platformVars, advVars, groupsVars>>
    \/ /\ part = "photos" /\ PhotosNext
       /\ UNCHANGED <<part, slotsVars, jobsVars, govVars, claimsVars,
                      platformVars, advVars, groupsVars>>
    \/ /\ part = "jobs" /\ JobsNext
       /\ UNCHANGED <<part, slotsVars, photosVars, govVars, claimsVars,
                      platformVars, advVars, groupsVars>>
    \/ /\ part = "roles" /\ GovNext
       /\ UNCHANGED <<part, slotsVars, photosVars, jobsVars, claimsVars,
                      platformVars, advVars, groupsVars>>
    \/ /\ part = "claims" /\ ClaimsNext
       /\ UNCHANGED <<part, slotsVars, photosVars, jobsVars, govVars,
                      platformVars, advVars, groupsVars>>
    \/ /\ \/ part = "platform" /\ TenantNext
          \/ part = "officers" /\ OfficersNext
       /\ UNCHANGED <<part, slotsVars, photosVars, jobsVars, govVars,
                      claimsVars, advVars, groupsVars>>
    \/ /\ part = "advancement" /\ AdvNext
       /\ UNCHANGED <<part, slotsVars, photosVars, jobsVars, govVars,
                      claimsVars, platformVars, groupsVars>>
    \/ /\ part = "groups" /\ GroupsNext
       /\ UNCHANGED <<part, slotsVars, photosVars, jobsVars, govVars,
                      claimsVars, platformVars, advVars>>

OfficeVars == <<part, slotsVars, photosVars, jobsVars, govVars, claimsVars,
                platformVars, advVars, groupsVars>>

\* PhotosFairness and JobsFairness, where they ask for anything.
OfficeFairness ==
    /\ WF_photosVars(part = "photos" /\ \E p \in PhotoSession : PhotoGoesOn(p))
    /\ SF_photosVars(part = "photos" /\ \E p \in PhotoSession : Reap(p))
    /\ SF_photosVars(part = "photos" /\ \E p \in PhotoSession : CommitReap(p))
    /\ \A r \in Requester : WF_jobsVars(part = "jobs" /\ SubmissionGoesOn(r))
    /\ WF_jobsVars(part = "jobs" /\ \E w \in Worker : WorkerGoesOn(w))

OfficeSpec == OfficeInit /\ [][OfficeNext]_OfficeVars /\ OfficeFairness
=============================================================================
