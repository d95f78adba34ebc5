--------------------------- MODULE GroupResolution --------------------------
(***************************************************************************)
(* A tenant's groups as leaders edit them (backend/app/routers/groups.py,  *)
(* models/group.py) and who they resolve to (core/groups.py).  The rule on *)
(* an attribute of members stands for all of those dimensions.  Two edits  *)
(* of a group do not overlap, and a resolution reads one state: none       *)
(* commits while it runs.                                                  *)
(*                                                                         *)
(* The resolver calls itself for every group a rule names.  A group is     *)
(* visited at most once, so what its call holds is filed under its name.   *)
(***************************************************************************)
EXTENDS Integers, Sequences

CONSTANTS
    Group, Patrol, \* the groups, and those that are patrols
    Person, Scout, \* the members, and those who may be in a patrol
    Trait,         \* a rule's values, and which members each one matches
    ParentsOf,     \* the parents and guardians of each member
    RefSets,       \* sets of groups a rule may name
    Roster,        \* who is a manual member of which group to begin with
    MaxGroupEdits  \* bound on edits

ASSUME GroupsAssumption ==
    /\ Patrol \subseteq Group /\ Scout \subseteq Person /\ MaxGroupEdits \in Nat
    /\ DOMAIN ParentsOf = Person /\ RefSets \subseteq SUBSET Group
    /\ Roster \subseteq Group \X Person

VARIABLES
    groupRow,  \* each group: [gone, all, parents]; all is rule_logic AND
    membership, \* its rows of manual members: "none", "here" or "removed"
    traitRule, \* the attribute values of its rule, {} without one
    refRule,   \* the groups its rule names, {} without one
    people,    \* members who are not deleted
    walk,      \* the resolution under way, or the last one
    groupEdits

groupTables == <<groupRow, membership, traitRule, refRule, people>>
groupsVars == <<groupTables, walk, groupEdits>>

Manual(g) == {m \in Person : membership[g, m] = "here"}
Matching(values) == UNION {Trait[v] : v \in values}

\* The rules of a group, from those its referenced groups contribute.
Dynamic(g, referred) ==
    LET named == refRule[g] # {}
        typed == traitRule[g] # {}
        matched == Matching(traitRule[g]) \cap people
    IN  CASE named /\ typed /\ groupRow[g].all -> matched \cap referred
          [] named /\ typed /\ ~groupRow[g].all -> matched \cup referred
          [] named /\ ~typed -> referred
          [] OTHER -> matched

Parents(set) == UNION {ParentsOf[m] : m \in set}

\* One group's members.
Combined(g, referred) ==
    LET resolved == (Manual(g) \cup Dynamic(g, referred)) \cap people
    IN  IF groupRow[g].parents THEN resolved \cup (Parents(resolved) \cap people) ELSE resolved
-----------------------------------------------------------------------------
(* resolve_group_members.  walk.root is the group asked for, walk.stack the   *)
(* calls that have not returned, walk.left the references each has yet to     *)
(* follow, walk.found what those followed came back with, and walk.seen the   *)
(* one _visited set of the whole walk.  A rule's list is followed in any      *)
(* order.                                                                     *)
NoWalk == [phase |-> "idle"]
WalkOf(g) ==
    [phase |-> "going", root |-> g, stack |-> <<g>>, seen |-> {g},
     left |-> [h \in Group |-> IF h = g THEN refRule[g] ELSE {}],
     found |-> [h \in Group |-> {}]]

Running == walk.stack[Len(walk.stack)]
Caller == walk.stack[Len(walk.stack) - 1]

\* A call from outside starts with nothing visited.
Ask(g) ==
    /\ walk.phase # "going"
    /\ walk' = IF groupRow[g].gone THEN [WalkOf(g) EXCEPT !.phase = "done"] ELSE WalkOf(g)
    /\ UNCHANGED <<groupTables, groupEdits>>

\* Following rules into deleted groups.
EnterDeletedToo(h) ==
    /\ walk.phase = "going" /\ h \in walk.left[Running] \ walk.seen
    /\ walk' = [walk EXCEPT !.stack = Append(@, h), !.seen = @ \cup {h},
                            !.left = [walk.left EXCEPT ![Running] = @ \ {h}, ![h] = refRule[h]]]
    /\ UNCHANGED <<groupTables, groupEdits>>

Enter(h) ==
    /\ walk.phase = "going" /\ h \in walk.left[Running] \ walk.seen
    /\ ~groupRow[h].gone
    /\ walk' = [walk EXCEPT !.stack = Append(@, h), !.seen = @ \cup {h},
                            !.left = [walk.left EXCEPT ![Running] = @ \ {h}, ![h] = refRule[h]]]
    /\ UNCHANGED <<groupTables, groupEdits>>

\* A group that was visited on another path, or is deleted, contributes nobody.
Pass(h) ==
    /\ walk.phase = "going" /\ h \in walk.left[Running]
    /\ h \in walk.seen \/ groupRow[h].gone
    /\ walk' = [walk EXCEPT !.seen = @ \cup {h}, !.left[Running] = @ \ {h}]
    /\ UNCHANGED <<groupTables, groupEdits>>

\* The call returns: to its caller, or with the answer.
Leave ==
    LET answer == Combined(Running, walk.found[Running])
    IN  /\ walk.phase = "going" /\ walk.left[Running] = {}
        /\ walk' = IF Len(walk.stack) = 1
                   THEN [walk EXCEPT !.phase = "done", !.found[Running] = answer]
                   ELSE [walk EXCEPT !.stack = SubSeq(@, 1, Len(@) - 1),
                                     !.found[Caller] = @ \cup answer]
        /\ UNCHANGED <<groupTables, groupEdits>>
-----------------------------------------------------------------------------
EditsGroup ==
    /\ walk.phase # "going"
    /\ groupEdits < MaxGroupEdits /\ groupEdits' = groupEdits + 1
    /\ walk' = NoWalk

\* add_group_member: a row that was removed still holds the unique key, so the
\* member can never be added to that group again.
AddGroupMember(g, m) ==
    /\ EditsGroup /\ ~groupRow[g].gone /\ m \in people /\ membership[g, m] = "none"
    /\ g \in Patrol => m \in Scout
    /\ membership' = [k \in Group \X Person |->
          IF k = <<g, m>> THEN "here"
          ELSE IF /\ {g, k[1]} \subseteq Patrol /\ ~groupRow[k[1]].gone
                  /\ k[2] = m /\ membership[k] = "here"
               THEN "removed" ELSE membership[k]]
    /\ UNCHANGED <<groupRow, traitRule, refRule, people>>

RemoveGroupMember(g, m) ==
    /\ EditsGroup /\ ~groupRow[g].gone /\ membership[g, m] = "here"
    /\ membership' = [membership EXCEPT ![<<g, m>>] = "removed"]
    /\ UNCHANGED <<groupRow, traitRule, refRule, people>>

\* upsert_group_rule and validate_group_rule: no rule on a patrol, none that
\* names its own group, none that names a deleted one; cycles are allowed.
UpsertTraitRule(g, values) ==
    /\ EditsGroup /\ ~groupRow[g].gone /\ g \notin Patrol /\ values # {}
    /\ traitRule' = [traitRule EXCEPT ![g] = values]
    /\ UNCHANGED <<groupRow, membership, refRule, people>>

UpsertRefRule(g, set) ==
    /\ EditsGroup /\ ~groupRow[g].gone /\ g \notin Patrol /\ set # {}
    /\ \A h \in set : h # g /\ ~groupRow[h].gone
    /\ refRule' = [refRule EXCEPT ![g] = set]
    /\ UNCHANGED <<groupRow, membership, traitRule, people>>

RemoveGroupRule(g) ==
    /\ EditsGroup /\ ~groupRow[g].gone
    /\ \/ traitRule[g] # {} /\ traitRule' = [traitRule EXCEPT ![g] = {}] /\ UNCHANGED refRule
       \/ refRule[g] # {} /\ refRule' = [refRule EXCEPT ![g] = {}] /\ UNCHANGED traitRule
    /\ UNCHANGED <<groupRow, membership, people>>

UpdateGroup(g, all, parents) ==
    /\ EditsGroup /\ ~groupRow[g].gone
    /\ groupRow' = [groupRow EXCEPT ![g].all = all, ![g].parents = parents]
    /\ UNCHANGED <<membership, traitRule, refRule, people>>

\* delete_group leaves the rules that name it.
DeleteGroup(g) ==
    /\ EditsGroup /\ ~groupRow[g].gone
    /\ groupRow' = [groupRow EXCEPT ![g].gone = TRUE]
    /\ UNCHANGED <<membership, traitRule, refRule, people>>

DeletePerson(m) ==
    /\ EditsGroup /\ m \in people /\ people' = people \ {m}
    /\ UNCHANGED <<groupRow, membership, traitRule, refRule>>
-----------------------------------------------------------------------------
GroupsInit ==
    /\ groupRow = [g \in Group |-> [gone |-> FALSE, all |-> TRUE, parents |-> FALSE]]
    /\ membership = [k \in Group \X Person |-> IF k \in Roster THEN "here" ELSE "none"]
    /\ traitRule = [g \in Group |-> {}] /\ refRule = [g \in Group |-> {}]
    /\ people = Person /\ groupEdits = 0
    /\ walk = NoWalk

GroupsNext ==
    \/ \E g \in Group, m \in Person : AddGroupMember(g, m) \/ RemoveGroupMember(g, m)
    \/ \E g \in Group, values \in SUBSET DOMAIN Trait : UpsertTraitRule(g, values)
    \/ \E g \in Group, set \in RefSets : UpsertRefRule(g, set)
    \/ \E g \in Group : RemoveGroupRule(g) \/ DeleteGroup(g)
    \/ \E g \in Group, all \in BOOLEAN, parents \in BOOLEAN : UpdateGroup(g, all, parents)
    \/ \E m \in Person : DeletePerson(m)
    \/ \E g \in Group : Ask(g) \/ Enter(g) \/ Pass(g)
    \/ Leave

GroupsSpec == GroupsInit /\ [][GroupsNext]_groupsVars
-----------------------------------------------------------------------------
\* What the groups that g names contribute to it, from who is in each.
Referred(g, sets) == UNION {sets[h] : h \in refRule[g]}

\* One round of every group's definition, and what satisfies all of them.
Round(sets) ==
    [g \in Group |-> IF groupRow[g].gone THEN {} ELSE Combined(g, Referred(g, sets))]

Satisfying ==
    {sets \in [Group -> SUBSET Person] : \A g \in Group : Round(sets)[g] \subseteq sets[g]}

\* The least sets that satisfy every group's definition at once.
Meaning ==
    LET all == Satisfying
    IN  [g \in Group |-> {m \in Person : \A sets \in all : m \in sets[g]}]

\* The groups a resolution of g can come to.
Named(g) == {h \in refRule[g] : ~groupRow[h].gone}

Reached(g) ==
    {h \in Group : \A S \in SUBSET Group :
        g \in S /\ (\A k \in S : Named(k) \subseteq S) => h \in S}

\* None of them is reached on two paths.
OnePath(g) ==
    \A h, j, k \in Reached(g) :
        h \in Named(j) => h # g /\ (h \in Named(k) => j = k)

\* Each of them only adds up: no rule must hold beside its references, and
\* no parents come in.
Additive(g) ==
    \A h \in Reached(g) :
        /\ ~groupRow[h].parents
        /\ groupRow[h].all => refRule[h] = {} \/ traitRule[h] = {}

(* A group resolves to the members its rules describe, through edits, deleted
   groups and members, rules that name each other and lists in any order:
   never to anyone else, and to all of them when no group is reached on two
   paths, or when those reached only add up, cycles and all.  (On a second
   path a group contributes nobody: a rule that needs both can miss members.) *)
GroupsMeanWhatTheySay ==
    walk.phase = "done" =>
        LET answer == walk.found[walk.root]
            meant == Meaning[walk.root]
        IN  /\ answer \subseteq meant
            /\ OnePath(walk.root) \/ Additive(walk.root) => answer = meant
=============================================================================
