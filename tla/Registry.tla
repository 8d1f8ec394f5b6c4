------------------------------ MODULE Registry ------------------------------
(***************************************************************************)
(* The registry of utils/rgadm.cxx: groups of groups and keys.  A group is *)
(* a structure in an array of its parent's, which realloc moves when a     *)
(* sister is added: pointers are <<chunk, index>>, and a chunk that was    *)
(* given back keeps what was in it.                                        *)
(***************************************************************************)
EXTENDS Strings

CONSTANTS
    RegistryNames,  \* names of groups and keys
    MaxDepth,       \* bound on the names of a path
    MaxGroups,      \* bound on the groups programs are given
    MaxKeys,        \* bound on the keys
    KeepsPointers   \* programs go on using pointers they were given

ASSUME RegistryAssumption ==
    MaxDepth \in Nat /\ MaxGroups \in Nat /\ MaxKeys \in Nat /\ KeepsPointers \in BOOLEAN

VARIABLES
    arrays,     \* the chunks there have been: their groups
    pointers,   \* what programs hold, with the path they know it by
    keysMade,   \* the keys that were made: path and name
    allocFailed \* an allocation has failed

registryVars == <<arrays, pointers, keysMade, allocFailed>>

NoArray == 0
NullGroup == <<0, 0>>
g_root_group == <<1, 1>>

NoKey == <<"null", <<>>>>
Wild == <<"wild", <<>>>>

Group(name) == [name |-> name, groups |-> NoArray, n_groups |-> 0, keys |-> <<>>, n_keys |-> 0]
Deref(p) == arrays[p[1]][p[2]]

\* Mutant of FirstOf: the loop ends one too early.
FirstButLast(names, name) ==
    LET found == {i \in DOMAIN names : i < Len(names) /\ strcmp(names[i], name) = 0}
    IN  IF found = {} THEN 0 ELSE Min(found)

\* The first of the name.  strcmp takes other names for the same.
FirstOf(names, name) ==
    LET found == {i \in DOMAIN names : strcmp(names[i], name) = 0}
    IN  IF found = {} THEN 0 ELSE Min(found)

\* The array is followed when it has elements, null or not.
Follows(p) == Deref(p).n_groups > 0 /\ Deref(p).groups = NoArray
FollowsKeys(p) == Deref(p).n_keys > 0 /\ Deref(p).keys = <<>>

registry_group_find_group(p, name) ==
    LET g == Deref(p)
        i == IF g.n_groups = 0 THEN 0
             ELSE FirstOf([k \in 1 .. g.n_groups |-> arrays[g.groups][k].name], name)
    IN  IF i = 0 THEN NullGroup ELSE <<g.groups, i>>

registry_group_find_key(p, name) ==
    LET i == FirstOf(Deref(p).keys, name) IN IF i = 0 THEN NoKey ELSE <<"key", Deref(p).keys[i]>>

\* Down the names: groups come before keys, and the first key ends the search.  Behind the
\* last name there is no separator, and what is behind a null pointer is read.
RECURSIVE registry_resolve_path(_, _)
registry_resolve_path(p, path) ==
    IF path = <<>> THEN Wild
    ELSE IF Follows(p) THEN Wild
    ELSE LET sub == registry_group_find_group(p, Head(path))
         IN  IF sub # NullGroup THEN registry_resolve_path(sub, Tail(path))
             ELSE IF FollowsKeys(p) THEN Wild
             ELSE registry_group_find_key(p, Head(path))

RECURSIVE GroupAt(_, _)
GroupAt(p, path) ==
    IF path = <<>> \/ p = NullGroup THEN p
    ELSE IF Follows(p) THEN NullGroup
    ELSE GroupAt(registry_group_find_group(p, Head(path)), Tail(path))

Paths == UNION {[1 .. n -> RegistryNames] : n \in 0 .. MaxDepth}

\* Where programs add things: to a group they look up, or to one they were given.
KeyPlaces ==
    IF KeepsPointers THEN pointers
    ELSE {<<GroupAt(g_root_group, path), path>> : path \in Paths} \ ({NullGroup} \X Paths)

-----------------------------------------------------------------------------

WithGroup(p, f, v) == [arrays EXCEPT ![p[1]][p[2]][f] = v]

\* The array is null from then on, and counts what it had.
AddGroupFails(p) ==
    /\ arrays' = WithGroup(p, "groups", NoArray)
    /\ allocFailed' = TRUE
    /\ UNCHANGED <<pointers, keysMade>>

\* The array is where it was, or in a chunk of its own.
registry_group_add_group(p, sub, path) ==
    LET g == Deref(p)
        sisters == IF g.groups = NoArray THEN <<>> ELSE arrays[g.groups]
        set(where, with) ==
            [with EXCEPT ![p[1]][p[2]].groups = where, ![p[1]][p[2]].n_groups = @ + 1]
    IN  /\ UNCHANGED <<keysMade, allocFailed>>
        /\ \/ /\ g.groups # NoArray
              /\ arrays' = set(g.groups, [arrays EXCEPT ![g.groups] = Append(sisters, sub)])
              /\ pointers' = pointers \cup {<<<<g.groups, g.n_groups + 1>>, path>>}
           \/ /\ arrays' = set(Len(arrays) + 1, Append(arrays, Append(sisters, sub)))
              /\ pointers' = pointers \cup {<<<<Len(arrays) + 1, g.n_groups + 1>>, path>>}

\* A list that lost its array has what is behind null for it: the model ends there.
registry_group_create(place, name) ==
    LET p == place[1]
    IN  /\ ~Follows(p) /\ Len(place[2]) < MaxDepth - 1 /\ Cardinality(pointers) < MaxGroups
        /\ \/ registry_group_add_group(p, Group(name), Append(place[2], name))
           \/ ~allocFailed /\ AddGroupFails(p)

\* Without storage for the key itself nothing happens; without storage for the array all
\* keys are gone.
registry_key_create(place, name) ==
    LET p == place[1]
    IN  /\ ~FollowsKeys(p) /\ Len(keysMade) < MaxKeys
        /\ \/ /\ arrays' = [arrays EXCEPT ![p[1]][p[2]].keys = Append(@, name), ![p[1]][p[2]].n_keys = @ + 1]
              /\ keysMade' = Append(keysMade, <<place[2], name>>)
              /\ UNCHANGED allocFailed
           \/ /\ ~allocFailed
              /\ arrays' = WithGroup(p, "keys", <<>>)
              /\ allocFailed' = TRUE
              /\ UNCHANGED keysMade
        /\ UNCHANGED pointers

\* main makes the root and two groups.
RegistryInit ==
    /\ arrays = <<<<[Group(<<>>) EXCEPT !.groups = 2, !.n_groups = 2]>>,
                  [i \in 1 .. 2 |-> Group(<<64 + i>>)]>>
    /\ pointers = {<<g_root_group, <<>>>>, <<<<2, 1>>, <<<<65>>>>>>, <<<<2, 2>>, <<<<66>>>>>>}
    /\ keysMade = <<>> /\ allocFailed = FALSE

RegistryNext ==
    \E place \in KeyPlaces, name \in RegistryNames :
        registry_group_create(place, name) \/ registry_key_create(place, name)

RegistrySpec == RegistryInit /\ [][RegistryNext]_registryVars

-----------------------------------------------------------------------------
(* Properties.                                                             *)

\* A group of the key's name hides it.
Hidden(path, name) == registry_group_find_group(GroupAt(g_root_group, path), name) # NullGroup

\* A key that was made is found by its path, as itself or as one whose name counts as the
\* same, whatever was added and moved since, as long as no allocation has failed.
KeysAreFound ==
    ~allocFailed =>
        \A k \in ToSet(keysMade) :
            LET found == registry_resolve_path(g_root_group, Append(k[1], k[2]))
            IN  \/ Hidden(k[1], k[2])
                \/ found[1] = "key" /\ strcmp(found[2], k[2]) = 0

\* "Registry %s not found" (rgadm.cxx:174): what is not a key is reported.
WayIsNotLost == \A path \in Paths \ {<<>>} : registry_resolve_path(g_root_group, path) # Wild
=============================================================================
