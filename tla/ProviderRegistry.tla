-------------------------- MODULE ProviderRegistry --------------------------
(***************************************************************************)
(* The registries of provider instances (providers/registry.py): requests  *)
(* take instances from the published registry and fill it, the start of    *)
(* the application lists the models in the background, the admin page      *)
(* evicts an instance to test its provider, refreshes the model lists,     *)
(* and applies new settings, which cleans the published registry up and    *)
(* publishes an empty one.  An instance is its number in made.  The ends   *)
(* of the clean-ups and of the model lists are the points where the        *)
(* others run.                                                             *)
(***************************************************************************)
EXTENDS Naturals, FiniteSets, Sequences, FiniteSetsExt

CONSTANTS Kinds,       \* provider ids
          RegCalls,    \* requests and calls of the admin page
          MaxApplies, MaxMade

ASSUME RegistryAssumption ==
    MaxApplies \in Nat /\ MaxMade \in Nat /\ IsFiniteSet(RegCalls) /\ IsFiniteSet(Kinds)

VARIABLES
    version,   \* how often the settings changed
    published, \* the registry of the application
    cached,    \* the instances in each registry
    listed,    \* the instances whose model lists each registry holds
    made,      \* the instances made so far
    open,      \* those whose connections are open
    rcall,     \* where each call stands
    work,      \* the instances a call cleans up or lists
    place,     \* the registry it took
    readAs,    \* the settings it read
    failing,   \* a clean-up of an apply failed
    warming,   \* the call that is the registry's own refresh, once it started
    lost       \* history: instances dropped by a registry, not cleaned up

regVars == <<version, published, cached, listed, made, open, rcall, work, place, readAs,
             failing, warming, lost>>

Registries == 0..MaxApplies
Made == 1..Len(made)

OfOneKindEach(is) == \A i, j \in is : made[i].kind = made[j].kind => i = j

RegTypeOK ==
    /\ version \in 0..MaxApplies /\ published \in Registries
    /\ cached \in [Registries -> SUBSET Made] /\ listed \in [Registries -> SUBSET Made]
    /\ made \in Seq([kind : Kinds, settings : 0..MaxApplies, late : BOOLEAN])
    /\ \A r \in Registries : OfOneKindEach(cached[r]) /\ OfOneKindEach(listed[r])
    /\ open \subseteq Made /\ lost \subseteq Made
    /\ rcall \in [RegCalls -> {"idle", "read", "using", "evict", "list", "cancel", "clear", "done"}]
    /\ warming \in {{}} \cup {{c} : c \in RegCalls}
    /\ work \in [RegCalls -> SUBSET Made] /\ place \in [RegCalls -> Registries]
    /\ readAs \in [RegCalls -> 0..MaxApplies] /\ failing \in [RegCalls -> BOOLEAN]

RegInit ==
    /\ version = 0 /\ published = 0 /\ made = <<>> /\ open = {} /\ lost = {} /\ warming = {}
    /\ cached = [r \in Registries |-> {}] /\ listed = [r \in Registries |-> {}]
    /\ rcall = [c \in RegCalls |-> "idle"] /\ work = [c \in RegCalls |-> {}]
    /\ place = [c \in RegCalls |-> 0] /\ readAs = [c \in RegCalls |-> 0]
    /\ failing = [c \in RegCalls |-> FALSE]

RegAt(c, pc) == rcall' = [rcall EXCEPT ![c] = pc]
Works(c, is) == work' = [work EXCEPT ![c] = is]
Of(is, ks) == {i \in is : made[i].kind \in ks}
SameSettings == UNCHANGED <<version, published, failing, warming>>

\* get() of the kinds ks by a call that read the settings v: the instances
\* that are missing are made and cached; none is when the credentials of one
\* are, and the caller fails or leaves it out.
Get(c, r, ks, v) ==
    LET missing == ks \ {made[i].kind : i \in cached[r]}
        new == Len(made) + 1 .. Len(made) + Cardinality(missing)
    IN \E order \in {o \in [new -> missing] : \A i, j \in new : o[i] = o[j] => i = j} :
           /\ Len(made) + Cardinality(missing) <= MaxMade
           /\ made' = made \o [n \in 1..Cardinality(missing) |->
                  [kind |-> order[Len(made) + n], settings |-> v, late |-> v < version]]
           /\ cached' = [cached EXCEPT ![r] = @ \cup new]
           /\ Works(c, Of(cached[r], ks) \cup new)

New == Len(made) + 1 .. Len(made')

\* The instances that are open after a step that closes those in closed, and
\* those nobody will clean up: made for a registry that is being cleaned up or
\* was replaced, or will be by an apply that took an earlier one.
Opened(closed) == open' = (open \ closed) \cup New
Overlooked(r) ==
    \/ r # published
    \/ \E d \in RegCalls : rcall[d] = "clear" \/ (rcall[d] = "cancel" /\ place[d] # r)
Lost(r, unclosed) == lost' = lost \cup unclosed \cup IF Overlooked(r) THEN New ELSE {}

-----------------------------------------------------------------------------
(* Requests.                                                               *)

\* The settings are a dependency of the route, read before its handler runs.
Arrives(c) ==
    /\ rcall[c] = "idle" /\ RegAt(c, "read") /\ readAs' = [readAs EXCEPT ![c] = version]
    /\ SameSettings /\ UNCHANGED <<cached, listed, made, open, work, place, lost>>

ResolveProvider(c) ==
    /\ rcall[c] = "read"
    /\ \/ \E k \in Kinds : Get(c, published, {k}, readAs[c]) /\ RegAt(c, "using")
       \/ RegAt(c, "done") /\ UNCHANGED <<made, cached, work>>
    /\ Opened({}) /\ Lost(published, {})
    /\ SameSettings /\ UNCHANGED <<listed, place, readAs>>

RequestEnds(c) ==
    /\ rcall[c] = "using" /\ RegAt(c, "done") /\ Works(c, {})
    /\ SameSettings /\ UNCHANGED <<cached, listed, made, open, place, readAs, lost>>

-----------------------------------------------------------------------------
(* The test of a provider and the refresh of the model lists.              *)

\* get() and the request for the list, or the failure of get().
Query(c, r, ks, v) ==
    \/ Get(c, r, ks, v) /\ RegAt(c, "list")
    \/ RegAt(c, "done") /\ Works(c, {}) /\ UNCHANGED <<made, cached>>

\* evict(): the clean-up of the instance it pops is awaited.
Evict(c, k) ==
    /\ rcall[c] = "idle" /\ RegAt(c, "evict")
    /\ place' = [place EXCEPT ![c] = published] /\ readAs' = [readAs EXCEPT ![c] = version]
    /\ cached' = [cached EXCEPT ![published] = @ \ Of(@, {k})]
    /\ listed' = [listed EXCEPT ![published] = @ \ Of(@, {k})]
    /\ Works(c, Of(cached[published], {k})) /\ Of(cached[published], {k}) # {}
    /\ SameSettings /\ UNCHANGED <<made, open, lost>>

\* The clean-up ends, or fails and closes nothing, and the test goes on.
Evicted(c, k) ==
    /\ rcall[c] = "evict" /\ k \in {made[i].kind : i \in work[c]}
    /\ \E closed \in {work[c], {}} :
           /\ Query(c, place[c], {k}, readAs[c])
           /\ Opened(closed) /\ Lost(place[c], work[c] \ closed)
    /\ SameSettings /\ UNCHANGED <<listed, place, readAs>>

\* A test of a provider that is not cached, or a refresh of the providers ks.
Lists(c, ks) ==
    /\ rcall[c] = "idle"
    /\ place' = [place EXCEPT ![c] = published] /\ readAs' = [readAs EXCEPT ![c] = version]
    /\ Query(c, published, ks, version) /\ Opened({}) /\ Lost(published, {})
    /\ SameSettings /\ UNCHANGED listed

\* The lists that were answered are kept, in the registry the call took.
Listed(c) ==
    /\ rcall[c] = "list" /\ RegAt(c, "done") /\ Works(c, {})
    /\ \E is \in SUBSET (work[c] \cap open) :
           listed' = [listed EXCEPT ![place[c]] =
                          {i \in @ : \A j \in is : made[i].kind # made[j].kind} \cup is]
    /\ SameSettings /\ UNCHANGED <<cached, made, open, place, readAs, lost>>

-----------------------------------------------------------------------------
(* What the start of the application lists in the background, before any   *)
(* request comes: the models of the providers that have none listed, by a  *)
(* task the registry keeps, and those of the providers the settings name.  *)

Starting == version = 0 /\ \A c \in RegCalls : rcall[c] = "idle" \/ c \in warming

StartRefresh(c) ==
    /\ Starting /\ warming = {} /\ warming' = {c}
    /\ \E ks \in SUBSET (Kinds \ {made[i].kind : i \in listed[0]}) :
           ks # {} /\ Query(c, 0, ks, 0)
    /\ Opened({}) /\ UNCHANGED <<version, published, failing, listed, place, readAs, lost>>

ValidateConfigured(c) ==
    /\ Starting /\ rcall[c] = "idle"
    /\ \E ks \in (SUBSET Kinds) \ {{}} : Query(c, 0, ks, 0)
    /\ Opened({}) /\ SameSettings /\ UNCHANGED <<listed, place, readAs, lost>>

-----------------------------------------------------------------------------
(* The settings are applied.                                               *)

\* Once its instances are cleaned up the registry is cleared, of instances
\* cached meanwhile too, and replaced by an empty one, if nothing failed.
Replace(c, r, failed) ==
    /\ RegAt(c, "done") /\ Works(c, {})
    /\ cached' = [cached EXCEPT ![r] = {}] /\ listed' = [listed EXCEPT ![r] = {}]
    /\ published' = IF failed THEN published ELSE published + 1

\* The clean-up takes the instances that are cached when it begins.
BeginCleanUp(c, r) ==
    IF cached[r] = {}
    THEN Replace(c, r, FALSE)
    ELSE RegAt(c, "clear") /\ Works(c, cached[r]) /\ UNCHANGED <<cached, listed, published>>

\* The refresh of the registry, if it runs: cancelled, and waited for, it
\* keeps none of its lists.
Refreshing == {d \in warming : rcall[d] = "list" /\ place[d] = published}

Apply(c) ==
    /\ rcall[c] = "idle" /\ version < MaxApplies /\ version' = version + 1
    /\ place' = [place EXCEPT ![c] = published]
    /\ IF Refreshing = {}
       THEN BeginCleanUp(c, published)
       ELSE /\ rcall' = [d \in RegCalls |-> IF d \in Refreshing THEN "done"
                                            ELSE IF d = c THEN "cancel" ELSE rcall[d]]
            /\ work' = [d \in RegCalls |-> IF d \in Refreshing THEN {} ELSE work[d]]
            /\ UNCHANGED <<cached, listed, published>>
    /\ UNCHANGED <<made, open, readAs, failing, warming, lost>>

RefreshCancelled(c) ==
    /\ rcall[c] = "cancel" /\ BeginCleanUp(c, place[c])
    /\ UNCHANGED <<version, made, open, place, readAs, failing, warming, lost>>

\* Mutant: the first clean-up that fails ends the clean-up of the registry.
CleanUpUntilError(c, i) ==
    /\ rcall[c] = "clear" /\ i \in work[c]
    /\ \E error \in BOOLEAN :
           /\ open' = IF error THEN open ELSE open \ {i}
           /\ lost' = IF error THEN lost \cup {i} ELSE lost
           /\ failing' = [failing EXCEPT ![c] = @ \/ error]
    /\ IF work[c] = {i} \/ failing'[c]
       THEN Replace(c, place[c], failing'[c])
       ELSE Works(c, work[c] \ {i}) /\ UNCHANGED <<cached, listed, published, rcall>>
    /\ UNCHANGED <<version, made, place, readAs, warming>>

\* cleanup(): one instance after the other, whichever fails.
CleanUp(c, i) ==
    /\ rcall[c] = "clear" /\ i \in work[c]
    /\ \E error \in BOOLEAN :
           /\ open' = IF error THEN open ELSE open \ {i}
           /\ lost' = IF error THEN lost \cup {i} ELSE lost
           /\ failing' = [failing EXCEPT ![c] = @ \/ error]
    /\ IF work[c] = {i}
       THEN Replace(c, place[c], failing'[c])
       ELSE Works(c, work[c] \ {i}) /\ UNCHANGED <<cached, listed, published, rcall>>
    /\ UNCHANGED <<version, made, place, readAs, warming>>

RegNext ==
    \E c \in RegCalls :
        \/ Arrives(c) \/ ResolveProvider(c) \/ RequestEnds(c) \/ Listed(c) \/ Apply(c)
        \/ StartRefresh(c) \/ ValidateConfigured(c) \/ RefreshCancelled(c)
        \/ \E k \in Kinds : Evict(c, k) \/ Evicted(c, k)
        \/ \E ks \in (SUBSET Kinds) \ {{}} : Lists(c, ks)
        \/ \E i \in Made : CleanUp(c, i)

-----------------------------------------------------------------------------
(* Properties.                                                             *)

Applying == \E c \in RegCalls : rcall[c] \in {"cancel", "clear"}

Late(i) == made[i].late
Fresh(i) == made[i].settings = version

\* Once an apply has ended, no provider and no model list of the published
\* registry is of earlier settings: but for those of a call that had read its
\* settings before the apply and resolved its provider after it, and for lists
\* answered after an apply that failed to replace the registry.
FreshRegistry ==
    \/ Applying
    \/ /\ \A i \in cached[published] : Fresh(i) \/ Late(i)
       /\ \A i \in listed[published] : Fresh(i) \/ Late(i) \/ \E c \in RegCalls : failing[c]

\* The connections of an instance that no registry holds any more are closed,
\* or about to be: unless its own clean-up failed, or it was made while a
\* registry was being cleaned up, for one that was replaced, or while an apply
\* was under way that had taken an earlier one.
NothingLeaked ==
    open \subseteq cached[published] \cup lost
                   \cup UNION {work[c] : c \in {d \in RegCalls : rcall[d] \in {"evict", "clear"}}}

\* What the registry keeps of its providers across changes of the settings.
RegistryKept == RegTypeOK /\ FreshRegistry /\ NothingLeaked
=============================================================================
