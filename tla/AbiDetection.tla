----------------------------- MODULE AbiDetection -----------------------------
(***************************************************************************)
(* Which ABI version a deployed contract has (axionvera-abi-versioning):   *)
(* the registry of versions, detectVersion with its probes, and the        *)
(* adapter that caches what was detected.  Each probe is awaited, while    *)
(* versions come and go, the contract is upgraded and the cache cleared.   *)
(*                                                                         *)
(* One logical contract, deployed once, is modelled: the others touch      *)
(* neither its versions nor its cache entry.  A descriptor is the set of   *)
(* methods that tell its version.  The contract itself is external.        *)
(***************************************************************************)
EXTENDS Naturals, Sequences, SequencesExt, FiniteSets, FiniteSetsExt

CONSTANTS
    AbiVersions,
    RawMethods,
    MethodSets,     \* what a descriptor and a contract may have of them
    Tags,           \* what contracts may call themselves
    Fallbacks,      \* fallback versions adapters may be made with
    AbiCalls,       \* bound: calls of read and write
    MaxChanges      \* bound: changes of the registry or the contract

NoVersion == "none"

ASSUME AbiAssumption ==
    /\ MethodSets \subseteq SUBSET RawMethods
    /\ NoVersion \notin AbiVersions
    /\ Tags \cup Fallbacks \subseteq AbiVersions \cup {NoVersion}
    /\ AbiCalls \in Nat /\ MaxChanges \in Nat

VARIABLES
    descriptors,    \* versionsByContract: from versions to their descriptors
    order,          \* orderByContract
    deployed,       \* the contract: its methods, and the version it calls itself
    fallback,       \* fallbackVersion, or NoVersion
    detected,       \* the adapter's cache entry, or NoVersion
    abiCall,        \* per call: its stage, the versions yet to try, the methods yet to
                    \* probe of the first of them, the version resolved, and, as history,
                    \* the changes made before it began to detect
    changes,        \* changes so far
    detectedAfter   \* history: changes made before the detection of the cache entry

adVars == <<descriptors, order, deployed, fallback, detected, abiCall, changes, detectedAfter>>

NewCall == [stage |-> "idle", left |-> <<>>, toProbe |-> {}, version |-> NoVersion, began |-> 0]

Contract == [methods : MethodSets, tag : Tags]

\* One version has been registered when the adapter is made.
Registries == {<<[w \in {v} |-> methods], <<v>>>> : v \in AbiVersions, methods \in MethodSets}

ADInit ==
    /\ \E r \in Registries : descriptors = r[1] /\ order = r[2]
    /\ deployed \in Contract
    /\ fallback \in Fallbacks
    /\ detected = NoVersion
    /\ abiCall = [c \in 1..AbiCalls |-> NewCall]
    /\ changes = 0
    /\ detectedAfter = 0

CountChange == changes < MaxChanges /\ changes' = changes + 1

RegisterVersion(v, methods) ==
    /\ CountChange
    /\ descriptors' = [w \in DOMAIN descriptors \cup {v} |-> IF w = v THEN methods ELSE descriptors[w]]
    /\ order' = IF v \in ToSet(order) THEN order ELSE Append(order, v)
    /\ UNCHANGED <<deployed, fallback, detected, abiCall, detectedAfter>>

\* A version is in the order once, so the filter takes one place out of it.
UnregisterVersion(v) ==
    /\ v \in DOMAIN descriptors
    /\ CountChange
    /\ descriptors' = [w \in DOMAIN descriptors \ {v} |-> descriptors[w]]
    /\ order' = RemoveAt(order, CHOOSE k \in DOMAIN order : order[k] = v)
    /\ UNCHANGED <<deployed, fallback, detected, abiCall, detectedAfter>>

\* The contract is upgraded in place.
Upgrade(methods, tag) ==
    /\ CountChange
    /\ deployed' = [methods |-> methods, tag |-> tag]
    /\ UNCHANGED <<descriptors, order, fallback, detected, abiCall, detectedAfter>>

Invalidate ==
    /\ detected' = NoVersion
    /\ detectedAfter' = 0
    /\ UNCHANGED <<descriptors, order, deployed, fallback, abiCall, changes>>

SetCall(c, call) == abiCall' = [abiCall EXCEPT ![c] = call]

\* read, write: resolveVersion looks into the cache, and else begins to detect.
\* (Calls are numbered in the order they begin.)
BeginCall(c) ==
    /\ abiCall[c].stage = "idle" /\ \A b \in 1..(c - 1) : abiCall[b].stage # "idle"
    /\ SetCall(c, IF detected # NoVersion
                  THEN [abiCall[c] EXCEPT !.stage = "resolved", !.version = detected]
                  ELSE [abiCall[c] EXCEPT !.stage = "tag", !.began = changes])
    /\ UNCHANGED <<descriptors, order, deployed, fallback, detected, changes, detectedAfter>>

\* The detection ends, and its result is cached, whatever the cache holds by now.
Detected(c, v) ==
    /\ SetCall(c, [NewCall EXCEPT !.stage = "resolved", !.version = v])
    /\ detected' = v
    /\ detectedAfter' = abiCall[c].began

\* No version answers: the fallback, or an AbiVersionDetectionError.
Undetected(c) ==
    IF fallback # NoVersion THEN Detected(c, fallback)
    ELSE /\ SetCall(c, [NewCall EXCEPT !.stage = "over"])
         /\ UNCHANGED <<detected, detectedAfter>>

\* The places of versions that can be probed: registered still, and with a method
\* to probe.
Probable(versions) ==
    {k \in DOMAIN versions : versions[k] \in DOMAIN descriptors /\ descriptors[versions[k]] # {}}

\* The loop goes on with the versions left, newest first.
TryNext(c, versions) ==
    IF Probable(versions) = {} THEN Undetected(c)
    ELSE LET next == Min(Probable(versions))
         IN  /\ SetCall(c, [abiCall[c] EXCEPT !.stage = "probing", !.toProbe = descriptors[versions[next]],
                                              !.left = SubSeq(versions, next, Len(versions))])
             /\ UNCHANGED <<detected, detectedAfter>>

\* readExplicitVersion answers (a probe without one is a contract without a tag).
TagAnswers(c) ==
    /\ abiCall[c].stage = "tag"
    /\ IF deployed.tag \in DOMAIN descriptors THEN Detected(c, deployed.tag)
       ELSE TryNext(c, Reverse(order))
    /\ UNCHANGED <<descriptors, order, deployed, fallback, changes>>

\* hasMethod answers; in what order the methods are probed is left open.
MethodAnswers(c, m) ==
    /\ abiCall[c].stage = "probing" /\ m \in abiCall[c].toProbe
    /\ IF m \notin deployed.methods THEN TryNext(c, Tail(abiCall[c].left))
       ELSE IF abiCall[c].toProbe = {m} THEN Detected(c, Head(abiCall[c].left))
       ELSE /\ SetCall(c, [abiCall[c] EXCEPT !.toProbe = @ \ {m}])
            /\ UNCHANGED <<detected, detectedAfter>>
    /\ UNCHANGED <<descriptors, order, deployed, fallback, changes>>

ProbeFails(c) ==
    /\ abiCall[c].stage \in {"tag", "probing"}
    /\ SetCall(c, [NewCall EXCEPT !.stage = "over"])
    /\ UNCHANGED <<descriptors, order, deployed, fallback, detected, changes, detectedAfter>>

\* read and write go on: the version is required of the registry, as it is now,
\* and the request made, or refused.
UseVersion(c) ==
    /\ abiCall[c].stage = "resolved"
    /\ SetCall(c, [NewCall EXCEPT
                     !.stage = IF abiCall[c].version \in DOMAIN descriptors THEN "over" ELSE "unsupported"])
    /\ UNCHANGED <<descriptors, order, deployed, fallback, detected, changes, detectedAfter>>

\* A probe of the call is answered, or fails.
ProbeAnswered(c) == TagAnswers(c) \/ ProbeFails(c) \/ \E m \in RawMethods : MethodAnswers(c, m)

ADSystem == \E c \in 1..AbiCalls : ProbeAnswered(c) \/ UseVersion(c)
ADNext ==
    \/ ADSystem
    \/ \E c \in 1..AbiCalls : BeginCall(c)
    \/ Invalidate
    \/ \E v \in AbiVersions :
          UnregisterVersion(v) \/ \E methods \in MethodSets : RegisterVersion(v, methods)
    \/ \E methods \in MethodSets, tag \in Tags : Upgrade(methods, tag)

ADOver(c) == abiCall[c].stage \in {"idle", "over", "unsupported"}

-------------------------------------------------------------------------------
ADTypeOK ==
    /\ descriptors \in [DOMAIN descriptors -> MethodSets] /\ DOMAIN descriptors \subseteq AbiVersions
    /\ order \in Seq(AbiVersions)
    /\ deployed \in Contract
    /\ {fallback, detected} \subseteq AbiVersions \cup {NoVersion}
    /\ abiCall \in [1..AbiCalls -> [stage : {"idle", "tag", "probing", "resolved", "over", "unsupported"},
                                 left : Seq(AbiVersions), toProbe : SUBSET RawMethods,
                                 version : AbiVersions \cup {NoVersion}, began : 0..MaxChanges]]
    /\ {changes, detectedAfter} \subseteq 0..MaxChanges

\* What detection is to find: the tag, or the newest version all of whose methods
\* are there, or the fallback.
Telling == {k \in Probable(order) : descriptors[order[k]] \subseteq deployed.methods}
Deployed == IF deployed.tag \in DOMAIN descriptors THEN deployed.tag
            ELSE IF Telling # {} THEN order[Max(Telling)] ELSE fallback

\* Whichever detections overlap and whenever the cache is cleared, the version in
\* the cache is the deployed one, unless something has changed since its detection
\* began; the versions are tried in the order in which they came to be registered.
VersionCurrent ==
    /\ IsInjective(order) /\ ToSet(order) = DOMAIN descriptors
    /\ detected # NoVersion /\ detectedAfter = changes => detected = Deployed
===============================================================================
