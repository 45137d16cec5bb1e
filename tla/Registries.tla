------------------------------- MODULE Registries -------------------------------
(***************************************************************************)
(* What the SDK looks up: contracts by their capabilities, declared and    *)
(* detected, the adapters that serve them, feature flags, and decoded XDR. *)
(***************************************************************************)
EXTENDS Naturals, Sequences, SequencesExt, FiniteSets, FiniteSetsExt, Functions

(***************************************************************************)
(* CapabilityRegistry (src/registry/capabilityRegistry.ts) and             *)
(* CapabilityDetector (src/capabilities/capabilityDetector.ts), which      *)
(* keeps what it has detected by the id or type of the contract and its    *)
(* ABI, or by a key of the caller.  What a result is made of is cloned on  *)
(* its way out, so it is the value it was.                                 *)
(***************************************************************************)
CONSTANTS
    Descriptors,    \* [type, id, methods], methods being pairs of name and capability
    NoContractId,   \* the id of a descriptor without one
    Abis,           \* sets of method names
    CacheKeys,      \* keys a caller may give
    MaxRegistrations, MaxDetections     \* bounds

\* Ids are addresses, which are no types, and a caller gives keys of its own.
ASSUME CapabilityAssumption ==
    \A d, e \in Descriptors : d.id # e.type /\ {d.id, d.type} \cap CacheKeys = {}

VARIABLES
    knownContracts,      \* descriptor by type and id
    registrations,  \* history: descriptors in the order they were registered
    detections,     \* the cache
    askedOf,        \* history: what was asked since the cache was cleared: [key, descriptor, abi]
    detection       \* history: the last detection, with its result

cdVars == <<knownContracts, registrations, detections, askedOf, detection>>

NoKey == "none"
NoDetection == [key |-> <<>>]

CDInit == knownContracts = <<>> /\ registrations = <<>> /\ detections = <<>> /\ askedOf = <<>> /\ detection = NoDetection

IsValid(descriptor) == descriptor.methods # {}

RegisterDescriptor(descriptor) ==
    /\ Len(registrations) < MaxRegistrations
    /\ IsValid(descriptor)
    /\ knownContracts' = [k \in DOMAIN knownContracts \cup ({descriptor.type, descriptor.id} \ {NoContractId}) |->
                        IF k \in {descriptor.type, descriptor.id} THEN descriptor ELSE knownContracts[k]]
    /\ registrations' = Append(registrations, descriptor)
    /\ UNCHANGED <<detections, askedOf, detection>>

\* A capability is supported if all of the methods it is declared for are there.
BuildResult(descriptor, abi) ==
    LET declared == {m[2] : m \in descriptor.methods}
        missing == {m[2] : m \in {n \in descriptor.methods : n[1] \notin abi}}
    IN [supported |-> declared \ missing, missing |-> missing,
        undeclared |-> abi \ {m[1] : m \in descriptor.methods}]

CacheKeyFor(descriptor, abi) ==
    <<IF descriptor.id # NoContractId THEN descriptor.id ELSE descriptor.type, abi>>

\* A descriptor is looked at before the cache is, unless the caller says otherwise.
Detect(descriptor, abi, given, validate) ==
    LET key == IF given # NoKey THEN <<given, {}>> ELSE CacheKeyFor(descriptor, abi)
        result == IF key \in DOMAIN detections THEN detections[key] ELSE BuildResult(descriptor, abi)
    IN /\ Len(askedOf) < MaxDetections
       /\ validate => IsValid(descriptor)
       /\ detections' = [k \in DOMAIN detections \cup {key} |-> IF k = key THEN result ELSE detections[k]]
       /\ detection' = [key |-> key, custom |-> given # NoKey, descriptor |-> descriptor, abi |-> abi,
                        result |-> result]
       /\ askedOf' = Append(askedOf, [key |-> key, descriptor |-> descriptor, abi |-> abi])
       /\ UNCHANGED <<knownContracts, registrations>>

ClearDetections ==
    /\ detections' = <<>> /\ askedOf' = <<>> /\ detection' = NoDetection
    /\ UNCHANGED <<knownContracts, registrations>>

CDNext ==
    \/ ClearDetections
    \/ \E descriptor \in Descriptors :
          \/ RegisterDescriptor(descriptor)
          \/ \E abi \in Abis, given \in CacheKeys \cup {NoKey}, validate \in BOOLEAN :
                Detect(descriptor, abi, given, validate)

CDTypeOK ==
    /\ Range(knownContracts) \subseteq Descriptors
    /\ registrations \in Seq(Descriptors)
    /\ DOMAIN detections \subseteq {a.key : a \in ToSet(askedOf)}

\* A contract is found under its type and its id as it was registered last, by
\* either; and a detection answers what was asked first under its key: by default
\* about this very ABI, though perhaps by an older descriptor of the contract.
CapabilitiesCurrent ==
    /\ \A k \in DOMAIN knownContracts :
          \E i \in DOMAIN registrations :
              /\ knownContracts[k] = registrations[i] /\ k \in {registrations[i].type, registrations[i].id}
              /\ \A j \in DOMAIN registrations :
                    k \in {registrations[j].type, registrations[j].id} => j <= i
    /\ \A d \in ToSet(registrations) : {d.type, d.id} \ {NoContractId} \subseteq DOMAIN knownContracts
    /\ detection # NoDetection =>
          \E i \in DOMAIN askedOf :
              LET first == askedOf[i] IN
              /\ first.key = detection.key /\ \A j \in 1..(i - 1) : askedOf[j].key # detection.key
              /\ detection.result = BuildResult(first.descriptor, first.abi)
              /\ ~detection.custom =>
                    /\ first.abi = detection.abi
                    /\ first.descriptor.id = detection.descriptor.id
                    /\ detection.descriptor.id = NoContractId => first.descriptor.type = detection.descriptor.type

-------------------------------------------------------------------------------
(***************************************************************************)
(* AdapterRegistry (src/adapters/adapterRegistry.ts).  findAdapter goes    *)
(* through the live Map and awaits each adapter.  A Map keeps its places   *)
(* in order: a name set again stays in its place, one deleted leaves it    *)
(* empty, and one added after that gets a new place at the end.            *)
(***************************************************************************)
CONSTANTS
    AdapterNames,
    MaxAdapters     \* bound: adapters registered in all

ASSUME AdaptersAssumption == MaxAdapters \in Nat

VARIABLES
    adapters,       \* the places: [name, adapter], adapter NoAdapter for an empty one
    made,           \* history: adapters registered so far, which are numbered
    supporting,     \* external: those that support the contract
    configured,     \* the default the registry was made with
    defaultName,
    search,         \* findAdapter: [place, adapter, outcome]
    throughout      \* history: adapters registered when the search began and ever since

arVars == <<adapters, made, supporting, configured, defaultName, search, throughout>>

NoName == "null"
NoAdapter == 0
Places(name) == {i \in DOMAIN adapters : adapters[i].name = name /\ adapters[i].adapter # NoAdapter}
Adapters(places) == {places[i].adapter : i \in DOMAIN places} \ {NoAdapter}

ARInit ==
    /\ adapters = <<>>
    /\ made = 0
    /\ supporting \in SUBSET (1..MaxAdapters)
    /\ configured \in AdapterNames \cup {NoName}
    /\ defaultName = configured
    /\ search = [place |-> 0, adapter |-> NoAdapter, outcome |-> "none"]
    /\ throughout = {}

Replaced(places) ==
    /\ adapters' = places
    /\ throughout' = throughout \cap Adapters(places)

RegisterAdapter(name) ==
    /\ made < MaxAdapters
    /\ made' = made + 1
    /\ Replaced(IF Places(name) # {} THEN [i \in DOMAIN adapters |->
                        IF i \in Places(name) THEN [adapters[i] EXCEPT !.adapter = made'] ELSE adapters[i]]
                ELSE Append(adapters, [name |-> name, adapter |-> made']))
    /\ defaultName' = IF defaultName = NoName THEN name ELSE defaultName
    /\ UNCHANGED <<supporting, configured, search>>

UnregisterAdapter(name) ==
    /\ Replaced([i \in DOMAIN adapters |->
                    IF i \in Places(name) THEN [adapters[i] EXCEPT !.adapter = NoAdapter] ELSE adapters[i]])
    /\ defaultName' = IF defaultName = name THEN NoName ELSE defaultName
    /\ UNCHANGED <<made, supporting, configured, search>>

SetDefault(name) ==
    /\ Places(name) # {}
    /\ defaultName' = name
    /\ UNCHANGED <<adapters, made, supporting, configured, search, throughout>>

\* The first place after one that is not empty is asked next; without one the
\* search has found nothing.
AskNext(place) ==
    LET next == {i \in DOMAIN adapters : i > place /\ adapters[i].adapter # NoAdapter} IN
    IF next = {} THEN [place |-> place, adapter |-> NoAdapter, outcome |-> "nothing"]
    ELSE LET i == CHOOSE j \in next : \A k \in next : j <= k
         IN [place |-> i, adapter |-> adapters[i].adapter, outcome |-> "asking"]

FindAdapter ==
    /\ search.outcome = "none"
    /\ search' = AskNext(0)
    /\ throughout' = Adapters(adapters)
    /\ UNCHANGED <<adapters, made, supporting, configured, defaultName>>

\* supports answers, or throws and ends the search.
Supports ==
    /\ search.outcome = "asking"
    /\ \/ search' = [search EXCEPT !.outcome = "threw"]
       \/ search' = IF search.adapter \in supporting THEN [search EXCEPT !.outcome = "found"]
                    ELSE AskNext(search.place)
    /\ UNCHANGED <<adapters, made, supporting, configured, defaultName, throughout>>

ARNext ==
    \/ FindAdapter \/ Supports
    \/ \E name \in AdapterNames : RegisterAdapter(name) \/ UnregisterAdapter(name) \/ SetDefault(name)

AROver == search.outcome # "asking"

ARTypeOK ==
    /\ adapters \in Seq([name : AdapterNames, adapter : 0..MaxAdapters])
    /\ supporting \subseteq 1..MaxAdapters
    /\ {configured, defaultName} \subseteq AdapterNames \cup {NoName}
    /\ search.adapter \in 0..MaxAdapters
    /\ throughout \subseteq Adapters(adapters)

\* Whatever is registered and unregistered while adapters are asked, one that is
\* found supports the contract, and if none is, none that was there all the while
\* does.  No name is registered twice, and the default is registered unless it
\* has been there from the start.
AdapterFound ==
    /\ search.outcome = "found" => search.adapter \in supporting
    /\ search.outcome = "nothing" => throughout \cap supporting = {}
    /\ \A name \in AdapterNames : Cardinality(Places(name)) <= 1
    /\ defaultName \notin {NoName, configured} => Places(defaultName) # {}

-------------------------------------------------------------------------------
(***************************************************************************)
(* FeatureFlagsService (src/features/flags.ts), and the function that      *)
(* evaluates a flag apart from it (src/features/evaluation.ts).  A flag    *)
(* has one of the four stabilities, so its default value is never used.    *)
(***************************************************************************)
CONSTANTS
    FlagKeys,
    BuiltInKeys     \* those of them that are built in

ASSUME FlagsAssumption == BuiltInKeys \subseteq FlagKeys

VARIABLES
    definitions,    \* stability by key
    overrides,      \* "on" or "off" by key
    policy,         \* the stabilities it allows
    decided         \* history: what was said of each key since it, or all, were last reset

ffVars == <<definitions, overrides, policy, decided>>

Stabilities == {"stable", "beta", "experimental", "deprecated"}
Policies == SUBSET {"beta", "experimental", "deprecated"}
DefaultPolicy == {}
Open == "open"
With(f, key, value) == [k \in DOMAIN f \cup {key} |-> IF k = key THEN value ELSE f[k]]

\* The configuration may have overrides of flags that nobody has registered yet.
FFInit ==
    /\ definitions \in [BuiltInKeys -> Stabilities]
    /\ overrides \in UNION {[K -> {"on", "off"}] : K \in SUBSET FlagKeys}
    /\ policy \in Policies
    /\ decided = [k \in FlagKeys |-> IF k \in DOMAIN overrides THEN overrides[k] ELSE Open]

RegisterFlag(key, stability) ==
    /\ key \notin DOMAIN definitions
    /\ definitions' = With(definitions, key, stability)
    /\ UNCHANGED <<overrides, policy, decided>>

UnregisterFlag(key) ==
    /\ definitions' = Restrict(definitions, DOMAIN definitions \ {key})
    /\ overrides' = Restrict(overrides, DOMAIN overrides \ {key})
    /\ decided' = [decided EXCEPT ![key] = Open]
    /\ UNCHANGED policy

\* enable and disable
Override(key, value) ==
    /\ key \in DOMAIN definitions
    /\ overrides' = With(overrides, key, value)
    /\ decided' = [decided EXCEPT ![key] = value]
    /\ UNCHANGED <<definitions, policy>>

ResetFlag(key) ==
    /\ key \in DOMAIN definitions
    /\ overrides' = Restrict(overrides, DOMAIN overrides \ {key})
    /\ decided' = [decided EXCEPT ![key] = Open]
    /\ UNCHANGED <<definitions, policy>>

\* Forgets the configuration too.
ResetAll ==
    /\ overrides' = <<>>
    /\ policy' = DefaultPolicy
    /\ decided' = [k \in FlagKeys |-> Open]
    /\ UNCHANGED definitions

SetPolicy(allowed) == policy' = allowed /\ UNCHANGED <<definitions, overrides, decided>>

FFNext ==
    \/ ResetAll
    \/ \E allowed \in Policies : SetPolicy(allowed)
    \/ \E key \in FlagKeys :
          \/ UnregisterFlag(key) \/ ResetFlag(key)
          \/ \E value \in {"on", "off"} : Override(key, value)
          \/ \E stability \in Stabilities : RegisterFlag(key, stability)

\* isEnabled, with evaluateAgainstPolicy.
IsEnabled(key) ==
    /\ key \in DOMAIN definitions
    /\ IF key \in DOMAIN overrides THEN overrides[key] = "on"
       ELSE definitions[key] = "stable" \/ definitions[key] \in policy

\* What getState reports of a flag.
FlagState(key) == [enabled |-> IsEnabled(key), isOverridden |-> key \in DOMAIN overrides]

EvaluateFeature(stability, allowed, override) ==
    override = "on" \/ (override = Open /\ (stability = "stable" \/ stability \in allowed))

FFTypeOK ==
    /\ DOMAIN definitions \cup DOMAIN overrides \subseteq FlagKeys
    /\ Range(definitions) \subseteq Stabilities /\ Range(overrides) \subseteq {"on", "off"}
    /\ policy \in Policies

\* Through registering, unregistering and resetting in any order, the service
\* reports of a flag what the function makes of the last decision about it, and
\* nothing said of a flag before it was unregistered is left when it comes back.
FlagsFollowDecisions ==
    \A key \in DOMAIN definitions :
        FlagState(key) = [enabled |-> EvaluateFeature(definitions[key], policy, decided[key]),
                          isOverridden |-> decided[key] # Open]

(***************************************************************************)
(* decodeXdrBase64 and its cache (src/utils/xdrCache.ts).  The cache is a  *)
(* Map, whose order is that of insertion; a hit inserts anew.  What an     *)
(* input decodes to is a function of it, so the cache is its inputs.       *)
(***************************************************************************)
CONSTANTS
    XdrInputs,
    Undecodable,    \* those that assertValidXDR or fromXDR refuses
    MaxCacheSize

ASSUME XdrAssumption == Undecodable \subseteq XdrInputs /\ MaxCacheSize \in Nat \ {0}

VARIABLES
    xdrCache,       \* the keys of the cache, in order
    decodes         \* history: inputs decoded since the cache was cleared, in the order
                    \* each was last asked for

xcVars == <<xdrCache, decodes>>

XCInit == xdrCache = <<>> /\ decodes = <<>>

MoveLast(keys, input) ==
    LET at == {k \in DOMAIN keys : keys[k] = input}
    IN  Append(IF at = {} THEN keys ELSE RemoveAt(keys, Min(at)), input)

\* A miss makes room first: for one, by the first key.  An error caches nothing.
DecodeXdr(input) ==
    /\ IF input \in ToSet(xdrCache) THEN xdrCache' = MoveLast(xdrCache, input)
       ELSE /\ input \notin Undecodable
            /\ xdrCache' = Append(IF Len(xdrCache) >= MaxCacheSize THEN Tail(xdrCache) ELSE xdrCache, input)
    /\ decodes' = MoveLast(decodes, input)

ClearXdrCache == xdrCache' = <<>> /\ decodes' = <<>>

XCNext == ClearXdrCache \/ \E input \in XdrInputs : DecodeXdr(input)

-------------------------------------------------------------------------------
XCTypeOK == xdrCache \in Seq(XdrInputs) /\ decodes \in Seq(XdrInputs \ Undecodable)

\* Whatever is asked for in whatever order, the cache holds those asked for last,
\* as many as it has room for, in that order: nothing is evicted but the one whose
\* last use is the longest ago.
CacheKeepsLatest ==
    xdrCache = SubSeq(decodes, Max({0, Len(decodes) - MaxCacheSize}) + 1, Len(decodes))
===============================================================================
