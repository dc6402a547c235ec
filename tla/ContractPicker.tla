----------------------------- MODULE ContractPicker -----------------------------
(***************************************************************************)
(* The target field of the home page: what the user types is looked up, or *)
(* searched for, after a pause, and the operation to stage is built for    *)
(* the contract the last answer resolved                                   *)
(* (features/operations/components/HomeOperationsWorkspace.vue,            *)
(* services/contractLookupService.js).                                     *)
(***************************************************************************)
EXTENDS Naturals, FiniteSets

CONSTANTS
  Nothing,        \* an empty field, no contract
  Contract,       \* contracts on chain
  Method,         \* method names
  Name,           \* what a user types
  NamedBy,        \* [Name -> Contract]: what a name resolves to
  MethodsOf,      \* [Contract -> SUBSET Method]: the ABI of a contract
  Literal,        \* names that are a hash or an address
  Searched,       \* names that are only searched for; the others are domains
  MaxLookups      \* bound on the lookups awaited at once

VARIABLES
  target,         \* targetContract: the field
  resolved,       \* resolvedContractHash
  methods,        \* methodOptions
  method,         \* the method chosen
  suggestions,    \* contractSuggestions
  timer,          \* the pause runs; it holds the name it will look up
  lookups         \* requests awaited; one of them is the latest at most

vars == <<target, resolved, methods, method, suggestions, timer, lookups>>

Init ==
  /\ target = Nothing /\ resolved = Nothing /\ methods = {} /\ method = Nothing
  /\ suggestions = {} /\ timer = FALSE /\ lookups = {}

(* A new request id supersedes the requests before it. *)
Supersede_KeepsEarlier(kind, n) ==
  lookups \cup {[kind |-> kind, name |-> n, current |-> TRUE]}
Supersede(kind, n) ==
  {[l EXCEPT !.current = FALSE] : l \in lookups}
    \cup {[kind |-> kind, name |-> n, current |-> TRUE]}

(* The watch of the field. *)
TypeTarget(n) ==
  /\ n # target
  /\ target' = n
  /\ suggestions' = {}
  /\ timer' = (n # Nothing)
  /\ resolved' = IF n = Nothing THEN Nothing ELSE resolved
  /\ methods' = IF n = Nothing THEN {} ELSE methods
  /\ UNCHANGED <<method, lookups>>

TimerFires ==
  /\ timer
  /\ Cardinality(lookups) < MaxLookups
  /\ timer' = FALSE
  /\ lookups' = Supersede(IF target \in Searched THEN "search" ELSE "manifest", target)
  /\ UNCHANGED <<target, resolved, methods, method, suggestions>>

(* A method the new contract lacks is dropped, an only one chosen. *)
MethodKept(options) ==
  LET kept == IF method \in options THEN method ELSE Nothing
  IN  IF kept = Nothing /\ Cardinality(options) = 1
        THEN CHOOSE m \in options : TRUE
        ELSE kept

(* A resolved contract may have no manifest to show. *)
RefreshContractMethods(l, found, options) ==
  /\ l \in lookups /\ l.kind = "manifest"
  /\ options \in {{}, MethodsOf[NamedBy[l.name]]}
  /\ lookups' = lookups \ {l}
  /\ IF ~l.current
       THEN UNCHANGED <<resolved, methods, method, suggestions>>
       ELSE IF found
       THEN /\ resolved' = NamedBy[l.name]
            /\ methods' = options
            /\ method' = MethodKept(options)
            /\ suggestions' = {}
       ELSE /\ resolved' = Nothing
            /\ methods' = {}
            /\ UNCHANGED <<method, suggestions>>
  /\ UNCHANGED <<target, timer>>

(* A search finds whatever resembles the name; one that fails keeps the     *)
(* contract resolved before.                                                *)
SearchContractsByName(l, answered, found) ==
  /\ l \in lookups /\ l.kind = "search"
  /\ lookups' = lookups \ {l}
  /\ suggestions' = IF l.current THEN found ELSE suggestions
  /\ IF l.current /\ answered
       THEN resolved' = Nothing /\ methods' = {}
       ELSE found = {} /\ UNCHANGED <<resolved, methods>>
  /\ UNCHANGED <<target, timer, method>>

(* The field shows the name of the contract, or its hash, so its watch      *)
(* starts a search for it while the contract's manifest is loaded.          *)
SelectContractSuggestion(c, n) ==
  /\ c \in suggestions
  /\ NamedBy[n] = c
  /\ Cardinality(lookups) < MaxLookups
  /\ target' = n
  /\ resolved' = c
  /\ suggestions' = {}
  /\ lookups' = Supersede("manifest", n)
  /\ timer' = (timer \/ n # target)
  /\ UNCHANGED <<methods, method>>

ChooseMethod(m) ==
  /\ m \in methods \ {method}
  /\ method' = m
  /\ UNCHANGED <<target, resolved, methods, suggestions, timer, lookups>>

Next ==
  \/ \E n \in Name \cup {Nothing} : TypeTarget(n)
  \/ TimerFires
  \/ \E l \in lookups, found \in BOOLEAN, options \in SUBSET Method :
       RefreshContractMethods(l, found, options)
  \/ \E l \in lookups, answered \in BOOLEAN, found \in SUBSET Contract :
       SearchContractsByName(l, answered, found)
  \/ \E c \in Contract, n \in Name : SelectContractSuggestion(c, n)
  \/ \E m \in Method : ChooseMethod(m)

Spec == Init /\ [][Next]_vars

(* invokeTargetContract: the resolved contract first; what the field says   *)
(* only when no contract is resolved.                                       *)
InvokeTargetContract ==
  IF resolved # Nothing THEN resolved
  ELSE IF target \in Literal THEN NamedBy[target] ELSE Nothing

-----------------------------------------------------------------------------
(* When no request is under way, calls go to the contract the field names,  *)
(* if anywhere, and the methods offered are that contract's: a slow answer  *)
(* for an earlier name is never taken for it.                               *)
SettledLookup ==
  ~timer /\ lookups = {} /\ target \in Name \ Searched
    => /\ InvokeTargetContract \in {NamedBy[target], Nothing}
       /\ target \in Literal => InvokeTargetContract = NamedBy[target]
       /\ methods = {} \/ methods = MethodsOf[InvokeTargetContract]
=============================================================================
