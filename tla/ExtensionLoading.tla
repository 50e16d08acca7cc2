--------------------------- MODULE ExtensionLoading ---------------------------
(* bmo.extensions and bmo.features.registry: configured modules register      *)
(* tools, each inside a transaction that is rolled back when its hook raises; *)
(* the registry then dispatches requests by action or alias until it is       *)
(* closed.  The mode registry's registration is the same algorithm.  A tool   *)
(* is its names and whether it is reachable from the menu only.               *)
EXTENDS Naturals, Sequences, FiniteSets

CONSTANTS Tool, Name, Module, MaxDepth,
          ActionOf,   \* the action of each tool
          AliasesOf,  \* its aliases
          MenuOnly    \* tools without a capability, whose menu item is all they have
ASSUME LoadingConstants ==
    /\ ActionOf \in [Tool -> Name] /\ AliasesOf \in [Tool -> SUBSET Name]
    /\ MenuOnly \subseteq Tool /\ \A t \in MenuOnly : AliasesOf[t] = {}
    /\ MaxDepth \in Nat \ {0}

VARIABLES tools,      \* _tools, by identity
          transactions, \* the ledger's stack: [attempts, before]
          pending,    \* entries of the configuration not yet loaded
          loading,    \* a register hook is running
          loaded, failed, \* entries loaded, and those with a failure
          catalog,    \* modules whose menu metadata was registered
          toolCloses, \* how often each tool's close() was called
          open,       \* ~ _closed
          answer      \* what the last request came to

loadVars == <<tools, transactions, pending, loading, loaded, failed, catalog,
              toolCloses, open, answer>>

ExtensionInit ==
    /\ tools = {} /\ transactions = <<>> /\ pending = Module /\ loading = {}
    /\ loaded = {} /\ failed = {} /\ catalog = {}
    /\ toolCloses = [t \in Tool |-> 0] /\ open = TRUE /\ answer = "none"

Names(t) == {ActionOf[t]} \union AliasesOf[t]
Capable == tools \ MenuOnly
CloseTools(ts) == toolCloses' = [t \in Tool |-> IF t \in ts THEN toolCloses[t] + 1 ELSE toolCloses[t]]
Top == Len(transactions)

\* get: by action or alias
Lookup(n) == {t \in tools : n \in Names(t)}

\* register accepts a tool none of whose names is taken
Acceptable(t) ==
    /\ ActionOf[t] \notin AliasesOf[t]
    /\ \A u \in tools : Names(t) \intersect Names(u) = {}

-----------------------------------------------------------------------------
(* Loading *)

\* load_menu_catalog: metadata only; a failing module contributes nothing
Catalogue(m) ==
    /\ m \notin catalog /\ loading = {}
    /\ catalog' = catalog \union {m}
    /\ UNCHANGED <<tools, transactions, pending, loading, loaded, failed, toolCloses, open, answer>>

\* a disabled entry, or one that fails before its hook
SkipEntry(m) ==
    /\ m \in pending /\ loading = {} /\ open
    /\ pending' = pending \ {m}
    /\ failed' \in {failed, failed \union {m}}
    /\ UNCHANGED <<tools, transactions, loading, loaded, catalog, toolCloses, open, answer>>

Begin == transactions' = Append(transactions, [attempts |-> {}, before |-> tools])

BeginHook(m) ==
    /\ m \in pending /\ loading = {} /\ open
    /\ pending' = pending \ {m} /\ loading' = {m} /\ Begin
    /\ UNCHANGED <<tools, loaded, failed, catalog, toolCloses, open, answer>>

\* the hook opens a transaction of its own inside the loader's
BeginNested ==
    /\ loading # {} /\ Top < MaxDepth /\ Begin
    /\ UNCHANGED <<tools, pending, loading, loaded, failed, catalog, toolCloses, open, answer>>

\* register: the ledger remembers the candidate whether or not it is accepted;
\* a refusal raises, and the hook may handle that and go on.  A hook offers a
\* candidate of its own once, and may offer a registered tool again
Register(t) ==
    /\ loading # {} /\ toolCloses[t] = 0
    /\ t \in tools \/ \A i \in 1..Top : t \notin transactions[i].attempts
    /\ transactions' = [transactions EXCEPT ![Top].attempts = @ \union {t}]
    /\ tools' = IF Acceptable(t) THEN tools \union {t} ELSE tools
    /\ UNCHANGED <<pending, loading, loaded, failed, catalog, toolCloses, open, answer>>

\* transaction: what a completed scope owned passes to the scope around it
CommitHook ==
    /\ loading # {}
    /\ IF Top > 1
       THEN /\ transactions' = [SubSeq(transactions, 1, Top - 1) EXCEPT ![Top - 1].attempts =
                                  @ \union transactions[Top].attempts]
            /\ UNCHANGED <<loading, loaded>>
       ELSE transactions' = <<>> /\ loading' = {} /\ loaded' = loaded \union loading
    /\ UNCHANGED <<tools, pending, failed, catalog, toolCloses, open, answer>>

\* registration after an exception: the registry as it was, and every candidate
\* that was not in it closed once
\* slip: a tool that was there before is closed too
Attempted(scope) == scope.attempts
\* what a failed scope brought in
BroughtIn(scope) == scope.attempts \ scope.before

Rollback ==
    /\ loading # {}
    /\ LET scope == transactions[Top]
       IN  tools' = scope.before /\ CloseTools(BroughtIn(scope))
    /\ IF Top > 1
       THEN /\ transactions' = SubSeq(transactions, 1, Top - 1)
            /\ UNCHANGED <<loading, failed>>
       ELSE transactions' = <<>> /\ loading' = {} /\ failed' = failed \union loading
    /\ UNCHANGED <<pending, loaded, catalog, open, answer>>

-----------------------------------------------------------------------------
(* Requests *)

Answer(a) == answer' = a /\ UNCHANGED <<tools, transactions, pending, loading, loaded, failed,
                                        catalog, toolCloses, open>>

\* execute: an alias is normalized; a tool of the menu is not for requests
Execute(n) ==
    /\ loading = {}
    /\ IF ~open THEN Answer("closed")
       ELSE IF Lookup(n) \intersect Capable = {} THEN Answer("unknown")
       ELSE \E t \in Lookup(n) : \/ Answer(t)
                                 \/ Answer("raised")  \* the tool, or a result of another type

\* prepare_model_request: what the model asks for must be a capability
Prepare(n) ==
    /\ loading = {} /\ open
    /\ IF Lookup(n) \intersect Capable = {} THEN Answer("refused")
       ELSE \E t \in Lookup(n) : Answer(t) \/ Answer("refused")

\* match_direct_action: matchers of capable tools in order, failures skipped
MatchDirect ==
    /\ loading = {}
    /\ Answer("none") \/ \E t \in Capable : Answer(t)

\* open_menu_item: by action only
OpenMenu(n) ==
    /\ loading = {} /\ open
    /\ LET owners == {t \in tools : ActionOf[t] = n}
       IN  IF owners = {} THEN Answer("unknown") ELSE \E t \in owners : Answer(t)

CloseFeatures ==
    /\ open /\ loading = {}
    /\ open' = FALSE /\ CloseTools(tools)
    /\ UNCHANGED <<tools, transactions, pending, loading, loaded, failed, catalog, answer>>

-----------------------------------------------------------------------------
ExtensionNext ==
    \/ \E m \in Module : Catalogue(m) \/ SkipEntry(m) \/ BeginHook(m)
    \/ BeginNested \/ (\E t \in Tool : Register(t)) \/ CommitHook \/ Rollback
    \/ \E n \in Name : Execute(n) \/ Prepare(n) \/ OpenMenu(n)
    \/ MatchDirect \/ CloseFeatures

ExtensionSpec == ExtensionInit /\ [][ExtensionNext]_loadVars

-----------------------------------------------------------------------------
(* Properties *)

\* What the state is made of.
LoadingTypeOK ==
    /\ tools \subseteq Tool /\ open \in BOOLEAN
    /\ transactions \in Seq([attempts : SUBSET Tool, before : SUBSET Tool])
    /\ Top <= MaxDepth /\ (Top = 0 <=> loading = {})
    /\ pending \union loading \union loaded \union failed \union catalog \subseteq Module
    /\ Cardinality(loading) <= 1 /\ loaded \intersect failed = {}
    /\ toolCloses \in [Tool -> Nat]
    /\ answer \in Tool \union {"none", "closed", "unknown", "refused", "raised"}

\* No name leads to two tools, whatever was registered, refused and rolled back.
NamesUnambiguous ==
    \A t, u \in tools : t # u => Names(t) \intersect Names(u) = {}

\* While the registry is open no tool in it has been closed, and a closed
\* registry has closed each of its tools once: a rollback, of whatever depth,
\* closes what it removes and nothing else.
RegisteredIsOpen ==
    \A t \in tools : toolCloses[t] = IF open THEN 0 ELSE 1

\* A candidate of a hook that failed does not stay open and unowned.
FailedIsClosed ==
    [][\A t \in Tool : (\E i \in 1..Top : t \in transactions[i].attempts)
          /\ loading # {} /\ failed' # failed /\ t \notin tools'
          => toolCloses'[t] = 1]_loadVars

\* What loading promises: clear names, and nothing left open by a failure.
LoadingIsClean == [](LoadingTypeOK /\ NamesUnambiguous /\ RegisteredIsOpen) /\ FailedIsClosed
=============================================================================
