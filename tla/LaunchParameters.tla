-------------------------- MODULE LaunchParameters --------------------------
(***************************************************************************)
(* Launch parameters of a task: the definitions operators edit, their      *)
(* logical secrets, the snapshot a claim freezes, and the scope token with *)
(* which the claiming Executor opens it (svc/state-registry/internal/      *)
(* store).  One team and one task type.                                    *)
(*                                                                         *)
(* Every edit locks its definition first and is one atomic transaction.    *)
(* The claim reads the definitions in one statement and the secrets of     *)
(* each definition in another, under READ COMMITTED and without a lock on  *)
(* either: edits commit in between.  Names and audit rows are left out,    *)
(* encryption and MACs are perfect, a secret's text is its version.        *)
(***************************************************************************)
EXTENDS Integers, FiniteSets, Sequences

CONSTANTS
    Keys,          \* environment keys
    Values,        \* ordinary values
    Environments,  \* environment_id values, numbers given in order; 0 is the global one
    Secrets,       \* secret_id values, numbers given in order
    ClaimedTasks,
    Claimants,     \* Executors
    Writes,        \* what operators write: [env, image]
    GlobalWrites,  \* what the global definition may hold
    TaskImages,    \* the image overrides the tasks may have
    MaxEdits,
    MaxScopeKeys,  \* scope-token keys that are ever made active
    ScopeTokenTTL,
    LastInstant,
    Absent

\* The image "invalid" passes the handler's check for "@sha256:" and not the claim's.
Images == {"image", "invalid", Absent}

ASSUME LaunchConstants ==
    /\ Environments \subseteq Nat /\ 0 \in Environments
    /\ Secrets \subseteq Nat
    /\ Writes \cup GlobalWrites \subseteq [env: [Keys -> Values \cup {Absent}], image: Images]
    /\ Absent \notin Values \cup Secrets \cup Claimants
    /\ TaskImages \subseteq BOOLEAN
    /\ MaxEdits \in Nat /\ MaxScopeKeys \in Nat \ {0}
    /\ ScopeTokenTTL \in Nat \ {0} /\ LastInstant \in Nat

VARIABLES
    definitions,   \* table environment_definitions
    revisions,     \* table environment_revisions
    secrets,       \* table secrets, with the latest of secret_versions
    taskRows,      \* the columns of table tasks that matter here
    snapshots,     \* tables task_launch_parameter_snapshots and ..._secret_refs
    claims,        \* claim transactions that are resolving
    scopeKeys,     \* the keyring: [active, window]
    scopeTokens,   \* tokens handed out
    opened,        \* what was returned by opens
    instant,
    edits          \* number of edits, bounded by MaxEdits

definitionTables == <<definitions, revisions, secrets>>
claimTables == <<taskRows, snapshots>>
launchVars == <<definitionTables, claimTables, claims, scopeKeys, scopeTokens, opened,
                instant, edits>>

NoKeys == [k \in Keys |-> Absent]
NoRef == [secret |-> Absent, version |-> 0]
NoRefs == [k \in Keys |-> NoRef]
NoDefinition == [scope |-> "none", env |-> NoKeys, image |-> Absent, revision |-> 0,
                 deleted |-> FALSE]
NoSecret == [environment |-> -1, name |-> Absent, version |-> 0, revoked |-> FALSE]
NoClaim == [at |-> "none", executor |-> Absent, rows |-> <<>>, values |-> NoKeys,
            refs |-> NoRefs, image |-> Absent, source |-> "none",
            effective |-> NoKeys, edited |-> FALSE, revoked |-> {}]
NoSnapshot == [values |-> NoKeys, refs |-> NoRefs, effective |-> NoKeys, edited |-> FALSE,
               revoked |-> {}]

LaunchInit ==
    /\ \E w \in GlobalWrites :
         definitions = [e \in Environments |->
             IF e = 0 THEN [NoDefinition EXCEPT !.scope = "global", !.env = w.env,
                                                !.image = w.image]
             ELSE NoDefinition]
    /\ revisions = {}
    /\ secrets = [s \in Secrets |-> NoSecret]
    /\ \E overrides \in [ClaimedTasks -> TaskImages] :
         taskRows = [t \in ClaimedTasks |->
             [state |-> "pending", executor |-> Absent, claimedAt |-> 0,
              override |-> overrides[t], source |-> "none"]]
    /\ snapshots = [t \in ClaimedTasks |-> NoSnapshot]
    /\ claims = [t \in ClaimedTasks |-> NoClaim]
    /\ scopeKeys = [active |-> 1, window |-> {1}]
    /\ scopeTokens = {}
    /\ opened = {}
    /\ instant = 0
    /\ edits = 0

-----------------------------------------------------------------------------
(***************************************************************************)
(* Editing definitions.                                                    *)
(***************************************************************************)
ActiveSecrets(table, e, k) ==
    {s \in Secrets : table[s].environment = e /\ table[s].name = k /\ ~table[s].revoked}

SecretKeys(table, e) == {k \in Keys : ActiveSecrets(table, e, k) # {}}

Active(e) == definitions[e].scope \in {"team", "task_type"} /\ ~definitions[e].deleted

(***************************************************************************)
(* The row an edit appends to environment_revisions: the definition and    *)
(* the names of its secrets as the edit leaves them.                       *)
(***************************************************************************)
RevisionRow(e, definition, table) ==
    [environment |-> e, revision |-> definition.revision, env |-> definition.env,
     image |-> definition.image, deleted |-> definition.deleted,
     secretKeys |-> SecretKeys(table, e)]

Edit(e, definition, table) ==
    /\ edits < MaxEdits
    /\ edits' = edits + 1
    /\ definitions' = [definitions EXCEPT ![e] = definition]
    /\ secrets' = table
    /\ revisions' = revisions \cup {RevisionRow(e, definition, table)}
    /\ claims' = [t \in ClaimedTasks |-> [claims[t] EXCEPT !.edited = claims[t].at # "none"]]
    /\ UNCHANGED <<claimTables, scopeKeys, scopeTokens, opened, instant>>

(***************************************************************************)
(* The partial unique indexes: one active definition per scope.            *)
(***************************************************************************)
ScopeFree(scope) == \A e \in Environments : Active(e) => definitions[e].scope # scope

CreateLaunchParameters(e, scope, w) ==
    /\ definitions[e] = NoDefinition
    /\ \A d \in Environments : d < e => definitions[d] # NoDefinition
    /\ ScopeFree(scope)
    /\ Edit(e, [scope |-> scope, env |-> w.env, image |-> w.image, revision |-> 1,
                deleted |-> FALSE], secrets)

ReplaceLaunchParameters(e, w) ==
    /\ Active(e)
    /\ Edit(e, [definitions[e] EXCEPT !.env = w.env, !.image = w.image, !.revision = @ + 1],
            secrets)

DeleteLaunchParameters(e) ==
    /\ Active(e)
    /\ Edit(e, [definitions[e] EXCEPT !.deleted = TRUE, !.revision = @ + 1], secrets)

\* Mutated: the definition is not revised.
EditSecretUnlisted(s, secret) ==
    LET e == secret.environment
    IN /\ Active(e)
       /\ edits < MaxEdits
       /\ edits' = edits + 1
       /\ secrets' = [secrets EXCEPT ![s] = secret]
       /\ UNCHANGED <<definitions, revisions, claims, claimTables, scopeKeys, scopeTokens, opened,
                      instant>>

(***************************************************************************)
(* appendSecretDefinitionRevision counts a change of a secret as an edit   *)
(* of its definition.  Two secrets of a definition may have one name.      *)
(***************************************************************************)
EditSecret(s, secret) ==
    LET e == secret.environment
    IN /\ Active(e)
       /\ Edit(e, [definitions[e] EXCEPT !.revision = @ + 1], [secrets EXCEPT ![s] = secret])

CreateSecret(s, e, k) ==
    /\ secrets[s] = NoSecret
    /\ \A q \in Secrets : q < s => secrets[q] # NoSecret
    /\ EditSecret(s, [environment |-> e, name |-> k, version |-> 1, revoked |-> FALSE])

ReplaceSecret(s) ==
    /\ secrets[s] # NoSecret /\ ~secrets[s].revoked
    /\ EditSecret(s, [secrets[s] EXCEPT !.version = @ + 1])

RevokeSecret(s) ==
    /\ secrets[s] # NoSecret /\ ~secrets[s].revoked
    /\ EditSecret(s, [secrets[s] EXCEPT !.revoked = TRUE])

-----------------------------------------------------------------------------
(***************************************************************************)
(* The parameters in force now, by definition: for each key the narrowest  *)
(* scope that has it, and there a secret before an ordinary value.  The    *)
(* result is a set because two secrets may have one name.                  *)
(***************************************************************************)
Narrowness(scope) == CASE scope = "global" -> 1 [] scope = "team" -> 2 [] OTHER -> 3

InForce == {e \in Environments : definitions[e].scope # "none" /\ ~definitions[e].deleted}

EffectiveOf(e, k) ==
    IF ActiveSecrets(secrets, e, k) # {}
    THEN {[secret |-> s, version |-> secrets[s].version] : s \in ActiveSecrets(secrets, e, k)}
    ELSE {definitions[e].env[k]}

Effective(k) ==
    LET defining == {e \in InForce : EffectiveOf(e, k) # {Absent}}
    IN IF defining = {} THEN {Absent}
       ELSE EffectiveOf(CHOOSE e \in defining : \A d \in defining :
                            Narrowness(definitions[d].scope) <= Narrowness(definitions[e].scope), k)

-----------------------------------------------------------------------------
(***************************************************************************)
(* The claim.  Its first statement here lists the definitions in force,    *)
(* broad to narrow.  effective, edited and revoked only remember how       *)
(* things stood then.                                                      *)
(***************************************************************************)
ListedIn(scope) == {e \in InForce : definitions[e].scope = scope}

Listed(scope) ==
    IF ListedIn(scope) = {} THEN <<>>
    ELSE LET e == CHOOSE e \in ListedIn(scope) : TRUE
         IN <<[environment |-> e, scope |-> scope, env |-> definitions[e].env,
               image |-> definitions[e].image]>>

BeginClaim(t, x) ==
    /\ taskRows[t].state = "pending"
    /\ claims[t].at = "none"
    /\ claims' = [claims EXCEPT ![t] =
         [NoClaim EXCEPT !.at = "resolve", !.executor = x,
             !.rows = Listed("global") \o Listed("team") \o Listed("task_type"),
             !.effective = [k \in Keys |-> Effective(k)],
             !.revoked = {s \in Secrets : secrets[s].revoked}]]
    /\ UNCHANGED <<definitionTables, claimTables, scopeKeys, scopeTokens, opened, instant, edits>>

(***************************************************************************)
(* One round of the loop: the definition's values, then the statement that *)
(* lists its secrets.                                                      *)
(***************************************************************************)
\* Mutated: revoked secrets are listed.
ListableSecrets(e, k) == {s \in Secrets : secrets[s].environment = e /\ secrets[s].name = k}
ListedSecrets(e, k) == ActiveSecrets(secrets, e, k)

MergedValues(values, env, chosen) ==
    [k \in Keys |-> IF chosen[k] # Absent THEN Absent
                    ELSE IF env[k] # Absent THEN env[k]
                    ELSE values[k]]

MergedRefs(refs, env, chosen) ==
    [k \in Keys |-> IF chosen[k] # Absent
                    THEN [secret |-> chosen[k], version |-> secrets[chosen[k]].version]
                    ELSE IF env[k] # Absent THEN NoRef
                    ELSE refs[k]]

ResolveDefinition(t) ==
    /\ claims[t].at = "resolve"
    /\ claims[t].rows # <<>>
    /\ LET row == Head(claims[t].rows)
       IN \E chosen \in [Keys -> Secrets \cup {Absent}] :
            /\ \A k \in Keys : IF ListedSecrets(row.environment, k) = {} THEN chosen[k] = Absent
                               ELSE chosen[k] \in ListedSecrets(row.environment, k)
            /\ claims' = [claims EXCEPT ![t] =
                 [claims[t] EXCEPT !.rows = Tail(@),
                                   !.values = MergedValues(@, row.env, chosen),
                                   !.refs = MergedRefs(@, row.env, chosen),
                                   !.image = IF row.image # Absent THEN row.image ELSE @,
                                   !.source = IF row.image # Absent THEN row.scope ELSE @]]
    /\ UNCHANGED <<definitionTables, claimTables, scopeKeys, scopeTokens, opened, instant, edits>>

(***************************************************************************)
(* The image of the task: its own, else one of the launch parameters, else *)
(* a default of the task type, source system or team.                      *)
(***************************************************************************)
ResolveClaimImage(t) ==
    IF taskRows[t].override THEN "task_override"
    ELSE IF claims[t].image # Absent THEN claims[t].source
    ELSE "default"

ClaimImageInvalid(t) == ~taskRows[t].override /\ claims[t].image = "invalid"

HasValues(snapshot) == snapshot.values # NoKeys \/ snapshot.refs # NoRefs

IssueScopeToken(t, x, claimedAt) ==
    [task |-> t, executor |-> x, key |-> scopeKeys.active, issued |-> claimedAt]

CommitClaim(t) ==
    LET c == claims[t]
        snapshot == [values |-> c.values, refs |-> c.refs, effective |-> c.effective,
                     edited |-> c.edited, revoked |-> c.revoked]
    IN /\ c.at = "resolve"
       /\ c.rows = <<>>
       /\ ~ClaimImageInvalid(t)
       /\ snapshots' = [snapshots EXCEPT ![t] = snapshot]
       /\ taskRows' = [taskRows EXCEPT ![t] =
            [@ EXCEPT !.state = "created", !.executor = c.executor, !.claimedAt = instant,
                      !.source = ResolveClaimImage(t)]]
       /\ scopeTokens' = IF HasValues(snapshot)
                         THEN scopeTokens \cup {IssueScopeToken(t, c.executor, instant)}
                         ELSE scopeTokens
       /\ claims' = [claims EXCEPT ![t] = NoClaim]
       /\ UNCHANGED <<definitionTables, scopeKeys, opened, instant, edits>>

(***************************************************************************)
(* The claim fails on an invalid image, or because a statement does.       *)
(***************************************************************************)
ClaimRollsBack(t) ==
    /\ claims[t].at = "resolve"
    /\ claims' = [claims EXCEPT ![t] = NoClaim]
    /\ UNCHANGED <<definitionTables, claimTables, scopeKeys, scopeTokens, opened, instant, edits>>

(***************************************************************************)
(* The owner repeats its claim: a token of the key now active, with the    *)
(* times of the first.                                                     *)
(***************************************************************************)
RetryClaim(t) ==
    /\ taskRows[t].state # "pending"
    /\ HasValues(snapshots[t])
    /\ scopeTokens' = scopeTokens \cup {IssueScopeToken(t, taskRows[t].executor,
                                                       taskRows[t].claimedAt)}
    /\ UNCHANGED <<definitionTables, claimTables, claims, scopeKeys, opened, instant, edits>>

(***************************************************************************)
(* running and the terminal event of the task.                             *)
(***************************************************************************)
TaskMovesOn(t) ==
    /\ taskRows[t].state \in {"created", "running"}
    /\ taskRows' = [taskRows EXCEPT ![t].state = IF @ = "created" THEN "running" ELSE "ended"]
    /\ UNCHANGED <<definitionTables, snapshots, claims, scopeKeys, scopeTokens, opened, instant, edits>>

-----------------------------------------------------------------------------
(***************************************************************************)
(* Opening.                                                                *)
(***************************************************************************)
VerifyScopeToken(token) ==
    /\ token.key \in scopeKeys.window
    /\ token.issued + ScopeTokenTTL > instant

Opens(token, x) ==
    /\ VerifyScopeToken(token)
    /\ token.executor = x
    /\ taskRows[token.task].executor = x
    /\ taskRows[token.task].state \in {"created", "running"}

\* Mutated: the latest version of the secret instead of the frozen one.
DecryptLatest(t) ==
    [k \in Keys |-> IF snapshots[t].refs[k] = NoRef THEN snapshots[t].values[k]
                    ELSE [secret |-> snapshots[t].refs[k].secret,
                          version |-> secrets[snapshots[t].refs[k].secret].version]]

Decrypted(t) ==
    [k \in Keys |-> IF snapshots[t].refs[k] = NoRef THEN snapshots[t].values[k]
                    ELSE snapshots[t].refs[k]]

OpenEnvironment(token, x) ==
    /\ Opens(token, x)
    /\ opened' = opened \cup {[task |-> token.task, executor |-> x,
                               values |-> Decrypted(token.task)]}
    /\ UNCHANGED <<definitionTables, claimTables, claims, scopeKeys, scopeTokens, instant, edits>>

(***************************************************************************)
(* The Registry starts with another key, or without one of the previous    *)
(* keys.  buildScopeTokenKeyring takes at most eight.                      *)
(***************************************************************************)
RotateScopeKey ==
    /\ scopeKeys.active < MaxScopeKeys
    /\ Cardinality(scopeKeys.window) < 8
    /\ scopeKeys' = [active |-> scopeKeys.active + 1,
                     window |-> scopeKeys.window \cup {scopeKeys.active + 1}]
    /\ UNCHANGED <<definitionTables, claimTables, claims, scopeTokens, opened, instant, edits>>

\* Mutated: the active key may be removed.
RetireAnyScopeKey(key) ==
    /\ scopeKeys' = [scopeKeys EXCEPT !.window = @ \ {key}]
    /\ UNCHANGED <<definitionTables, claimTables, claims, scopeTokens, opened, instant, edits>>

RetireScopeKey(key) ==
    /\ key # scopeKeys.active
    /\ scopeKeys' = [scopeKeys EXCEPT !.window = @ \ {key}]
    /\ UNCHANGED <<definitionTables, claimTables, claims, scopeTokens, opened, instant, edits>>

TimePasses ==
    /\ instant < LastInstant
    /\ instant' = instant + 1
    /\ UNCHANGED <<definitionTables, claimTables, claims, scopeKeys, scopeTokens, opened, edits>>

LaunchNext ==
    \/ \E e \in Environments \ {0}, w \in Writes :
         \/ \E scope \in {"team", "task_type"} : CreateLaunchParameters(e, scope, w)
         \/ ReplaceLaunchParameters(e, w)
    \/ \E e \in Environments \ {0} : DeleteLaunchParameters(e)
    \/ \E s \in Secrets :
         \/ \E e \in Environments \ {0}, k \in Keys : CreateSecret(s, e, k)
         \/ ReplaceSecret(s)
         \/ RevokeSecret(s)
    \/ \E t \in ClaimedTasks :
         \/ \E x \in Claimants : BeginClaim(t, x)
         \/ ResolveDefinition(t)
         \/ CommitClaim(t)
         \/ ClaimRollsBack(t)
         \/ RetryClaim(t)
         \/ TaskMovesOn(t)
    \/ \E token \in scopeTokens, x \in Claimants : OpenEnvironment(token, x)
    \/ RotateScopeKey
    \/ \E key \in scopeKeys.window : RetireScopeKey(key)
    \/ TimePasses

LaunchSpec == LaunchInit /\ [][LaunchNext]_launchVars

-----------------------------------------------------------------------------
Refs == [secret: Secrets \cup {Absent}, version: 0..(MaxEdits + 1)]

LaunchTypeOK ==
    /\ definitions \in [Environments -> [scope: {"none", "global", "team", "task_type"},
            env: [Keys -> Values \cup {Absent}], image: Images, revision: 0..MaxEdits,
            deleted: BOOLEAN]]
    /\ \A r \in revisions : r.environment \in Environments /\ r.revision \in 1..MaxEdits
    /\ secrets \in [Secrets -> [environment: Environments \cup {-1}, name: Keys \cup {Absent},
                                version: 0..MaxEdits, revoked: BOOLEAN]]
    /\ taskRows \in [ClaimedTasks -> [state: {"pending", "created", "running", "ended"},
            executor: Claimants \cup {Absent}, claimedAt: 0..instant, override: BOOLEAN,
            source: {"none", "task_override", "global", "team", "task_type", "default"}]]
    /\ \A t \in ClaimedTasks :
         /\ claims[t].at \in {"none", "resolve"}
         /\ claims[t].at = "resolve" => taskRows[t].state = "pending"
         /\ snapshots[t].refs \in [Keys -> Refs]
         /\ snapshots[t].values \in [Keys -> Values \cup {Absent}]
    /\ scopeKeys.active \in 1..MaxScopeKeys /\ scopeKeys.active \in scopeKeys.window
    /\ scopeTokens \subseteq [task: ClaimedTasks, executor: Claimants, key: 1..MaxScopeKeys,
                              issued: 0..instant]
    /\ instant \in 0..LastInstant
    /\ edits \in 0..MaxEdits

(***************************************************************************)
(* What a claim freezes is current.  If no edit commits during the claim,  *)
(* it is for every key what the narrowest scope had when it began, a       *)
(* secret before an ordinary value; whatever is edited, no secret revoked  *)
(* before the claim is in it.                                              *)
(***************************************************************************)
SnapshotCurrent ==
    \A t \in ClaimedTasks : taskRows[t].state # "pending" => \A k \in Keys :
        /\ snapshots[t].refs[k].secret \notin snapshots[t].revoked
        /\ ~snapshots[t].edited => Decrypted(t)[k] \in snapshots[t].effective[k]

(***************************************************************************)
(* All opens of a task return the same, to the Executor that owns it,      *)
(* whatever is edited, replaced or revoked after the claim.                *)
(***************************************************************************)
OpensAgree ==
    \A o \in opened :
        /\ taskRows[o.task].executor = o.executor
        /\ \A p \in opened : p.task = o.task => p.values = o.values

(***************************************************************************)
(* The revisions of a definition are numbered from 1 without a gap, and    *)
(* the last is the definition as it is now, with the names of the secrets  *)
(* that are not revoked.                                                   *)
(***************************************************************************)
HistoryMatchesDefinition ==
    \A e \in Environments \ {0} : definitions[e] # NoDefinition =>
        /\ {r.revision : r \in {r \in revisions : r.environment = e}}
             = 1..definitions[e].revision
        /\ \A r \in revisions : r.environment = e /\ r.revision = definitions[e].revision =>
             r = RevisionRow(e, definitions[e], secrets)
        /\ \A d \in Environments : Active(e) /\ Active(d) /\ d # e =>
             definitions[d].scope # definitions[e].scope
=============================================================================
