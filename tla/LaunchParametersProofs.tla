----------------------- MODULE LaunchParametersProofs -----------------------
(***************************************************************************)
(* Proofs about LaunchParameters for any number of keys, definitions,      *)
(* secrets, tasks, Executors, edits and scope-token keys.                  *)
(***************************************************************************)
EXTENDS LaunchParameters, TLAPS

-----------------------------------------------------------------------------
(***************************************************************************)
(* The revision history.                                                   *)
(***************************************************************************)
DefinitionRow ==
    [scope: {"none", "global", "team", "task_type"}, env: [Keys -> Values \cup {Absent}],
     image: Images, revision: Nat, deleted: BOOLEAN]

SecretRow ==
    [environment: Environments \cup {-1}, name: Keys \cup {Absent}, version: Nat,
     revoked: BOOLEAN]

HistoryOf(e) == {r.revision : r \in {r \in revisions : r.environment = e}}

(***************************************************************************)
(* The inductive invariant.  A definition that does not exist has no       *)
(* revision and a secret that does not exist belongs to no definition, so  *)
(* that an edit of one definition leaves the rows of all others as they    *)
(* are.                                                                    *)
(***************************************************************************)
HistoryInv ==
    /\ definitions \in [Environments -> DefinitionRow]
    /\ secrets \in [Secrets -> SecretRow]
    /\ \A e \in Environments : definitions[e].scope = "none" => definitions[e] = NoDefinition
    /\ definitions[0].scope = "global"
    /\ \A s \in Secrets : secrets[s] # NoSecret => secrets[s].environment \in Environments
    /\ \A e \in Environments \ {0} :
         /\ definitions[e].scope # "global"
         /\ HistoryOf(e) = 1..definitions[e].revision
         /\ \A r \in revisions : r.environment = e /\ r.revision = definitions[e].revision =>
              r = RevisionRow(e, definitions[e], secrets)
         /\ \A d \in Environments : Active(e) /\ Active(d) /\ d # e =>
              definitions[d].scope # definitions[e].scope

(***************************************************************************)
(* What operators write has the type of a definition's columns.            *)
(***************************************************************************)
LEMMA WritesTyped ==
    ASSUME NEW w \in Writes \cup GlobalWrites
    PROVE  w.env \in [Keys -> Values \cup {Absent}] /\ w.image \in Images
  BY LaunchConstants

(***************************************************************************)
(* Counting the revision changes nothing else of the row.                  *)
(***************************************************************************)
LEMMA RevisedRow ==
    ASSUME NEW d \in DefinitionRow
    PROVE  /\ [d EXCEPT !.revision = @ + 1] \in DefinitionRow
           /\ [d EXCEPT !.revision = @ + 1].revision = d.revision + 1
           /\ [d EXCEPT !.revision = @ + 1].scope = d.scope
  BY DEF DefinitionRow

\* The invariant holds of the tables as they are before the first edit.
LEMMA HistoryInit == LaunchInit => HistoryInv
<1> SUFFICES ASSUME LaunchInit PROVE HistoryInv
  OBVIOUS
<1>1. PICK w \in GlobalWrites :
        definitions = [e \in Environments |->
             IF e = 0 THEN [NoDefinition EXCEPT !.scope = "global", !.env = w.env,
                                                !.image = w.image]
             ELSE NoDefinition]
  BY DEF LaunchInit
<1>2. NoKeys \in [Keys -> Values \cup {Absent}] /\ Absent \in Images
  BY DEF NoKeys, Images
<1>3. definitions \in [Environments -> DefinitionRow]
  BY <1>1, <1>2, WritesTyped DEF DefinitionRow, NoDefinition
<1>4. secrets \in [Secrets -> SecretRow]
  BY DEF LaunchInit, NoSecret, SecretRow
<1>9. \A s \in Secrets : secrets[s] = NoSecret
  BY DEF LaunchInit
<1>5. 0 \in Environments /\ definitions[0].scope = "global"
  BY <1>1, LaunchConstants DEF NoDefinition
<1>6. \A e \in Environments \ {0} : definitions[e] = NoDefinition /\ NoDefinition.revision = 0
                                    /\ NoDefinition.scope = "none"
  BY <1>1 DEF NoDefinition
<1>7. revisions = {}
  BY DEF LaunchInit
<1>8. \A e \in Environments \ {0} : HistoryOf(e) = 1..definitions[e].revision
  BY <1>6, <1>7 DEF HistoryOf
<1> QED
  BY <1>3, <1>4, <1>5, <1>6, <1>7, <1>8, <1>9 DEF HistoryInv, Active

(***************************************************************************)
(* Any edit (Edit, which every handler ends in) of a definition other than *)
(* the global one keeps the invariant, if it gives the definition the next *)
(* revision, touches only this definition's secrets and takes no scope     *)
(* that another active definition has.                                     *)
(***************************************************************************)
LEMMA EditKeepsHistory ==
    ASSUME HistoryInv,
           NEW e \in Environments \ {0},
           NEW definition \in DefinitionRow,
           NEW table \in [Secrets -> SecretRow],
           Edit(e, definition, table),
           definition.revision = definitions[e].revision + 1,
           definition.scope \in {"team", "task_type"},
           \A s \in Secrets : table[s] # secrets[s] =>
               table[s].environment = e /\ secrets[s].environment \in {e, -1},
           ~definition.deleted => \A d \in Environments \ {e} :
               Active(d) => definitions[d].scope # definition.scope
    PROVE  HistoryInv'
<1> USE DEF HistoryInv
<1> DEFINE new == RevisionRow(e, definition, table)
<1>1. /\ definitions' = [definitions EXCEPT ![e] = definition]
      /\ secrets' = table
      /\ revisions' = revisions \cup {new}
  BY DEF Edit
<1>2. /\ definitions' \in [Environments -> DefinitionRow]
      /\ definitions'[e] = definition
      /\ \A d \in Environments \ {e} : definitions'[d] = definitions[d]
  BY <1>1
<1>3. new.environment = e /\ new.revision = definitions[e].revision + 1
  BY DEF RevisionRow
<1>4. definitions[e].revision \in Nat
  BY DEF DefinitionRow
<1>5. ASSUME NEW d \in Environments \ {0} PROVE HistoryOf(d)' = 1..definitions'[d].revision
  <2>1. CASE d = e
    <3>1. HistoryOf(d)' = HistoryOf(d) \cup {definitions[e].revision + 1}
      BY <1>1, <1>3, <2>1 DEF HistoryOf
    <3>2. HistoryOf(d) = 1..definitions[e].revision
      BY <2>1
    <3> QED
      BY <3>1, <3>2, <1>2, <1>4, <2>1
  <2>2. CASE d # e
    <3>1. HistoryOf(d)' = HistoryOf(d)
      BY <1>1, <1>3, <2>2 DEF HistoryOf
    <3> QED
      BY <3>1, <1>2, <2>2
  <2> QED
    BY <2>1, <2>2
<1>6. ASSUME NEW d \in Environments \ {0}, NEW r \in revisions',
             r.environment = d, r.revision = definitions'[d].revision
      PROVE  r = RevisionRow(d, definitions'[d], secrets')
  <2>1. CASE d = e
    <3>1. r.revision = definitions[e].revision + 1
      BY <1>2, <1>6, <2>1
    <3>2. ASSUME r \in revisions PROVE FALSE
      <4>1. r.revision \in HistoryOf(e)
        BY <3>2, <1>6, <2>1 DEF HistoryOf
      <4> QED
        BY <4>1, <3>1, <1>4
    <3> QED
      BY <3>2, <1>1, <1>2, <2>1
  <2>2. CASE d # e
    <3>1. r \in revisions /\ r = RevisionRow(d, definitions[d], secrets)
      BY <1>1, <1>2, <1>3, <1>6, <2>2
    <3>2. \A k \in Keys : ActiveSecrets(secrets, d, k) = ActiveSecrets(table, d, k)
      <4>1. \A s \in Secrets : table[s] = secrets[s] \/ (table[s].environment # d
                                                        /\ secrets[s].environment # d)
        BY <2>2, LaunchConstants
      <4> QED
        BY <4>1 DEF ActiveSecrets
    <3>3. SecretKeys(secrets, d) = SecretKeys(table, d)
      BY <3>2 DEF SecretKeys
    <3> QED
      BY <3>1, <3>3, <1>1, <1>2, <2>2 DEF RevisionRow
  <2> QED
    BY <2>1, <2>2
<1>7. ASSUME NEW d \in Environments \ {0}, NEW c \in Environments,
             Active(d)', Active(c)', c # d
      PROVE  definitions'[c].scope # definitions'[d].scope
  <2>1. CASE d = e
    BY <1>2, <1>7, <2>1 DEF Active
  <2>2. CASE c = e
    BY <1>2, <1>7, <2>2 DEF Active
  <2>3. CASE c # e /\ d # e
    BY <1>2, <1>7, <2>3 DEF Active
  <2> QED
    BY <2>1, <2>2, <2>3
<1>8. 0 \in Environments /\ e # 0
  BY LaunchConstants
<1>9. secrets' \in [Secrets -> SecretRow]
  BY <1>1
<1>10. \A d \in Environments : definitions'[d].scope = "none" => definitions'[d] = NoDefinition
  BY <1>2
<1>11. definitions'[0].scope = "global"
  BY <1>2, <1>8
<1>12. \A d \in Environments \ {0} : definitions'[d].scope # "global"
  BY <1>2
<1>13. \A s \in Secrets : secrets'[s] # NoSecret => secrets'[s].environment \in Environments
  BY <1>1
<1> QED
  BY <1>2, <1>5, <1>6, <1>7, <1>9, <1>10, <1>11, <1>12, <1>13

(***************************************************************************)
(* A change of a secret is such an edit (EditSecret).                      *)
(***************************************************************************)
LEMMA SecretEditKeepsHistory ==
    ASSUME HistoryInv,
           NEW s \in Secrets,
           NEW secret \in SecretRow,
           secret.environment \in Environments \ {0},
           secrets[s].environment \in {secret.environment, -1},
           EditSecret(s, secret)
    PROVE  HistoryInv'
<1> DEFINE e == secret.environment
           definition == [definitions[e] EXCEPT !.revision = @ + 1]
           table == [secrets EXCEPT ![s] = secret]
<1>1. Active(e) /\ Edit(e, definition, table)
  BY DEF EditSecret
<1>2. definitions[e] \in DefinitionRow
  BY DEF HistoryInv
<1>3. /\ definition \in DefinitionRow
      /\ definition.revision = definitions[e].revision + 1
      /\ definition.scope = definitions[e].scope
      /\ definition.deleted = definitions[e].deleted
  BY <1>2 DEF DefinitionRow
<1>4. /\ table \in [Secrets -> SecretRow]
      /\ \A q \in Secrets : table[q] # secrets[q] =>
            table[q].environment = e /\ secrets[q].environment \in {e, -1}
  BY DEF HistoryInv
<1>5. definition.scope \in {"team", "task_type"}
  BY <1>1, <1>3 DEF Active
<1>6. \A d \in Environments \ {e} : Active(d) => definitions[d].scope # definition.scope
  BY <1>1, <1>3 DEF HistoryInv
<1> HIDE DEF definition, table, e
<1> QED
  BY <1>1, <1>3, <1>4, <1>5, <1>6, EditKeepsHistory DEF e

(***************************************************************************)
(* Every step keeps the history: the edits by the lemmas above, the rest   *)
(* because it leaves the three tables alone.                               *)
(***************************************************************************)
LEMMA HistoryStep == HistoryInv /\ [LaunchNext]_launchVars => HistoryInv'
<1> SUFFICES ASSUME HistoryInv, [LaunchNext]_launchVars PROVE HistoryInv'
  OBVIOUS
<1>1. ASSUME UNCHANGED definitionTables PROVE HistoryInv'
  BY <1>1 DEF definitionTables, HistoryInv, HistoryOf, RevisionRow, SecretKeys, ActiveSecrets,
              Active
<1>2. ASSUME NEW e \in Environments \ {0}, NEW w \in Writes, NEW scope \in {"team", "task_type"},
             CreateLaunchParameters(e, scope, w)
      PROVE  HistoryInv'
  <2> DEFINE definition == [scope |-> scope, env |-> w.env, image |-> w.image, revision |-> 1,
                            deleted |-> FALSE]
  <2>1. definition \in DefinitionRow
    BY WritesTyped DEF DefinitionRow
  <2>2. definitions[e] = NoDefinition /\ ScopeFree(scope) /\ Edit(e, definition, secrets)
    BY <1>2 DEF CreateLaunchParameters
  <2>3. definition.revision = definitions[e].revision + 1
    BY <2>2 DEF NoDefinition
  <2>4. \A d \in Environments \ {e} : Active(d) => definitions[d].scope # definition.scope
    BY <2>2 DEF ScopeFree
  <2>5. definition.scope \in {"team", "task_type"} /\ secrets \in [Secrets -> SecretRow]
    BY DEF HistoryInv
  <2> HIDE DEF definition
  <2> QED
    BY <2>1, <2>2, <2>3, <2>4, <2>5, EditKeepsHistory
<1>3. ASSUME NEW e \in Environments \ {0}, NEW definition, Active(e),
             definition \in DefinitionRow,
             definition.revision = definitions[e].revision + 1,
             definition.scope = definitions[e].scope,
             Edit(e, definition, secrets)
      PROVE  HistoryInv'
  <2>1. definition.scope \in {"team", "task_type"} /\ secrets \in [Secrets -> SecretRow]
    BY <1>3 DEF Active, HistoryInv
  <2>2. \A d \in Environments \ {e} : Active(d) => definitions[d].scope # definition.scope
    BY <1>3 DEF HistoryInv
  <2> QED
    BY <1>3, <2>1, <2>2, EditKeepsHistory
<1>4. ASSUME NEW e \in Environments \ {0}, NEW w \in Writes, ReplaceLaunchParameters(e, w)
      PROVE  HistoryInv'
  <2> DEFINE definition == [definitions[e] EXCEPT !.env = w.env, !.image = w.image,
                                                  !.revision = @ + 1]
  <2>1. Active(e) /\ Edit(e, definition, secrets)
    BY <1>4 DEF ReplaceLaunchParameters
  <2>2. definitions[e] \in DefinitionRow
    BY DEF HistoryInv
  <2>3. /\ definition \in DefinitionRow
        /\ definition.revision = definitions[e].revision + 1
        /\ definition.scope = definitions[e].scope
    <3>1. w.env \in [Keys -> Values \cup {Absent}] /\ w.image \in Images
      BY WritesTyped
    <3> DEFINE d == [definitions[e] EXCEPT !.env = w.env]
    <3>2. d \in DefinitionRow /\ d.revision = definitions[e].revision
                            /\ d.scope = definitions[e].scope
      BY <2>2, <3>1 DEF DefinitionRow
    <3> DEFINE i == [d EXCEPT !.image = w.image]
    <3>3. definition = [i EXCEPT !.revision = @ + 1]
      OBVIOUS
    <3> HIDE DEF definition, d
    <3>4. i \in DefinitionRow /\ i.revision = d.revision /\ i.scope = d.scope
      BY <3>1, <3>2 DEF DefinitionRow
    <3> HIDE DEF i
    <3> QED
      BY <3>2, <3>3, <3>4, RevisedRow
  <2> HIDE DEF definition
  <2> QED
    BY <2>1, <2>3, <1>3
<1>5. ASSUME NEW e \in Environments \ {0}, DeleteLaunchParameters(e) PROVE HistoryInv'
  <2> DEFINE definition == [definitions[e] EXCEPT !.deleted = TRUE, !.revision = @ + 1]
  <2>1. Active(e) /\ Edit(e, definition, secrets)
    BY <1>5 DEF DeleteLaunchParameters
  <2>2. definitions[e] \in DefinitionRow
    BY DEF HistoryInv
  <2>3. /\ definition \in DefinitionRow
        /\ definition.revision = definitions[e].revision + 1
        /\ definition.scope = definitions[e].scope
    <3> DEFINE d == [definitions[e] EXCEPT !.deleted = TRUE]
    <3>1. definition = [d EXCEPT !.revision = @ + 1]
      OBVIOUS
    <3> HIDE DEF definition
    <3>2. d \in DefinitionRow /\ d.revision = definitions[e].revision
                            /\ d.scope = definitions[e].scope
      BY <2>2 DEF DefinitionRow
    <3> HIDE DEF d
    <3> QED
      BY <3>1, <3>2, RevisedRow
  <2> HIDE DEF definition
  <2> QED
    BY <2>1, <2>3, <1>3
<1>6. ASSUME NEW s \in Secrets, NEW e \in Environments \ {0}, NEW k \in Keys, CreateSecret(s, e, k)
      PROVE  HistoryInv'
  <2> DEFINE secret == [environment |-> e, name |-> k, version |-> 1, revoked |-> FALSE]
  <2>1. secret \in SecretRow /\ secret.environment = e
    BY DEF SecretRow
  <2>2. secrets[s].environment = -1 /\ EditSecret(s, secret)
    BY <1>6 DEF CreateSecret, NoSecret
  <2> HIDE DEF secret
  <2> QED
    BY <2>1, <2>2, SecretEditKeepsHistory
<1>7. ASSUME NEW s \in Secrets, NEW secret, secret \in SecretRow, secrets[s] # NoSecret,
             secret.environment = secrets[s].environment, EditSecret(s, secret)
      PROVE  HistoryInv'
  <2>1. secret.environment \in Environments \ {0}
    BY <1>7 DEF EditSecret, Active, HistoryInv, SecretRow
  <2> QED
    BY <1>7, <2>1, SecretEditKeepsHistory
<1>8. ASSUME NEW s \in Secrets, ReplaceSecret(s) \/ RevokeSecret(s) PROVE HistoryInv'
  <2>1. secrets[s] \in SecretRow
    BY DEF HistoryInv
  <2>2. /\ [secrets[s] EXCEPT !.version = @ + 1] \in SecretRow
        /\ [secrets[s] EXCEPT !.version = @ + 1].environment = secrets[s].environment
        /\ [secrets[s] EXCEPT !.revoked = TRUE] \in SecretRow
        /\ [secrets[s] EXCEPT !.revoked = TRUE].environment = secrets[s].environment
    <3>1. /\ [secrets[s] EXCEPT !.version = @ + 1] \in SecretRow
          /\ [secrets[s] EXCEPT !.version = @ + 1].environment = secrets[s].environment
      BY <2>1 DEF SecretRow
    <3>2. /\ [secrets[s] EXCEPT !.revoked = TRUE] \in SecretRow
          /\ [secrets[s] EXCEPT !.revoked = TRUE].environment = secrets[s].environment
      BY <2>1 DEF SecretRow
    <3> QED
      BY <3>1, <3>2
  <2> QED
    BY <1>7, <1>8, <2>2 DEF ReplaceSecret, RevokeSecret
<1>9. ASSUME NEW t \in ClaimedTasks,
             \/ \E x \in Claimants : BeginClaim(t, x)
             \/ ResolveDefinition(t)
             \/ CommitClaim(t)
             \/ ClaimRollsBack(t)
             \/ RetryClaim(t)
             \/ TaskMovesOn(t)
      PROVE  UNCHANGED definitionTables
  BY <1>9 DEF BeginClaim, ResolveDefinition, CommitClaim, ClaimRollsBack, RetryClaim, TaskMovesOn
<1>10. ASSUME \/ \E token \in scopeTokens, x \in Claimants : OpenEnvironment(token, x)
              \/ RotateScopeKey
              \/ \E key \in scopeKeys.window : RetireScopeKey(key)
              \/ TimePasses
              \/ UNCHANGED launchVars
       PROVE  UNCHANGED definitionTables
  BY <1>10 DEF OpenEnvironment, RotateScopeKey, RetireScopeKey, TimePasses, launchVars
<1> QED
  BY <1>1, <1>2, <1>4, <1>5, <1>6, <1>8, <1>9, <1>10 DEF LaunchNext

(***************************************************************************)
(* The revisions of every definition are numbered without a gap and the    *)
(* last one is the definition with its secrets as they are now, through    *)
(* every sequence of edits of definitions and secrets                      *)
(* (appendLaunchParameterRevision, appendSecretDefinitionRevision).        *)
(***************************************************************************)
THEOREM HistoryCorrect == LaunchSpec => []HistoryMatchesDefinition
<1>1. HistoryInv => HistoryMatchesDefinition
  BY DEF HistoryInv, HistoryMatchesDefinition, HistoryOf
<1> QED
  BY <1>1, HistoryInit, HistoryStep, PTL DEF LaunchSpec

-----------------------------------------------------------------------------
(***************************************************************************)
(* Opening.                                                                *)
(***************************************************************************)

(***************************************************************************)
(* The inductive invariant.  The snapshot of a task and its owner are      *)
(* written by the commit of a claim only, a claim is open only while its   *)
(* task is pending, and whatever was opened belongs to a task that is not. *)
(***************************************************************************)
OpenInv ==
    /\ taskRows = [t \in ClaimedTasks |-> taskRows[t]]
    /\ snapshots = [t \in ClaimedTasks |-> snapshots[t]]
    /\ claims = [t \in ClaimedTasks |-> claims[t]]
    /\ \A t \in ClaimedTasks :
         /\ "state" \in DOMAIN taskRows[t] /\ "executor" \in DOMAIN taskRows[t]
         /\ "at" \in DOMAIN claims[t]
         /\ claims[t].at # "none" => taskRows[t].state = "pending"
    /\ \A token \in scopeTokens : token.task \in ClaimedTasks
    /\ \A o \in opened :
         /\ o.task \in ClaimedTasks
         /\ taskRows[o.task].state # "pending"
         /\ taskRows[o.task].executor = o.executor
         /\ o.values = Decrypted(o.task)

\* The invariant holds before the first claim.
LEMMA OpenInit == LaunchInit => OpenInv
<1> SUFFICES ASSUME LaunchInit PROVE OpenInv
  OBVIOUS
<1>1. PICK overrides \in [ClaimedTasks -> TaskImages] :
         taskRows = [t \in ClaimedTasks |->
             [state |-> "pending", executor |-> Absent, claimedAt |-> 0,
              override |-> overrides[t], source |-> "none"]]
  BY DEF LaunchInit
<1>2. NoClaim.at = "none" /\ "at" \in DOMAIN NoClaim
  BY DEF NoClaim
<1> QED
  BY <1>1, <1>2 DEF LaunchInit, OpenInv

(***************************************************************************)
(* A step that leaves owners and snapshots alone, closes or keeps claims,  *)
(* and issues and opens nothing new.                                       *)
(***************************************************************************)
LEMMA OpenKept ==
    ASSUME OpenInv, UNCHANGED <<claimTables, scopeTokens, opened>>,
           claims' = [t \in ClaimedTasks |-> claims'[t]],
           \A t \in ClaimedTasks :
             /\ "at" \in DOMAIN claims'[t]
             /\ claims'[t].at # "none" => taskRows[t].state = "pending"
    PROVE  OpenInv'
<1>1. taskRows' = taskRows /\ snapshots' = snapshots /\ scopeTokens' = scopeTokens
        /\ opened' = opened
  BY DEF claimTables
<1>2. \A t : Decrypted(t)' = Decrypted(t)
  BY <1>1 DEF Decrypted
<1> QED
  BY <1>1, <1>2 DEF OpenInv

\* Every edit, claim, open and key change keeps the invariant.
LEMMA OpenStep == OpenInv /\ [LaunchNext]_launchVars => OpenInv'
<1> SUFFICES ASSUME OpenInv, [LaunchNext]_launchVars PROVE OpenInv'
  OBVIOUS
<1>1. ASSUME NEW e, NEW definition, NEW table, Edit(e, definition, table) PROVE OpenInv'
  <2>1. claims' = [t \in ClaimedTasks |->
                     [claims[t] EXCEPT !.edited = claims[t].at # "none"]]
    BY <1>1 DEF Edit
  <2>2. ASSUME NEW t \in ClaimedTasks
        PROVE  "at" \in DOMAIN claims'[t] /\ claims'[t].at = claims[t].at
    BY <2>1 DEF OpenInv
  <2>3. UNCHANGED <<claimTables, scopeTokens, opened>>
    BY <1>1 DEF Edit
  <2>4. claims' = [t \in ClaimedTasks |-> claims'[t]]
    BY <2>1
  <2> QED
    BY <2>2, <2>3, <2>4, OpenKept DEF OpenInv
<1>2. ASSUME NEW t \in ClaimedTasks, NEW x \in Claimants, BeginClaim(t, x) PROVE OpenInv'
  <2>1. taskRows[t].state = "pending" /\ UNCHANGED <<claimTables, scopeTokens, opened>>
    BY <1>2 DEF BeginClaim
  <2> DEFINE c == [NoClaim EXCEPT !.at = "resolve", !.executor = x,
             !.rows = Listed("global") \o Listed("team") \o Listed("task_type"),
             !.effective = [k \in Keys |-> Effective(k)],
             !.revoked = {s \in Secrets : secrets[s].revoked}]
  <2>2. claims' = [claims EXCEPT ![t] = c] /\ "at" \in DOMAIN c
    <3>1. claims' = [claims EXCEPT ![t] = c]
      BY <1>2 DEF BeginClaim
    <3>2. "at" \in DOMAIN c
      BY DEF NoClaim
    <3> QED
      BY <3>1, <3>2
  <2> HIDE DEF c
  <2>3. /\ claims' = [u \in ClaimedTasks |-> claims'[u]]
        /\ claims'[t] = c
        /\ \A u \in ClaimedTasks \ {t} : claims'[u] = claims[u]
    BY <2>2 DEF OpenInv
  <2> QED
    BY <2>1, <2>2, <2>3, OpenKept DEF OpenInv
<1>3. ASSUME NEW t \in ClaimedTasks, ResolveDefinition(t) PROVE OpenInv'
  <2>1. claims[t].at = "resolve" /\ UNCHANGED <<claimTables, scopeTokens, opened>>
    BY <1>3 DEF ResolveDefinition
  <2>2. PICK c : claims' = [claims EXCEPT ![t] = c] /\ "at" \in DOMAIN c
    <3> DEFINE row == Head(claims[t].rows)
               merged(chosen) ==
                 [claims[t] EXCEPT !.rows = Tail(@),
                           !.values = MergedValues(@, row.env, chosen),
                           !.refs = MergedRefs(@, row.env, chosen),
                           !.image = IF row.image # Absent THEN row.image ELSE @,
                           !.source = IF row.image # Absent THEN row.scope ELSE @]
    <3>1. PICK chosen \in [Keys -> Secrets \cup {Absent}] :
            claims' = [claims EXCEPT ![t] = merged(chosen)]
      BY <1>3, Zenon DEF ResolveDefinition
    <3>2. "at" \in DOMAIN claims[t]
      BY DEF OpenInv
    <3>3. "at" \in DOMAIN merged(chosen)
      BY <3>2
    <3> HIDE DEF merged
    <3> QED
      BY <3>1, <3>3
  <2>3. /\ claims' = [u \in ClaimedTasks |-> claims'[u]]
        /\ claims'[t] = c
        /\ \A u \in ClaimedTasks \ {t} : claims'[u] = claims[u]
    BY <2>2 DEF OpenInv
  <2>4. taskRows[t].state = "pending"
    BY <2>1 DEF OpenInv
  <2> QED
    BY <2>1, <2>2, <2>3, <2>4, OpenKept DEF OpenInv
<1>4. ASSUME NEW t \in ClaimedTasks, CommitClaim(t) PROVE OpenInv'
  <2>1. taskRows[t].state = "pending"
    BY <1>4 DEF CommitClaim, OpenInv
  <2>2. PICK snapshot, row :
          /\ snapshots' = [snapshots EXCEPT ![t] = snapshot]
          /\ taskRows' = [taskRows EXCEPT ![t] = row]
          /\ "state" \in DOMAIN row /\ "executor" \in DOMAIN row
    <3> DEFINE new == [values |-> claims[t].values, refs |-> claims[t].refs,
                       effective |-> claims[t].effective, edited |-> claims[t].edited,
                       revoked |-> claims[t].revoked]
               claimed == [taskRows[t] EXCEPT !.state = "created",
                             !.executor = claims[t].executor, !.claimedAt = instant,
                             !.source = ResolveClaimImage(t)]
    <3>1. snapshots' = [snapshots EXCEPT ![t] = new]
      BY <1>4 DEF CommitClaim
    <3>2. taskRows' = [taskRows EXCEPT ![t] = claimed]
      BY <1>4 DEF CommitClaim
    <3>3. "state" \in DOMAIN taskRows[t] /\ "executor" \in DOMAIN taskRows[t]
      BY DEF OpenInv
    <3>4. "state" \in DOMAIN claimed /\ "executor" \in DOMAIN claimed
      BY <3>3
    <3> HIDE DEF new, claimed
    <3> QED
      BY <3>1, <3>2, <3>4
  <2>3. claims' = [claims EXCEPT ![t] = NoClaim] /\ opened' = opened
    BY <1>4 DEF CommitClaim
  <2>4. \A token \in scopeTokens' : token.task \in ClaimedTasks
    BY <1>4 DEF CommitClaim, IssueScopeToken, OpenInv
  <2>5. NoClaim.at = "none" /\ "at" \in DOMAIN NoClaim
    BY DEF NoClaim
  <2>6. \A u \in ClaimedTasks \ {t} :
          /\ taskRows'[u] = taskRows[u] /\ claims'[u] = claims[u]
          /\ Decrypted(u)' = Decrypted(u)
    BY <2>2, <2>3 DEF OpenInv, Decrypted
  <2>7. /\ taskRows' = [u \in ClaimedTasks |-> taskRows'[u]] /\ taskRows'[t] = row
        /\ snapshots' = [u \in ClaimedTasks |-> snapshots'[u]]
        /\ claims' = [u \in ClaimedTasks |-> claims'[u]] /\ claims'[t] = NoClaim
    BY <2>2, <2>3 DEF OpenInv
  <2>8. \A o \in opened : o.task \in ClaimedTasks \ {t}
    BY <2>1 DEF OpenInv
  <2>9. \A o \in opened' :
          /\ o.task \in ClaimedTasks /\ taskRows'[o.task].state # "pending"
          /\ taskRows'[o.task].executor = o.executor /\ o.values = Decrypted(o.task)'
    BY <2>3, <2>6, <2>8 DEF OpenInv
  <2>10. \A u \in ClaimedTasks :
           /\ "state" \in DOMAIN taskRows'[u] /\ "executor" \in DOMAIN taskRows'[u]
           /\ "at" \in DOMAIN claims'[u]
           /\ claims'[u].at # "none" => taskRows'[u].state = "pending"
    <3>1. ASSUME NEW u \in ClaimedTasks \ {t}
          PROVE  /\ "state" \in DOMAIN taskRows'[u] /\ "executor" \in DOMAIN taskRows'[u]
                 /\ "at" \in DOMAIN claims'[u]
                 /\ claims'[u].at # "none" => taskRows'[u].state = "pending"
      <4>1. /\ "state" \in DOMAIN taskRows[u] /\ "executor" \in DOMAIN taskRows[u]
            /\ "at" \in DOMAIN claims[u]
            /\ claims[u].at # "none" => taskRows[u].state = "pending"
        BY DEF OpenInv
      <4>2. taskRows'[u] = taskRows[u] /\ claims'[u] = claims[u]
        BY <2>6
      <4> QED
        BY <4>1, <4>2
    <3>2. /\ "state" \in DOMAIN taskRows'[t] /\ "executor" \in DOMAIN taskRows'[t]
          /\ "at" \in DOMAIN claims'[t] /\ claims'[t].at = "none"
      BY <2>2, <2>5, <2>7
    <3> QED
      BY <3>1, <3>2
  <2> QED
    BY <2>4, <2>7, <2>9, <2>10 DEF OpenInv
<1>5. ASSUME NEW t \in ClaimedTasks, ClaimRollsBack(t) PROVE OpenInv'
  <2>1. claims' = [claims EXCEPT ![t] = NoClaim] /\ UNCHANGED <<claimTables, scopeTokens, opened>>
    BY <1>5 DEF ClaimRollsBack
  <2>2. NoClaim.at = "none" /\ "at" \in DOMAIN NoClaim
    BY DEF NoClaim
  <2>3. /\ claims' = [u \in ClaimedTasks |-> claims'[u]]
        /\ claims'[t] = NoClaim
        /\ \A u \in ClaimedTasks \ {t} : claims'[u] = claims[u]
    BY <2>1 DEF OpenInv
  <2> QED
    BY <2>1, <2>2, <2>3, OpenKept DEF OpenInv
<1>6. ASSUME NEW t \in ClaimedTasks, RetryClaim(t) PROVE OpenInv'
  <2>1. taskRows' = taskRows /\ snapshots' = snapshots /\ claims' = claims /\ opened' = opened
    BY <1>6 DEF RetryClaim, claimTables
  <2>2. \A token \in scopeTokens' : token.task \in ClaimedTasks
    BY <1>6 DEF RetryClaim, IssueScopeToken, OpenInv
  <2>3. \A u : Decrypted(u)' = Decrypted(u)
    BY <2>1 DEF Decrypted
  <2> QED
    BY <2>1, <2>2, <2>3 DEF OpenInv
<1>7. ASSUME NEW t \in ClaimedTasks, TaskMovesOn(t) PROVE OpenInv'
  <2>1. /\ snapshots' = snapshots /\ claims' = claims /\ opened' = opened
        /\ scopeTokens' = scopeTokens
        /\ taskRows[t].state # "pending"
    BY <1>7 DEF TaskMovesOn
  <2>2. /\ taskRows' = [u \in ClaimedTasks |-> taskRows'[u]]
        /\ \A u \in ClaimedTasks : 
             /\ "state" \in DOMAIN taskRows'[u] /\ "executor" \in DOMAIN taskRows'[u]
             /\ taskRows'[u].executor = taskRows[u].executor
             /\ taskRows'[u].state = "pending" <=> taskRows[u].state = "pending"
    BY <1>7 DEF TaskMovesOn, OpenInv
  <2>3. \A u : Decrypted(u)' = Decrypted(u)
    BY <2>1 DEF Decrypted
  <2> QED
    BY <2>1, <2>2, <2>3 DEF OpenInv
<1>8. ASSUME NEW token \in scopeTokens, NEW x \in Claimants, OpenEnvironment(token, x)
      PROVE  OpenInv'
  <2>1. /\ taskRows' = taskRows /\ snapshots' = snapshots /\ claims' = claims
        /\ scopeTokens' = scopeTokens
        /\ opened' = opened \cup {[task |-> token.task, executor |-> x,
                                   values |-> Decrypted(token.task)]}
    BY <1>8 DEF OpenEnvironment, claimTables
  <2>2. /\ token.task \in ClaimedTasks
        /\ taskRows[token.task].state # "pending" /\ taskRows[token.task].executor = x
    BY <1>8 DEF OpenEnvironment, Opens, OpenInv
  <2>3. \A u : Decrypted(u)' = Decrypted(u)
    BY <2>1 DEF Decrypted
  <2>4. \A o \in opened' :
          /\ o.task \in ClaimedTasks /\ taskRows[o.task].state # "pending"
          /\ taskRows[o.task].executor = o.executor /\ o.values = Decrypted(o.task)
    <3>1. \A o \in opened :
            /\ o.task \in ClaimedTasks /\ taskRows[o.task].state # "pending"
            /\ taskRows[o.task].executor = o.executor /\ o.values = Decrypted(o.task)
      BY DEF OpenInv
    <3> QED
      BY <2>1, <2>2, <3>1
  <2> QED
    BY <2>1, <2>3, <2>4 DEF OpenInv
<1>9. ASSUME \/ RotateScopeKey
             \/ \E key \in scopeKeys.window : RetireScopeKey(key)
             \/ TimePasses
             \/ UNCHANGED launchVars
      PROVE  OpenInv'
  <2>1. UNCHANGED <<claimTables, scopeTokens, opened>> /\ claims' = claims
    BY <1>9 DEF RotateScopeKey, RetireScopeKey, TimePasses, launchVars
  <2> QED
    BY <2>1, OpenKept DEF OpenInv
<1>10. ASSUME NEW s, NEW secret, EditSecret(s, secret) PROVE OpenInv'
  BY <1>1, <1>10 DEF EditSecret
<1>11. ASSUME NEW e, NEW w,
              \/ \E scope : CreateLaunchParameters(e, scope, w)
              \/ ReplaceLaunchParameters(e, w)
              \/ DeleteLaunchParameters(e)
       PROVE  OpenInv'
  BY <1>1, <1>11 DEF CreateLaunchParameters, ReplaceLaunchParameters, DeleteLaunchParameters
<1>12. ASSUME NEW s, \/ \E e, k : CreateSecret(s, e, k)
                     \/ ReplaceSecret(s)
                     \/ RevokeSecret(s)
       PROVE  OpenInv'
  BY <1>10, <1>12 DEF CreateSecret, ReplaceSecret, RevokeSecret
<1> QED
  BY <1>2, <1>3, <1>4, <1>5, <1>6, <1>7, <1>8, <1>9, <1>11, <1>12 DEF LaunchNext

(***************************************************************************)
(* All opens of a task return the same to its one owner                    *)
(* (Store.OpenEnvironment), for every number of tasks, Executors, edits,   *)
(* retried claims and key rotations.                                       *)
(***************************************************************************)
THEOREM OpensCorrect == LaunchSpec => []OpensAgree
<1>1. OpenInv => OpensAgree
  BY DEF OpenInv, OpensAgree
<1> QED
  BY <1>1, OpenInit, OpenStep, PTL DEF LaunchSpec
=============================================================================
