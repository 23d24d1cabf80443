---------------------------- MODULE ProfileRegistry ----------------------------
(***************************************************************************)
(* The registry of AI profiles of one workspace (services/profiles.py,     *)
(* migration 0011).  An owner drafts versions of a profile and decides     *)
(* which one is on trial.  A decision is a row of its own and its id names *)
(* the selection: to select a version, withdraw it and select it again     *)
(* makes two selections, and work begun under the first is not work under  *)
(* the second.                                                             *)
(*                                                                         *)
(* Ids are places in the sequences, 0 is SQL NULL.  A command names the    *)
(* revision of the head its owner saw and is refused at any other, so each *)
(* action is a command at the current revision.                            *)
(***************************************************************************)
EXTENDS Integers, Sequences

LOCAL INSTANCE FiniteSetsExt

CONSTANTS
  Profiles,      \* names of profiles
  Contracts,     \* what the deployed code makes of a profile: prompt, schema, parameters
  MaxChanges     \* bound: drafts and decisions, of all profiles together

ASSUME ChangesAssumption == MaxChanges \in Nat

VARIABLES
  contract,      \* execution_hash of the deployed code
  version,       \* ai_profile_versions of each profile
  decision,      \* ai_profile_decisions of each profile
  head           \* ai_profile_heads

registryVars == <<contract, version, decision, head>>

-------------------------------------------------------------------------------
(* Rows *)

Head0 == [revision |-> 0, latest |-> 0, testing |-> 0, selection |-> 0]

HeadRow(revision, latest, testing, selection) ==
  [revision |-> revision, latest |-> latest, testing |-> testing, selection |-> selection]

Heads == [revision : Nat, latest : Nat, testing : Nat, selection : Nat]

Versions == [contract : Contracts]

Decisions == [version : Nat \ {0}, action : {"select", "disable"}, revision : Nat]

\* compatible_profile: the code would do today what it did when the version was drafted.
Compatible(p, v) == version[p][v].contract = contract

\* Mutant: only the version is compared, not the decision that selected it.
SelectedVersion(p, v, selection) ==
  /\ head[p].testing # 0
  /\ v = head[p].testing
  /\ Compatible(p, v)

Selected(p, v, selection) ==
  /\ head[p].testing # 0
  /\ <<v, selection>> = <<head[p].testing, head[p].selection>>
  /\ Compatible(p, v)

-------------------------------------------------------------------------------
(* Commands *)

Changes == MapThenSumSet(LAMBDA p : head[p].revision, Profiles)

\* Mutant: a new draft takes the version on trial out of use.
DraftedAlone(row) == HeadRow(row.revision + 1, row.latest + 1, 0, 0)

\* A draft leaves the version on trial alone.
Drafted(row) == HeadRow(row.revision + 1, row.latest + 1, row.testing, row.selection)

DraftProfile(p) ==
  /\ Changes < MaxChanges
  /\ version' = [version EXCEPT ![p] = Append(@, [contract |-> contract])]
  /\ head' = [head EXCEPT ![p] = Drafted(@)]
  /\ UNCHANGED <<contract, decision>>

Decide(p, v, action) ==
  /\ head[p].revision # 0 /\ Changes < MaxChanges
  /\ decision' = [decision EXCEPT ![p] =
       Append(@, [version |-> v, action |-> action, revision |-> head[p].revision + 1])]

SelectTesting(p, v) ==
  /\ Compatible(p, v)
  /\ Decide(p, v, "select")
  /\ head' = [head EXCEPT ![p] =
       HeadRow(@.revision + 1, @.latest, v, Len(decision[p]) + 1)]
  /\ UNCHANGED <<contract, version>>

DisableProfile(p) ==
  /\ head[p].testing # 0
  /\ Decide(p, head[p].testing, "disable")
  /\ head' = [head EXCEPT ![p] = HeadRow(@.revision + 1, @.latest, 0, 0)]
  /\ UNCHANGED <<contract, version>>

\* A release of the code, or a rollback, changes what profiles do.
Deploy(c) ==
  /\ c # contract
  /\ contract' = c
  /\ UNCHANGED <<version, decision, head>>

-------------------------------------------------------------------------------
(* The trigger on ai_profile_heads, given the rows as they are once it runs *)

HeadGuard(old, new, versions, decisions) ==
  /\ new.latest \in DOMAIN versions
  /\ IF old = Head0 THEN new = HeadRow(1, 1, 0, 0)
     ELSE
       /\ new.revision = old.revision + 1
       /\ IF new.latest # old.latest
          THEN /\ new.latest = old.latest + 1
               /\ <<new.testing, new.selection>> = <<old.testing, old.selection>>
          ELSE IF new.testing # 0
          THEN /\ new.selection \in DOMAIN decisions
               /\ decisions[new.selection] =
                    [version |-> new.testing, action |-> "select", revision |-> new.revision]
          ELSE /\ old.testing # 0
               /\ \E d \in DOMAIN decisions : decisions[d] =
                    [version |-> old.testing, action |-> "disable", revision |-> new.revision]

-------------------------------------------------------------------------------
RegistryInit ==
  /\ contract \in Contracts
  /\ version = [p \in Profiles |-> <<>>]
  /\ decision = [p \in Profiles |-> <<>>]
  /\ head = [p \in Profiles |-> Head0]

RegistryNext ==
  \/ \E p \in Profiles :
       DraftProfile(p) \/ DisableProfile(p) \/ \E v \in DOMAIN version[p] : SelectTesting(p, v)
  \/ \E c \in Contracts : Deploy(c)

-------------------------------------------------------------------------------
RegistryTypeOK ==
  /\ contract \in Contracts
  /\ version \in [Profiles -> Seq(Versions)]
  /\ decision \in [Profiles -> Seq(Decisions)]
  /\ head \in [Profiles -> Heads]

HeadHolds(row, versions, decisions) ==
  /\ row.revision = Len(versions) + Len(decisions)
  /\ row.latest = Len(versions)
  /\ row.testing \in 0 .. Len(versions)
  /\ row.selection \in {0, Len(decisions)}
  /\ (row.selection = 0) = (row.testing = 0)
  /\ row.testing # 0 =>
       /\ decisions[row.selection].version = row.testing
       /\ decisions[row.selection].action = "select"

\* The heads tell the same story as the decisions: the version on trial is the one the
\* last decision selected, none is on trial if the last decision withdrew it, and the
\* revision counts drafts and decisions alike (ProfileService.execute, HEAD_GUARD).
LastDecisionHolds == \A p \in Profiles : HeadHolds(head[p], version[p], decision[p])
=============================================================================
